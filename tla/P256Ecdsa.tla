----------------------------- MODULE P256Ecdsa ------------------------------
(***************************************************************************)
(* libmincrypt/p256_ec.c and p256_ecdsa.c: the curve y^2 = x^3 - 3x + b    *)
(* over the field of size p, and p256_ecdsa_verify, step by step.  A field *)
(* element is its residue in Montgomery form, x * R mod p, which is what   *)
(* P256Field shows the limbs to compute.  The comb has Teeth teeth (4) of  *)
(* two tables and Rounds rounds (32), the windows have Window bits (4): a  *)
(* scalar has 2 * Teeth * Rounds bits.  The loop of p256_modinv_vartime    *)
(* takes one action per turn, because it only ends for a signature that is *)
(* not 0: the check of r and s is what makes it end.                       *)
(***************************************************************************)
EXTENDS Integers, TLC

CONSTANTS Bits, NDIGITS,        \* the digits of a p256_int
          p, n, b,              \* SECP256r1_p, _n and _b, as integers
          G,                    \* the base point
          Teeth, Rounds, Window,
          Keys, Messages, Rs, Ss  \* the integers verify is called with

D == INSTANCE P256Int
NBITS == Bits * NDIGITS

(* 1 / x mod m by search, and the group law in affine coordinates: the     *)
(* reference.  <<0, 0>> is the point at infinity, as in point_to_affine.   *)
Infinity == <<0, 0>>
InverseTable(m) == [x \in 1 .. m - 1 |-> CHOOSE y \in 1 .. m - 1 : (x * y) % m = 1]
InvP == InverseTable(p)
InvN == InverseTable(n)
OnCurve(x, y) == (y * y) % p = (x * x * x - 3 * x + b) % p
AddAffine(P, Q) ==
  LET slope == IF P = Q THEN ((3 * P[1] * P[1] - 3) * InvP[(2 * P[2]) % p]) % p
               ELSE ((Q[2] - P[2]) * InvP[(Q[1] - P[1]) % p]) % p
      x == (slope * slope - P[1] - Q[1]) % p
  IN  IF P = Infinity THEN Q
      ELSE IF Q = Infinity THEN P
      ELSE IF P[1] = Q[1] /\ (P[2] + Q[2]) % p = 0 THEN Infinity
      ELSE <<x, (slope * (P[1] - x) - P[2]) % p>>
(* 0 P, 1 P, ... (n-1) P *)
Multiples(P) ==
  LET m[k \in 0 .. n - 1] ==
        IF k = 0 THEN Infinity
        ELSE LET half == m[k \div 2]
                 even == AddAffine(half, half)
             IN IF k % 2 = 1 THEN AddAffine(even, P) ELSE even
  IN  [k \in 0 .. n - 1 |-> m[k]]
-----------------------------------------------------------------------------
R == (2 * 2 ^ NBITS) % p
kOne == R
mul(x, y) == (((x * y) % p) * InvP[R]) % p
square(x) == mul(x, x)
sum(x, y) == (x + y) % p
diff(x, y) == (x - y) % p
scalar(k, x) == (k * x) % p
is_zero(x) == x = 0
to_montgomery(x) == (x * R) % p
from_montgomery(x) == mul(x, 1)

point_double(P) ==
  LET x == P[1]
      y == P[2]
      z == P[3]
      delta == square(z)
      gamma == square(y)
      beta == scalar(4, mul(x, gamma))
      alpha == scalar(3, mul(sum(x, delta), diff(x, delta)))
      x_out == diff(diff(square(alpha), beta), beta)
  IN  <<x_out,
        diff(mul(alpha, diff(beta, x_out)), scalar(8, square(gamma))),
        diff(diff(square(sum(y, z)), gamma), delta)>>

(* What the additions share: h = u2 - u1, r = 2 (s2 - s1), zz = 2 z1 z2.   *)
Added(u1, s1, u2, s2, zz) ==
  LET h == diff(u2, u1)
      i == square(sum(h, h))
      j == mul(h, i)
      r == sum(diff(s2, s1), diff(s2, s1))
      v == mul(u1, i)
      x_out == diff(diff(diff(square(r), j), v), v)
      t == mul(s1, j)
  IN  <<x_out, diff(diff(mul(diff(v, x_out), r), t), t), mul(zz, h)>>

(* {x1,y1,z1} + {x2,y2,1}; not for P+P, infinity+P, P+infinity.            *)
point_add_mixed(P, x2, y2) ==
  LET z1z1 == square(P[3])
  IN  Added(P[1], P[2], mul(x2, z1z1), mul(y2, mul(P[3], z1z1)), sum(P[3], P[3]))

U(P, Q) == mul(P[1], square(Q[3]))
S(P, Q) == mul(P[2], mul(Q[3], square(Q[3])))
ZZ(P, Q) == diff(diff(square(sum(P[3], Q[3])), square(P[3])), square(Q[3]))
(* The same cases are not handled.                                         *)
point_add(P, Q) == Added(U(P, Q), S(P, Q), U(Q, P), S(Q, P), ZZ(P, Q))
(* Handles P+P.                                                            *)
point_add_or_double_vartime(P, Q) ==
  IF is_zero(diff(U(Q, P), U(P, Q))) /\ is_zero(diff(S(Q, P), S(P, Q)))
  THEN point_double(P) ELSE point_add(P, Q)

(* (0, 0) for the point at infinity: felem_inv(0) = 0.                     *)
felem_inv(x) == IF x = 0 THEN 0 ELSE to_montgomery(InvP[from_montgomery(x)])
point_to_affine(P) ==
  LET z_inv == felem_inv(P[3])
      z_inv_sq == square(z_inv)
  IN  <<mul(P[1], z_inv_sq), mul(P[2], mul(z_inv, z_inv_sq))>>
-----------------------------------------------------------------------------
(* Table j, 0 or 1: entry index is the sum of 2^(2 Rounds t + Rounds j) G  *)
(* for the bits t of index.                                                *)
BitOf(v, t) == (v \div 2 ^ t) % 2
TableScalar(j, index) ==
  LET Tooth(k, s) == s + BitOf(index, k - 1) * 2 ^ (2 * Rounds * (k - 1) + Rounds * j)
  IN  D!Loop(Tooth, 0, Teeth)
MultiplesOfG == Multiples(G)
kPrecomputed ==
  [j \in 0 .. 1 |-> [index \in 1 .. 2 ^ Teeth - 1 |->
     LET P == MultiplesOfG[TableScalar(j, index) % n]
     IN <<to_montgomery(P[1]), to_montgomery(P[2])>>]]

select_affine_point(table, index) == IF index = 0 THEN <<0, 0>> ELSE table[index]
select_jacobian_point(table, index) == IF index = 0 THEN <<0, 0, 0>> ELSE table[index]
copy_conditional(out, in, mask) == IF mask THEN in ELSE out

(* One addition into s = [n, inf]; P is what the table holds and T the sum *)
(* that is wrong when either is the point at infinity.                     *)
Accumulate(s, P, T, index) ==
  LET first == copy_conditional(s.n, P, s.inf)
  IN  [n |-> copy_conditional(first, T, index # 0 /\ ~ s.inf), inf |-> s.inf /\ index = 0]

CombIndex(k, i, j) ==
  LET Tooth(t, v) == v + D!p256_get_bit(k, Rounds - 1 - i + j * Rounds + 2 * Rounds * (t - 1)) * 2 ^ (t - 1)
  IN  D!Loop(Tooth, 0, Teeth)
scalar_base_mult(k) ==
  LET Step(m, s) ==
        LET i == (m - 1) \div 2
            j == (m - 1) % 2
            N == IF i > 0 /\ j = 0 THEN point_double(s.n) ELSE s.n
            index == CombIndex(k, i, j)
            P == select_affine_point(kPrecomputed[j], index)
        IN  Accumulate([s EXCEPT !.n = N], <<P[1], P[2], kOne>>,
                       point_add_mixed(N, P[1], P[2]), index)
  IN  D!Loop(Step, [n |-> <<0, 0, 0>>, inf |-> TRUE], 2 * Rounds).n

(* 0, 1, 2, ... times {x, y} *)
Precomp(x, y) ==
  LET Step(k, f) == LET twice == point_double(f[k])
                    IN f @@ (2 * k :> twice) @@ (2 * k + 1 :> point_add_mixed(twice, x, y))
  IN  D!Loop(Step, (0 :> <<0, 0, 0>>) @@ (1 :> <<x, y, kOne>>), 2 ^ (Window - 1) - 1)
scalar_mult(x, y, k) ==
  LET precomp == Precomp(x, y)
      Step(m, s) ==
        LET i == (m - 1) * Window
            Twice(t, P) == point_double(P)
            N == IF i > 0 THEN D!Loop(Twice, s.n, Window) ELSE s.n
            Bit(t, v) == 2 * v + D!p256_get_bit(k, NBITS - 1 - i - (t - 1))
            index == D!Loop(Bit, 0, Window)
            P == select_jacobian_point(precomp, index)
        IN  Accumulate([s EXCEPT !.n = N], P, point_add(N, P), index)
  IN  D!Loop(Step, [n |-> <<0, 0, 0>>, inf |-> TRUE], NBITS \div Window).n

FromAffine(P) == LET a == point_to_affine(P) IN <<from_montgomery(a[1]), from_montgomery(a[2])>>
p256_base_point_mul(k) == FromAffine(scalar_base_mult(k))
(* n1 G + n2 {x, y} of the results of scalar_base_mult and scalar_mult.    *)
PointsSum(n1, n2, P1, P2) ==
  IF D!p256_is_zero(n2) THEN P1
  ELSE IF D!p256_is_zero(n1) THEN P2
  ELSE point_add_or_double_vartime(P1, P2)
p256_points_mul_vartime(n1, n2, x, y) ==
  IF D!p256_is_zero(n1) /\ D!p256_is_zero(n2) THEN Infinity
  ELSE FromAffine(PointsSum(n1, n2, scalar_base_mult(n1),
                            scalar_mult(to_montgomery(x), to_montgomery(y), n2)))
-----------------------------------------------------------------------------
(* p256_ecdsa_verify.                                                      *)
VARIABLES pc, call, t, u, v, result
ecdsaVars == <<pc, call, t, u, v, result>>

N == D!Digits(n)
Ints(S0) == {D!Digits(i) : i \in S0}
None == <<>>

EcdsaInit == pc = "idle" /\ call = None /\ t = None /\ u = None /\ v = None /\ result = -1

Verify(key, message, r, s) ==
  /\ pc = "idle"
  /\ call' = [x |-> D!Digits(key[1]), y |-> D!Digits(key[2]), m |-> message, r |-> r, s |-> s]
  /\ pc' = "check"
  /\ UNCHANGED <<t, u, v, result>>

Return(res) == pc' = "done" /\ result' = res

(* Mutant: s is not looked at. *)
Rejected_OnlyR(c) ==
  \/ ~ D!p256_is_valid_point(D!Digits(p), D!Digits(b), c.x, c.y)
  \/ D!p256_is_zero(D!p256_mod(N, c.r))
(* The key, and r and s not 0 mod n.                                       *)
Rejected(c) ==
  \/ ~ D!p256_is_valid_point(D!Digits(p), D!Digits(b), c.x, c.y)
  \/ D!p256_is_zero(D!p256_mod(N, c.r))
  \/ D!p256_is_zero(D!p256_mod(N, c.s))
Check ==
  /\ pc = "check"
  /\ \/ /\ Rejected(call)
        /\ Return(0)
        /\ UNCHANGED t
     \/ /\ ~ Rejected(call)
        /\ pc' = "invert"
        /\ t' = D!modinv_start(N, call.s)
        /\ UNCHANGED result
  /\ UNCHANGED <<call, u, v>>

Turn ==
  /\ pc = "invert" /\ ~ t.done
  /\ t' = D!modinv_turn(N, t)
  /\ UNCHANGED <<pc, call, u, v, result>>

(* u = message / s, v = r / s mod n *)
Scale ==
  /\ pc = "invert" /\ t.done
  /\ LET inv == D!modinv_result(N, t)
     IN u' = D!p256_modmul(N, call.m, 0, inv) /\ v' = D!p256_modmul(N, call.r, 0, inv)
  /\ pc' = "points"
  /\ UNCHANGED <<call, t, result>>

(* {u, v} = u G + v key *)
Points ==
  /\ pc = "points"
  /\ LET P == p256_points_mul_vartime(u, v, D!Val(call.x), D!Val(call.y))
     IN u' = D!Digits(P[1]) /\ v' = D!Digits(P[2])
  /\ pc' = "compare"
  /\ UNCHANGED <<call, t, result>>

(* Mutant: compares r mod n. *)
Compare_Reduced ==
  /\ pc = "compare"
  /\ Return(IF D!p256_cmp(D!p256_mod(N, call.r), D!p256_mod(N, u)) = 0 THEN 1 ELSE 0)
  /\ UNCHANGED <<call, t, u, v>>
(* r itself, not r mod n *)
Compare ==
  /\ pc = "compare"
  /\ Return(IF D!p256_cmp(call.r, D!p256_mod(N, u)) = 0 THEN 1 ELSE 0)
  /\ UNCHANGED <<call, t, u, v>>

EcdsaNext ==
  \/ \E key \in Keys, m \in Ints(Messages), r \in Ints(Rs), s \in Ints(Ss) : Verify(key, m, r, s)
  \/ Check \/ Turn \/ Scale \/ Points \/ Compare
EcdsaSpec == EcdsaInit /\ [][EcdsaNext]_ecdsaVars /\ WF_ecdsaVars(Turn)
-----------------------------------------------------------------------------
(* The verification equation over the integers, for the key of c.          *)
MultiplesOfKey == [key \in {k \in Keys : OnCurve(k[1], k[2])} |-> Multiples(key)]
Signed(c) ==
  LET r == D!Val(c.r)
      s == D!Val(c.s) % n
      u1 == (D!Val(c.m) * InvN[s]) % n
      u2 == (r * InvN[s]) % n
      key == MultiplesOfKey[<<D!Val(c.x), D!Val(c.y)>>]
  IN  /\ r \in 1 .. n - 1 /\ s # 0
      /\ r = AddAffine(MultiplesOfG[u1], key[u2])[1] % n

(* The comment of p256_is_valid_point (p256.c:338-339), over the integers. *)
ValidKey(x, y) == x \in 1 .. p - 1 /\ y \in 1 .. p - 1 /\ OnCurve(x, y)

(* The points its code does not take all the same: x^3 - 3x + b, from p to *)
(* 2^256, is left as it is (p256.c:355-356) and no square mod p equals it. *)
Unreduced(x) == ((x * x * x - 3 * x) % p) + b \in p .. 2 ^ NBITS - 1

(* A signature is accepted iff the key is a point of the curve with        *)
(* 0 < x < p and 0 < y < p, not one of those left unreduced, and the       *)
(* equation of ECDSA holds: whatever r, s and the message are below 2^256, *)
(* reduced or not, and also when u G and v key are equal or opposite       *)
(* points (p256_ecdsa.c:32-55).                                            *)
AcceptsExactlySignatures ==
  pc = "done" =>
    LET x == D!Val(call.x)
    IN  result = IF ValidKey(x, D!Val(call.y)) /\ ~ Unreduced(x) /\ Signed(call) THEN 1 ELSE 0

(* The two loops of scalar_base_mult and scalar_mult, with their special   *)
(* cases for infinity, and the final addition give the group's u G + v key *)
(* (p256_ec.c:1043-1279).                                                  *)
PointIsTheSum ==
  pc = "compare" /\ D!Val(call.s) % n # 0 =>
    LET key == MultiplesOfKey[<<D!Val(call.x), D!Val(call.y)>>]
        inv == InvN[D!Val(call.s) % n]
    IN  <<D!Val(u), D!Val(v)>> =
          AddAffine(MultiplesOfG[(D!Val(call.m) * inv) % n], key[(D!Val(call.r) * inv) % n])

(* In every turn of the binary euclid R s = U and S s = V mod n, R and S   *)
(* stay below n, so no carry is lost (p256.c:291-329).                     *)
InverseLoop ==
  pc = "invert" =>
    LET s == D!Val(call.s)
    IN  /\ D!Val(t.R) < n /\ D!Val(t.S) < n
        /\ (D!Val(t.R) * s) % n = D!Val(t.U) % n
        /\ (D!Val(t.S) * s) % n = D!Val(t.V) % n

(* The inverse is found: its loop has no bound of its own, and would turn  *)
(* forever on s = 0 (p256.c:300, p256_ecdsa.c:41-43).                      *)
InverseEnds == pc = "invert" ~> pc = "invert" /\ t.done
=============================================================================
