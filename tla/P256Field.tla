----------------------------- MODULE P256Field ------------------------------
(***************************************************************************)
(* libmincrypt/p256_ec.c: the field elements.  An felem is nine limbs of   *)
(* alternately A and A-1 bits (29 and 28 in the code) in words of A+3      *)
(* bits, and holds x * R mod p for R = 2^(9A-4) and                        *)
(*   p = 2^(9A-5) - 2^b7 + 2^b6 + 2^b3 - 1.                                *)
(* The code's shifts are the distances o3, o6 and o7 of the bits of p from *)
(* the start of limbs 3, 6 and 7: 10, 21 and 24, that is b3 = 96, b6 = 192 *)
(* and b7 = 224.  A 64-bit product is a pair of words.                     *)
(***************************************************************************)
EXTENDS Integers, TLC

CONSTANTS A, o3, o6, o7,
          Bits, NDIGITS,           \* the digits of a p256_int
          SECP256r1_p, kR, kRInv,  \* p, R mod p and 1/R mod p as p256_ints
          Square(_), Mul(_, _)     \* what felem_inv does in a turn

D == INSTANCE P256Int

NLIMBS == 9
Limbs == 0 .. NLIMBS - 1
Word == 2 ^ (A + 3)
Width(i) == IF i % 2 = 0 THEN A ELSE A - 1
Bottom(i) == 2 ^ Width(i)

(* 0 for 0 and for what is above half of a word, all ones otherwise.       *)
NON_ZERO_TO_ALL_ONES(x) == IF ((x - 1) % Word) \div (Word \div 2) = 0 THEN Word - 1 ELSE 0
And(x, mask) == IF mask = 0 THEN 0 ELSE x

felem(l0, l1, l2, l3, l4, l5, l6, l7, l8) ==
  D!Strict([i \in Limbs |-> <<l0, l1, l2, l3, l4, l5, l6, l7, l8>>[i + 1]])
kZero == felem(0, 0, 0, 0, 0, 0, 0, 0, 0)
kOne == felem(2, 0, 0, 2 ^ (A-1) - 2 ^ (o3+1), 2 ^ A - 1, 2 ^ (A-1) - 1,
              2 ^ A - 1 - 2 ^ (o6+1), 2 ^ (o7+1) - 1, 0)
kP == felem(2 ^ A - 1, 2 ^ (A-1) - 1, 2 ^ A - 1, 2 ^ o3 - 1, 0, 0,
            2 ^ o6, 2 ^ (A-1) - 2 ^ o7, 2 ^ (A-1) - 1)
k2P == felem(2 ^ A - 2, 2 ^ (A-1) - 1, 2 ^ A - 1, 2 ^ (o3+1) - 1, 0, 0,
             2 ^ (o6+1), 2 ^ (A-1) - 2 ^ (o7+1), 2 ^ A - 1)
zero31 == felem(2 ^ (A+2) - 8, 2 ^ (A+1) - 4, 2 ^ (A+2) - 4, 2 ^ (A+1) + 2 ^ (o3+3) - 4,
                2 ^ (A+2) - 4, 2 ^ (A+1) - 4, 2 ^ (A+2) + 2 ^ (o6+3) - 4,
                2 ^ (A+1) - 2 ^ (o7+3) - 4, 2 ^ (A+2) - 4)

(* Cancels a carry at 2^(9A-4) by adding a multiple of p.                  *)
felem_reduce_carry(f, carry) ==
  LET m(x) == And(x, NON_ZERO_TO_ALL_ONES(carry))
      d == felem(2 * carry, 0, 0, m(2 ^ (A-1)) - carry * 2 ^ (o3+1), m(2 ^ A - 1),
                 m(2 ^ (A-1) - 1), m(2 ^ A - 1) - carry * 2 ^ (o6+1),
                 carry * 2 ^ (o7+1) - m(1), 0)
  IN  D!Strict([i \in Limbs |-> (f[i] + d[i]) % Word])

(* Word t[i] plus the carry from below, for every limb: the limbs and the  *)
(* carry out of the last one.                                              *)
Chain(t) ==
  LET Limb(k, x) == LET i == k - 1
                        w == (t[i] + x.c) % Word
                    IN [f |-> x.f @@ (i :> (w % Bottom(i))), c |-> w \div Bottom(i)]
  IN  D!Loop(Limb, [f |-> <<>>, c |-> 0], NLIMBS)
Carried(t) == LET r == Chain(t) IN felem_reduce_carry(r.f, r.c)

felem_sum(x, y) == Carried([i \in Limbs |-> x[i] + y[i]])
felem_diff(x, y) == Carried([i \in Limbs |-> x[i] - y[i] + zero31[i]])
felem_scalar_3(x) == Carried([i \in Limbs |-> 3 * x[i]])

(* x * 2^k: the bits that leave a limb go to the carry before the shift.   *)
Shifted(x, n) ==
  LET Limb(k, y) == LET i == k - 1
                        w == ((x[i] * 2 ^ n) % Bottom(i)) + y.c
                    IN [f |-> y.f @@ (i :> (w % Bottom(i))),
                        c |-> x[i] \div 2 ^ (Width(i) - n) + w \div Bottom(i)]
      r == D!Loop(Limb, [f |-> <<>>, c |-> 0], NLIMBS)
  IN  felem_reduce_carry(r.f, r.c)
felem_scalar_4(x) == Shifted(x, 2)
felem_scalar_8(x) == Shifted(x, 3)

(* 1 iff x = 0 mod p: x in a minimal form is 0, p or 2p.  MaxTurns bounds  *)
(* a loop that ends when nothing is carried any more.                      *)
MaxTurns == 4
felem_is_zero_vartime(x) ==
  LET Turn(k, y) == LET r == Chain(y.f)
                    IN IF y.c = 0 THEN y ELSE [f |-> felem_reduce_carry(r.f, r.c), c |-> r.c]
      last == D!Loop(Turn, [f |-> x, c |-> 1], MaxTurns)
  IN  last.c = 0 /\ last.f \in {kZero, kP, k2P}
-----------------------------------------------------------------------------
(* The product: tmp[k], k < 17, is a pair of words.  Limbs i and j of odd  *)
(* index meet one bit above position i + j.                                *)
Terms(k) == {i \in Limbs : k - i \in Limbs}
Double(i, j) == IF i % 2 = 1 /\ j % 2 = 1 THEN 1 ELSE 0

(* The pair of words that holds the sum of the terms.                      *)
Sum(term) ==
  LET Add(k, x) == LET t == IF k - 1 \in DOMAIN term THEN term[k - 1] ELSE 0
                       lo == x[1] + (t % Word)
                   IN <<lo % Word, (x[2] + t \div Word + lo \div Word) % Word>>
  IN  D!Loop(Add, <<0, 0>>, NLIMBS)
Shl(x, n) == (x * 2 ^ n) % Word

Products(x, y) ==
  [k \in 0 .. 16 |->
     Sum([i \in Terms(k) |-> x[i] * Shl(y[k - i], Double(i, k - i))])]
(* Every pair of different limbs once, shifted by one more.                *)
Squares(x) ==
  [k \in 0 .. 16 |->
     Sum([i \in {j \in Terms(k) : 2 * j <= k} |->
            x[i] * Shl(x[k - i], Double(i, k - i) + (IF 2 * i = k THEN 0 ELSE 1))])]

(* Eighteen words without overlap.                                         *)
Spread(tmp) ==
  LET hi(k) == IF k < 0 THEN 0 ELSE tmp[k][2] \div 2 ^ (A - 4)
      above(k) == tmp[k][1] \div Bottom(k) + tmp[k][2] * 2 ^ (A + 3 - Width(k))
      Limb(k, x) ==
        LET i == k - 1
            w == (tmp[i][1] % Bottom(i)) + (IF i = 0 THEN 0 ELSE above(i - 1) % Bottom(i))
                   + hi(i - 2) + x.c
        IN [w |-> x.w @@ (i :> (w % Bottom(i))), c |-> w \div Bottom(i)]
      r == D!Loop(Limb, [w |-> <<>>, c |-> 0], 17)
  IN  r.w @@ (17 :> (hi(15) + above(16) + r.c) % Word)

(* Montgomery elimination: adds a multiple of p that clears word i, x being *)
(* its low bits; Even and Odd are the two halves of the loop.              *)
Even(w, i) ==
  LET x == w[i] % 2 ^ A
      m(v) == And(v, NON_ZERO_TO_ALL_ONES(x))
      add == [k \in 0 .. 17 |->
        CASE k = i     -> -w[i]
          [] k = i + 1 -> w[i] \div 2 ^ A
          [] k = i + 3 -> (x * 2 ^ o3) % 2 ^ (A-1)
          [] k = i + 4 -> x \div 2 ^ (A-1-o3)
          [] k = i + 6 -> (x * 2 ^ o6) % 2 ^ A
          [] k = i + 7 -> x \div 2 ^ (A-o6) + m(2 ^ (A-1)) - ((x * 2 ^ o7) % 2 ^ (A-1))
          [] k = i + 8 -> m(x - 1) - x \div 2 ^ (A-1-o7) + m(2 ^ A) - x + ((x * 2 ^ (A-1)) % 2 ^ A)
          [] k = i + 9 -> m(x \div 2 - 1)
          [] OTHER     -> 0]
  IN  D!Strict([k \in 0 .. 17 |-> (w[k] + add[k]) % Word])
Odd(w, i) ==
  LET x == w[i+1] % 2 ^ (A-1)
      m(v) == And(v, NON_ZERO_TO_ALL_ONES(x))
      add == [k \in 0 .. 17 |->
        CASE k = i + 1  -> -w[i+1]
          [] k = i + 2  -> w[i+1] \div 2 ^ (A-1)
          [] k = i + 4  -> (x * 2 ^ (o3+1)) % 2 ^ A
          [] k = i + 5  -> x \div 2 ^ (A-1-o3)
          [] k = i + 7  -> (x * 2 ^ o6) % 2 ^ (A-1)
          [] k = i + 8  -> x \div 2 ^ (A-1-o6) + m(2 ^ A) - ((x * 2 ^ (o7+1)) % 2 ^ A)
          [] k = i + 9  -> m(x - 1) - x \div 2 ^ (A-1-o7) + m(2 ^ (A-1)) - x
          [] k = i + 10 -> m(x - 1)
          [] OTHER      -> 0]
  IN  D!Strict([k \in 0 .. 17 |-> (w[k] + add[k]) % Word])
Eliminate(w0) ==
  LET Half(k, w) == IF k % 2 = 1 THEN Even(w, k - 1) ELSE Odd(w, k - 2)
  IN  D!Loop(Half, w0, NLIMBS)

(* out = tmp / R mod p: the words above R have widths A-1, A, ...          *)
felem_reduce_degree(tmp) ==
  LET w == Eliminate(Spread(tmp))
  IN  Carried([i \in Limbs |->
        IF i = 8 THEN w[17]
        ELSE IF i % 2 = 0 THEN w[i + 9] + ((w[i + 10] * 2 ^ (A-1)) % 2 ^ A)
        ELSE w[i + 9] \div 2])
felem_mul(x, y) == felem_reduce_degree(D!Strict(Products(x, y)))
felem_square(x) == felem_reduce_degree(D!Strict(Squares(x)))
-----------------------------------------------------------------------------
(* felem_inv as a chain of squarings and multiplications, whatever they    *)
(* are: |in|^(p-2) for the p of P-256.  e[1], e[2], ... e[6] are in, e2,   *)
(* e4, e8, e16 and e32, each of them squared and times itself the next.    *)
Squared(x, n) ==
  LET Sixteen(k, y) == D!Loop(LAMBDA i, z : Square(z), y, 16)
  IN  D!Loop(LAMBDA i, y : Square(y), D!Loop(Sixteen, x, n \div 16), n % 16)
Runs(in) ==
  D!Loop(LAMBDA k, e : e @@ (k + 1 :> Mul(Squared(e[k], 2 ^ (k - 1)), e[k])), 1 :> in, 5)
(* ftmp2, by e16, e8, e4, e2 and in, times ftmp                            *)
InverseBy(in, e, e64) ==
  Mul(Mul(Squared(D!Loop(LAMBDA k, f : Mul(Squared(f, 2 ^ (5 - k)), e[6 - k]), Mul(e64, e[6]), 4), 2), in),
      Squared(Mul(e64, in), 192))
Ended(in, e) == InverseBy(in, e, Squared(e[6], 32))
felem_inv(in) == Ended(in, Runs(in))
-----------------------------------------------------------------------------
(* The nine limbs of R * x mod p, and back.                                *)
to_montgomery(x) ==
  LET Limb(k, y) == [f |-> y.f @@ (k - 1 :> (y.s[0] % Bottom(k - 1))),
                     s |-> D!p256_shr(y.s, Width(k - 1))]
  IN  D!Loop(Limb, [f |-> <<>>, s |-> D!p256_modmul(SECP256r1_p, x, 0, kR)], NLIMBS).f

(* top, result: the limbs from the last; only the last top is used.        *)
from_montgomery(f) ==
  LET Limb(k, r) == LET i == NLIMBS - 1 - k
                        t == D!p256_shl(r.d, Width(i))
                        a == D!p256_add_d(t.d, f[i])
                    IN [d |-> a.d, c |-> IF t.c % 2 = 1 /\ a.c = 1 THEN t.c ELSE t.c + a.c]
      last == D!Loop(Limb, D!p256_add_d(D!P256_ZERO, f[NLIMBS - 1]), NLIMBS - 1)
  IN  D!p256_modmul(SECP256r1_p, kRInv, last.c, last.d)
=============================================================================
