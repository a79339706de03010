------------------------------ MODULE P256Int -------------------------------
(***************************************************************************)
(* libmincrypt/p256.c: integers of P256_NDIGITS digits.  An integer is a   *)
(* function from 0 .. NDIGITS-1 to digits, least significant first; digits *)
(* have Bits bits (32 in the code) and every loop that carries or borrows  *)
(* is a Ripple.  Small constants make the check exhaustive.                *)
(***************************************************************************)
EXTENDS Loops

CONSTANTS Bits,    \* P256_BITSPERDIGIT
          NDIGITS  \* P256_NDIGITS

Base == 2 ^ Bits
Idx == 0 .. NDIGITS - 1
p256_int == [Idx -> 0 .. Base - 1]
P256_ZERO == [i \in Idx |-> 0]
P256_ONE == [i \in Idx |-> IF i = 0 THEN 1 ELSE 0]

(* carry += t[i]; digit = (p256_digit)carry; carry >>= Bits: for every     *)
(* digit.  A borrow is a negative carry.                                   *)
Digit(i, d, carry) == [d |-> d @@ (i :> (carry % Base)), c |-> carry \div Base]
Ripple(t, carry) ==
  Loop(LAMBDA k, x : Digit(k - 1, x.d, x.c + t[k - 1]), [d |-> <<>>, c |-> carry], NDIGITS)

Rip(t) == Ripple(t, 0)

p256_get_bit(a, bit) == (a[bit \div Bits] \div 2 ^ (bit % Bits)) % 2
p256_is_zero(a) == \A i \in Idx : a[i] = 0
p256_is_even(a) == a[0] % 2 = 0

mulAdd(a, b, c) == Rip([i \in Idx |-> c[i] + a[i] * b])
subM(MOD, c, mask) == Rip([i \in Idx |-> c[i] - (IF mask THEN MOD[i] ELSE 0)])
addM(MOD, c, mask) == Rip([i \in Idx |-> c[i] + (IF mask THEN MOD[i] ELSE 0)])

(* -1, 0 or 1 *)
Sign(r) == IF r.c # 0 THEN r.c ELSE IF p256_is_zero(r.d) THEN 0 ELSE 1
p256_cmp(a, b) == Sign(Rip([i \in Idx |-> a[i] - b[i]]))
p256_sub(a, b) == Rip([i \in Idx |-> a[i] - b[i]])
p256_add(a, b) == Rip([i \in Idx |-> a[i] + b[i]])
p256_add_d(a, d) == Ripple(a, d)

(* in may be up to twice MOD *)
AddBack(MOD, t) == addM(MOD, t.d, t.c # 0).d
p256_mod(MOD, in) == AddBack(MOD, subM(MOD, in, TRUE))

(* Shifts by n % Bits bits; for n % Bits = 0 the code shifts a digit by    *)
(* Bits, which C leaves undefined: the callers never do.                   *)
p256_shl(a, n) ==
  [d |-> Strict([i \in Idx |-> ((a[i] * 2 ^ n) % Base)
                          + (IF i = 0 THEN 0 ELSE a[i - 1] \div 2 ^ (Bits - n))]),
   c |-> a[NDIGITS - 1] \div 2 ^ (Bits - n)]
p256_shr1(a, high) ==
  Strict([i \in Idx |-> a[i] \div 2
     + (IF i = NDIGITS - 1 THEN high ELSE a[i + 1] % 2) * 2 ^ (Bits - 1)])
p256_shr(a, n) ==
  Strict([i \in Idx |-> a[i] \div 2 ^ n
     + (IF i = NDIGITS - 1 THEN 0 ELSE (a[i + 1] % 2 ^ n) * 2 ^ (Bits - n))])
-----------------------------------------------------------------------------
(* p256_modmul.  tmp has 2*NDIGITS+1 digits; DigitsAt and Put are tmp + i. *)

DigitsAt(tmp, i) == [k \in Idx |-> tmp[i + k]]
Put(tmp, i, w) == Strict([k \in DOMAIN tmp |-> IF k - i \in Idx THEN w[k - i] ELSE tmp[k]])

(* Multiply/add into tmp, the top digit of b last.                         *)
Added(t, i, r) == [tmp |-> Put(t, i, r.d), top |-> r.c]
Product(a, topb, b) ==
  LET Row(k, x) ==
        LET i == k - 1
            t == IF i = 0 THEN x.tmp ELSE [x.tmp EXCEPT ![i + NDIGITS - 1] = x.top]
        IN  Added(t, i, mulAdd(a, IF i = NDIGITS THEN topb ELSE b[i], DigitsAt(t, i)))
  IN  Loop(Row, [tmp |-> Strict([k \in 0 .. 2 * NDIGITS |-> 0]), top |-> 0], NDIGITS + 1)

(* Mutant: without the conditional subtraction. *)
MakeTopZero_NoSub(MOD, s, i, sub, top) ==
  LET m == subM(MOD, sub.d, FALSE)
  IN  [tmp |-> Put(s.tmp, i, m.d), top |-> m.d[NDIGITS - 1], ok |-> s.ok /\ top \in {0, 1}]
(* top is now either 0 or 1; ok says that the assertions hold.             *)
MakeTopZero(MOD, s, i, sub, top) ==
  LET m == subM(MOD, sub.d, top = 1)
  IN  [tmp |-> Put(s.tmp, i, m.d), top |-> m.d[NDIGITS - 1],
       ok |-> s.ok /\ top \in {0, 1} /\ top + m.c = 0]
subTop(MOD, s, i, sub, top_a) == MakeTopZero(MOD, s, i, sub, sub.c + s.top - top_a)
(* One round of the reduction at tmp + i: the reducer is top * MOD.        *)
Reduce(MOD, s, i) ==
  LET red == mulAdd(MOD, s.top, P256_ZERO)
      w == DigitsAt(s.tmp, i)
  IN  subTop(MOD, s, i, Rip([k \in Idx |-> w[k] - red.d[k]]), red.c)

Reduced(MOD, x) == [c |-> p256_mod(MOD, DigitsAt(x.tmp, 0)), ok |-> x.ok]
(* c = a * (topb | b) mod MOD; the most significant digit of MOD must be   *)
(* all ones.                                                               *)
ModMul(MOD, a, topb, b) ==
  Reduced(MOD, Loop(LAMBDA k, x : Reduce(MOD, x, NDIGITS + 1 - k),
                    Product(a, topb, b) @@ [ok |-> TRUE], NDIGITS + 1))
p256_modmul(MOD, a, topb, b) == ModMul(MOD, a, topb, b).c
-----------------------------------------------------------------------------
(* p256_modinv_vartime: one turn of its loop on [R, S, U, V, done].        *)

(* x = x / 2 mod MOD for an odd MOD.                                       *)
Shr1(s) == p256_shr1(s.d, s.c)
Halve(MOD, a) == IF p256_is_even(a) THEN p256_shr1(a, 0) ELSE Shr1(p256_add(a, MOD))
Repaid(MOD, s) == IF s.c # 0 THEN p256_add(s.d, MOD).d ELSE s.d
SubMod(MOD, a, b) == Repaid(MOD, p256_sub(a, b))

modinv_start(MOD, a) == [R |-> P256_ZERO, S |-> P256_ONE, U |-> MOD, V |-> a, done |-> FALSE]
modinv_turn(MOD, t) ==
  IF p256_is_even(t.U)
  THEN [t EXCEPT !.U = p256_shr1(@, 0), !.R = Halve(MOD, @)]
  ELSE IF p256_is_even(t.V)
  THEN [t EXCEPT !.V = p256_shr1(@, 0), !.S = Halve(MOD, @)]
  ELSE IF p256_sub(t.V, t.U).c = 0
  THEN LET v == p256_sub(t.V, t.U).d
       IN [t EXCEPT !.V = v, !.S = SubMod(MOD, @, t.R), !.done = p256_is_zero(v)]
  ELSE [t EXCEPT !.U = p256_sub(@, t.V).d, !.R = SubMod(MOD, @, t.S)]
modinv_result(MOD, t) == p256_mod(MOD, t.R)
-----------------------------------------------------------------------------
(* A sum of 2^NBITS or more less p *)
Once(p, s) == IF s.c # 0 THEN p256_sub(s.d, p).d ELSE s.d
(* y^2 = x^3 - 3x + b mod p with 0 < x < p and 0 < y < p.                  *)
p256_is_valid_point(p, b, x, y) ==
  /\ p256_cmp(p, x) = 1 /\ p256_cmp(p, y) = 1 /\ ~ p256_is_zero(x) /\ ~ p256_is_zero(y)
  /\ LET x3 == p256_modmul(p, x, 0, p256_modmul(p, x, 0, x))
         m3 == SubMod(p, SubMod(p, SubMod(p, x3, x), x), x)
     IN  p256_cmp(p256_modmul(p, y, 0, y), Once(p, p256_add(m3, b))) = 0

(* Big-endian bytes, four to a digit; a byte has Bits / 4 bits.            *)
NBYTES == 4 * NDIGITS
p256_from_bin(src) ==
  [i \in Idx |-> LET at == 4 * (NDIGITS - 1 - i)
                     byte == 2 ^ (Bits \div 4)
                 IN src[at] * byte ^ 3 + src[at + 1] * byte ^ 2 + src[at + 2] * byte + src[at + 3]]
-----------------------------------------------------------------------------
(* Reference: the integer, and back.                                       *)
Val(a) == LET sum[i \in 0 .. NDIGITS] == IF i = 0 THEN 0 ELSE sum[i - 1] + a[i - 1] * Base ^ (i - 1)
          IN sum[NDIGITS]
Digits(v) == Strict([i \in Idx |-> (v \div Base ^ i) % Base])
=============================================================================
