---------------------------- MODULE MCLibmincrypt ---------------------------
(***************************************************************************)
(* libmincrypt for TLC.  A behaviour is one of                             *)
(*  - "curve": calls of ECDSA on a small curve, and of the arithmetic      *)
(*    below it: p256.c on all integers of three two-bit digits, and the    *)
(*    limbs of p256_ec.c with thirteen-bit limbs on the extreme elements;  *)
(*  - "hash" and "sha": the hashes as state machines;                      *)
(*  - "call": functions of rsa.c and dsa_sig.c with small arguments.       *)
(***************************************************************************)
EXTENDS P256Ecdsa, Sequences, FiniteSetsExt, SequencesExt

VARIABLES part, fn, arg, res,
          ctx, msg, open, case, shaPc, block, W, round, reg, state
callVars == <<fn, arg, res>>
hashing == <<ctx, msg, open>>
shaVars == <<case, shaPc, block, W, round, reg, state>>

(* ECDSA: G generates the group of order n, and the keys are G, -G, a      *)
(* multiple of it, a point with x = 0, a pair off the curve, and a point   *)
(* for which p256_is_valid_point leaves a sum above p.                     *)
BasePoint == <<204, 152>>
SomeKeys == {BasePoint, <<204, 59>>, MultiplesOfG[77], <<0, 65>>, <<3, 4>>, <<199, 1>>}
SomeRs == (0 .. 2) \cup (n - 1 .. p + 2) \cup {13 * i : i \in 0 .. 14} \cup {43}

Zeroed(s) == [i \in 0 .. Len(s) - 1 |-> s[i + 1]]
I == INSTANCE P256Int WITH Bits <- 2, NDIGITS <- 3
Mods == {I!Digits(m) : m \in {49, 61, 63}}
Some == {I!Digits(m) : m \in {0, 1, 2, 15, 16, 31, 32, 48, 49, 60, 62, 63}}

(* p = 2^112 - 2^96 + 2^82 + 2^42 - 1 in digits of 14 bits.                *)
P14 == Zeroed(<<16383, 16383, 16383, 0, 0, 4096, 12288, 16383>>)
R14 == Zeroed(<<2, 0, 0, 16382, 16383, 8191, 8191, 0>>)
RInv14 == Zeroed(<<12288, 12288, 16383, 2560, 13312, 12799, 12288, 8191>>)
D14 == INSTANCE P256Int WITH Bits <- 14, NDIGITS <- 8
D256 == INSTANCE P256Int WITH Bits <- 8, NDIGITS <- 32
(* felem_inv is followed on the exponents of its argument.                 *)
Doubled(e) == D256!p256_add(e, e).d
Added256(d, e) == D256!p256_add(d, e).d
F == INSTANCE P256Field WITH A <- 13, o3 <- 4, o6 <- 7, o7 <- 8, Bits <- 14, NDIGITS <- 8,
                             SECP256r1_p <- P14, kR <- R14, kRInv <- RInv14,
                             Square <- Doubled, Mul <- Added256

(* The constants of the code in bytes.                                     *)
Bytes(words) == [i \in 0 .. 31 |-> words[1 + i \div 4][1 + (i % 4)]]
W0 == <<0, 0, 0, 0>>
W1 == <<1, 0, 0, 0>>
Ones(low) == <<low, 255, 255, 255>>
P256 == Bytes(<<Ones(255), Ones(255), Ones(255), W0, W0, W0, W1, Ones(255)>>)
R256 == Bytes(<<<<2, 0, 0, 0>>, W0, W0, Ones(254), Ones(255), Ones(255), Ones(253), W1>>)
RInv256 == Bytes(<<<<0, 0, 0, 128>>, W1, Ones(255), W0, <<1, 0, 0, 128>>, Ones(254), W1, <<255, 255, 255, 127>>>>)

(* Elements at the bounds the comments state, limb 8 at the bound that all *)
(* operations keep, and the multiples of p.                                *)
Extreme(S0) ==
  [i \in 0 .. 8 |-> IF i \in S0 THEN (IF i % 2 = 0 /\ i # 8 THEN 2 ^ 14 ELSE 2 ^ 13) - 1 ELSE 0]
Elements == {Extreme(S0) : S0 \in {{}, {0}, {8}, {0, 2, 4, 6, 8}, {1, 3, 5, 7}, {0, 3, 6}, 0 .. 8, 4 .. 7}}
              \cup {F!kP, F!k2P, F!kOne}
(* An element is read back after a multiplication, as point_to_affine does:  *)
(* from_montgomery loses a carry for values of 2^257 and a little more.    *)
Read(x) == F!from_montgomery(F!felem_mul(x, F!kOne))
Value == [x \in Elements |-> Read(x)]
Ops == {"sum", "diff", "mul", "square", "3", "4", "8", "to"}
Apply(op, x, y) ==
  CASE op = "sum" -> F!felem_sum(x, y)
    [] op = "diff" -> F!felem_diff(x, y)
    [] op = "mul" -> F!felem_mul(x, y)
    [] op = "square" -> F!felem_square(x)
    [] op = "3" -> F!felem_scalar_3(x)
    [] op = "4" -> F!felem_scalar_4(x)
    [] op = "8" -> F!felem_scalar_8(x)
    [] op = "to" -> F!to_montgomery(Value[x])
Small(k) == [D14!P256_ZERO EXCEPT ![0] = k]
Expected(op, a, c) ==
  CASE op = "sum" -> LET s == D14!p256_add(a, c)
                     IN IF s.c = 1 THEN D14!p256_sub(s.d, P14).d ELSE D14!p256_mod(P14, s.d)
    [] op = "diff" -> D14!SubMod(P14, a, c)
    [] op = "mul" -> D14!p256_modmul(P14, a, 0, c)
    [] op = "square" -> D14!p256_modmul(P14, a, 0, a)
    [] op = "3" -> D14!p256_modmul(P14, a, 0, Small(3))
    [] op = "4" -> D14!p256_modmul(P14, a, 0, Small(4))
    [] op = "8" -> D14!p256_modmul(P14, a, 0, Small(8))
    [] op = "to" -> a

SomeChunks == {<<>>, <<1>>, <<2>>, <<1, 0>>, <<3, 1, 2, 1, 0>>}
H == INSTANCE MinHash WITH BLOCK <- 4, LENBYTES <- 2, BYTE <- 8, Chunks <- SomeChunks, MaxMsg <- 8
Sh == INSTANCE Sha WITH pc <- shaPc, t <- round, ShaMessages <- {"abc1", "abc256", "pad1", "pad256"}
Sig == INSTANCE Signatures WITH
  WBITS <- 4, RSANUMWORDS <- 2, SHA_DIGEST_SIZE <- 2, SHA256_DIGEST_SIZE <- 3, P256_NBYTES <- 2
-----------------------------------------------------------------------------
Call(f, a, r) == fn' = f /\ arg' = a /\ res' = r

ModMulCall ==
  \E M \in Mods, a \in I!p256_int, c \in Some, top \in {0, 3} :
    Call("modmul", <<M, a, top, c>>, I!ModMul(M, a, top, c))
IntCall ==
  \E a \in I!p256_int, c \in Some :
    Call("int", <<a, c>>,
                 [cmp |-> I!p256_cmp(a, c), sub |-> I!p256_sub(a, c), add |-> I!p256_add(a, c),
                  add_d |-> I!p256_add_d(a, c[0]), shl |-> I!p256_shl(a, 1), shr |-> I!p256_shr(a, 1),
                  mod |-> I!p256_mod(I!Digits(61), a), bit |-> I!p256_get_bit(a, I!Val(c) % 6),
                  bin |-> I!Val(a)])
FieldCall ==
  \E op \in Ops, x \in Elements, y \in Elements :
       /\ op \notin {"sum", "diff", "mul"} => y = x
       /\ Call("felem", <<op, x, y>>, Apply(op, x, y))
FieldValue ==
  /\ fn = "felem"
  /\ Call("value", arg, [f |-> res, v |-> IF arg[1] \in {"mul", "square", "to"}
                                          THEN F!from_montgomery(res) ELSE Read(res)])
InvCall == Call("inv", <<>>, F!felem_inv(D256!P256_ONE))

(* Every odd modulus and every signature of two words.                     *)
RsaR == Sig!R
Odd(from) == {m \in from .. RsaR - 1 : m % 2 = 1}
ModpowCall ==
  \E m \in Odd(RsaR \div 2) \cup {3, 5, 77} :
    \E a \in {0, 1, 2, m - 1, m, RsaR - 1, 33, 100, 150, 201} : \E e \in {3, 65537} :
      LET out == Sig!modpow(Sig!Key(m, e), Sig!ToBytes(Sig!ToWords(a)))
      IN  Call("modpow", [n |-> m, a |-> a, e |-> e], [power |-> Sig!Value(Sig!FromBytes(out))])

Hashes == {<<0, 1>>, <<1, 1>>, <<1, 0, 1>>, <<1>>}
VerifyCall ==
  \E m \in {143, 187, 253} : \E e \in {3, 65537, 5} : \E a \in 0 .. RsaR - 1 : \E h \in Hashes :
    \E cut \in {0, 1} : \E len \in {1, 2} :
      LET sig == SubSeq(Sig!ToBytes(Sig!ToWords(a)), 1 + cut, Sig!RSANUMBYTES)
      IN  /\ (cut = 1 \/ len = 1) => a = 7
          /\ Call("verify", [n |-> m, e |-> e, a |-> a, hash |-> h, whole |-> cut = 0 /\ len = 2],
                  [accepted |-> Sig!RSA_verify([Sig!Key(m, e) EXCEPT !.len = len], sig, h)])

(* Headers that are right or just wrong, before any body.                  *)
UnpackCall ==
  \E len \in 7 .. 10 : \E h0 \in {48, 49} : \E h1 \in {0, len - 3, len - 2} : \E h2 \in {2, 3} :
    \E h3 \in 0 .. 4 : \E body \in [1 .. len - 4 -> {0, 1, 2, 4}] : \E past \in {0, 2} :
      /\ (h0 # 48 \/ h1 # len - 2 \/ h2 # 2) => (\A i \in DOMAIN body : body[i] \in {1, 2})
      /\ LET bytes == <<h0, h1, h2, h3>> \o body
             sig == [i \in 0 .. len |-> IF i = len THEN past ELSE bytes[i + 1]]
         IN  Call("unpack", [bytes |-> bytes], Sig!dsa_sig_unpack(sig, len))

Init ==
  /\ part \in {"curve", "hash", "sha", "call"}
  /\ EcdsaInit /\ H!HashInit /\ Sh!ShaInit
  /\ part # "sha" => case = "abc1"
  /\ fn = "none" /\ arg = <<>> /\ res = <<>>

CurveTurn == part = "curve" /\ fn = "none" /\ Turn /\ UNCHANGED <<part, callVars, hashing, shaVars>>
Next ==
  /\ \/ /\ part = "curve" /\ fn = "none" /\ EcdsaNext
        /\ UNCHANGED <<callVars, hashing, shaVars>>
     \/ /\ part = "curve" /\ pc = "idle"
        /\ \/ fn = "none" /\ (ModMulCall \/ IntCall \/ FieldCall \/ InvCall)
           \/ FieldValue
        /\ UNCHANGED <<ecdsaVars, hashing, shaVars>>
     \/ part = "hash" /\ H!HashNext /\ UNCHANGED <<ecdsaVars, callVars, shaVars>>
     \/ part = "sha" /\ Sh!ShaNext /\ UNCHANGED <<ecdsaVars, callVars, hashing>>
     \/ /\ part = "call" /\ fn = "none" /\ (ModpowCall \/ VerifyCall \/ UnpackCall)
        /\ UNCHANGED <<ecdsaVars, hashing, shaVars>>
  /\ UNCHANGED part
vars == <<part, ecdsaVars, callVars, hashing, shaVars>>
Spec == Init /\ [][Next]_vars /\ WF_vars(CurveTurn)
-----------------------------------------------------------------------------
(* p256_modmul is a * (top_b | b) mod MOD for unreduced a and b as well,   *)
(* and none of its assertions fails (p256.c:142-190): the guess of a       *)
(* reducer from the top digit alone is never more than one MOD off.        *)
ModMulIsExact ==
  fn = "modmul" =>
    /\ res.ok
    /\ I!Val(res.c) = (I!Val(arg[2]) * (arg[3] * I!Base ^ 3 + I!Val(arg[4]))) % I!Val(arg[1])

(* Comparison, sum, difference, shifts and one subtraction for mod are     *)
(* those of the integers, carries and borrows included (p256.c:194-336).   *)
DigitsAreExact ==
  fn = "int" =>
    LET a == I!Val(arg[1])
        c == I!Val(arg[2])
        top == I!Base ^ 3
    IN  /\ res.cmp = (IF a < c THEN -1 ELSE IF a = c THEN 0 ELSE 1)
        /\ I!Val(res.sub.d) + res.sub.c * top = a - c
        /\ I!Val(res.add.d) + res.add.c * top = a + c
        /\ I!Val(res.add_d.d) + res.add_d.c * top = a + arg[2][0]
        /\ I!Val(res.shl.d) + res.shl.c * top = 2 * a
        /\ I!Val(res.shr) = a \div 2
        /\ I!Val(res.mod) = a % 61
        /\ res.bit = (a \div 2 ^ (c % 6)) % 2

(* The two arithmetics of the library agree: an operation on limbs in      *)
(* Montgomery form, read back, is the operation of p256.c on the values,   *)
(* and its result keeps the bounds the next operation asks for             *)
(* (p256_ec.c:192-757, 1171-1221).                                         *)
LimbsAgreeWithDigits ==
  fn = "value" =>
    /\ res.v = Expected(arg[1], Value[arg[2]], Value[arg[3]])
    /\ res.f[8] < 2 ^ 13
    /\ \A i \in 0 .. 7 : res.f[i] < (IF i % 2 = 0 THEN 2 ^ 14 ELSE 2 ^ 13)

(* felem_is_zero_vartime sees every representation of 0, on which the      *)
(* doubling of equal points depends (p256_ec.c:759-792, 946-954).          *)
ZeroIsSeen ==
  fn = "value" => (F!felem_is_zero_vartime(res.f) <=> D14!p256_is_zero(res.v))

(* felem_inv's chain of 255 squarings raises to p - 2, and kRInv is the    *)
(* inverse of kR = 2^257, for the p of the code (p256_ec.c:602-668, 1171). *)
InverseByFermat ==
  fn = "inv" =>
    /\ res = D256!p256_sub(P256, [D256!P256_ZERO EXCEPT ![0] = 2]).d
    /\ D256!p256_modmul(P256, D256!P256_ONE, 2, D256!P256_ZERO) = D256!p256_mod(P256, R256)
    /\ D256!p256_modmul(P256, R256, 0, RInv256) = D256!P256_ONE

(* modpow returns a^e mod n, fully reduced, for every signature below R    *)
(* when n has its top bit, as a key of RSANUMWORDS words has; for a        *)
(* shorter modulus (n < R / 2) when the signature is below n.  This is the *)
(* comment "aaa is at most 1x mod too large" and that no product is        *)
(* written over its own factor.                                            *)
ModpowIsExact ==
  fn = "modpow" =>
    /\ res.power % arg.n = Sig!PowMod(arg.a, arg.e, arg.n)
    /\ arg.n >= RsaR \div 2 \/ arg.a < arg.n => res.power < arg.n

(* RSA_verify accepts exactly when the key has the expected length, the    *)
(* exponent and the digest are supported and signature^e mod n is the      *)
(* padding followed by the hash.                                           *)
VerifiesExactly ==
  fn = "verify" =>
    (res.accepted = 1 <=>
       /\ arg.whole /\ arg.e \in {3, 65537} /\ Len(arg.hash) \in {2, 3}
       /\ Sig!ToBytes(Sig!ToWords(Sig!PowMod(arg.a, arg.e, arg.n)))
            = Sig!Padding(Len(arg.hash)) \o arg.hash)

(* dsa_sig_unpack accepts exactly the encodings its comment describes,     *)
(* with r and s as encoded, whatever byte follows the signature.           *)
UnpackIsExact ==
  fn = "unpack" =>
    IF res.ok THEN Sig!Encodes(arg.bytes, res.r, res.s)
    ELSE ~ \E r, s \in [1 .. 2 -> {0, 1, 2, 4}] : Sig!Encodes(arg.bytes, r, s)

(* The arithmetic of libmincrypt is that of the integers: the digits and   *)
(* limbs of P-256 (p256.c, p256_ec.c) and the Montgomery powers of rsa.c,  *)
(* at the edges of every carry.                                            *)
ArithmeticIsExact ==
  /\ ModMulIsExact /\ DigitsAreExact /\ LimbsAgreeWithDigits /\ ZeroIsSeen /\ InverseByFermat
  /\ ModpowIsExact

(* A signature is accepted exactly when it is one: p256_ecdsa_verify with  *)
(* its points and its inverse, RSA_verify, the DER of dsa_sig.c, and the   *)
(* hashes they are computed from, in whatever pieces the message comes.    *)
SignaturesAreExact ==
  /\ AcceptsExactlySignatures /\ PointIsTheSum /\ InverseLoop
  /\ H!HashesTheMessage /\ Sh!DigestsAreTheConstants /\ VerifiesExactly /\ UnpackIsExact
=============================================================================
