----------------------------- MODULE Signatures -----------------------------
(***************************************************************************)
(* libmincrypt/rsa.c: Montgomery arithmetic on len words of WBITS bits (64 *)
(* words of 32 bits in the code) and PKCS #1 verification.  A byte has     *)
(* WBITS / 4 bits; a key is [len, n, n0inv, rr, exponent].  The arrays of  *)
(* modpow are the fields of one memory m, because modpow reuses them: a    *)
(* product written over one of its factors would be wrong.                 *)
(*                                                                         *)
(* libmincrypt/dsa_sig.c: r and s out of an ASN.1 signature.  The bytes of *)
(* sig are numbered from 0; the byte after its end has some value, because *)
(* trim_to_p256_bytes looks at it when every byte of s is 0.               *)
(***************************************************************************)
EXTENDS Loops, Sequences

CONSTANTS WBITS, RSANUMWORDS, SHA_DIGEST_SIZE, SHA256_DIGEST_SIZE, P256_NBYTES

WORD == 2 ^ WBITS
RBYTE == 2 ^ (WBITS \div 4)
RSANUMBYTES == 4 * RSANUMWORDS
Words == 0 .. RSANUMWORDS - 1

(* a[] -= mod *)
subM(key, a) ==
  LET Sub(k, x) == LET A == x.A + a[k - 1] - key.n[k - 1]
                   IN  [a |-> x.a @@ (k - 1 :> A % WORD), A |-> A \div WORD]
  IN  Loop(Sub, [a |-> <<>>, A |-> 0], key.len).a

(* a[] >= mod *)
geM(key, a) ==
  LET differ == {i \in 0 .. key.len - 1 : a[i] # key.n[i]}
  IN  \/ differ = {}
      \/ \E i \in differ : (\A j \in differ : j <= i) /\ a[i] > key.n[i]

(* montgomery c[] += a * b[] / R % mod, in double words                    *)
Double(x) == x % (WORD * WORD)
Finished(key, last) ==
  LET top == last.A \div WORD + last.B \div WORD
      res == last.c @@ (key.len - 1 :> top % WORD)
  IN  IF top >= WORD THEN subM(key, res) ELSE res
montMulAdd(key, c, a, b) ==
  LET A0 == Double(a * b[0] + c[0])
      d0 == ((A0 % WORD) * key.n0inv) % WORD
      B0 == Double(d0 * key.n[0] + (A0 % WORD))
      Step(i, x) == LET A == Double(x.A \div WORD + a * b[i] + c[i])
                        B == Double(x.B \div WORD + d0 * key.n[i] + (A % WORD))
                    IN  [c |-> x.c @@ (i - 1 :> B % WORD), A |-> A, B |-> B]
  IN  Finished(key, Loop(Step, [c |-> <<>>, A |-> A0, B |-> B0], key.len - 1))

(* m[c] = m[a] * m[b] / R % mod.  c is cleared before a and b are read.    *)
montMul(key, m, c, a, b) ==
  Loop(LAMBDA k, x : [x EXCEPT ![c] = montMulAdd(key, x[c], x[a][k - 1], x[b])],
       [m EXCEPT ![c] = [i \in Words |-> 0]], key.len)

(* Big-endian bytes to words and back.                                     *)
FromBytes(s) ==
  Strict([i \in Words |->
     LET at == 4 * (RSANUMWORDS - 1 - i)
     IN  s[at + 1] * RBYTE ^ 3 + s[at + 2] * RBYTE ^ 2 + s[at + 3] * RBYTE + s[at + 4]])
ToBytes(a) ==
  [j \in 1 .. RSANUMBYTES |->
     (a[RSANUMWORDS - 1 - (j - 1) \div 4] \div RBYTE ^ (3 - ((j - 1) % 4))) % RBYTE]

(* aaa from aR = a * R, by 16 squarings or one                             *)
Raised(key, m1) ==
  IF key.exponent = 65537
  THEN montMul(key, Loop(LAMBDA k, m : montMul(key, montMul(key, m, "aaR", "aR", "aR"), "aR", "aaR", "aaR"),
                         m1, 8), "aaR", "aR", "a")["aaR"]
  ELSE montMul(key, montMul(key, m1, "aaR", "aR", "aR"), "aR", "aaR", "a")["aR"]
AtMostOnce(key, aaa) == IF geM(key, aaa) THEN subM(key, aaa) ELSE aaa
modpow(key, inout) ==
  LET a == FromBytes(inout)
      m == [a |-> a, aR |-> a, aaR |-> a, rr |-> key.rr]
  IN  ToBytes(AtMostOnce(key, Raised(key, montMul(key, m, "aR", "a", "rr"))))
-----------------------------------------------------------------------------
(* RSA_verify.  SHA_hash and SHA256_hash are free: two inputs have the     *)
(* same digest only if they are equal; the constant digests are those of   *)
(* the paddings with zeros for the hash (module Sha).                      *)
Digest(alg, buf) == [alg |-> alg, of |-> buf]
Padding(hash_len) ==
  <<0, 1>> \o [i \in 1 .. RSANUMBYTES - hash_len - 3 |-> RBYTE - 1] \o <<0>>
ExpectedPad(hash_len) == Digest(hash_len, Padding(hash_len) \o [i \in 1 .. hash_len |-> 0])

(* buf[i] ^= *hash++ on bytes of WBITS / 4 bits: zero exactly where equal. *)
XorHash(buf, hash) ==
  LET at == Len(buf) - Len(hash)
  IN  [i \in DOMAIN buf |-> IF i <= at THEN buf[i] ELSE (buf[i] + RBYTE - hash[i - at]) % RBYTE]

RSA_verify(key, signature, hash) ==
  IF \/ key.len # RSANUMWORDS
     \/ Len(signature) # RSANUMBYTES
     \/ Len(hash) \notin {SHA_DIGEST_SIZE, SHA256_DIGEST_SIZE}
     \/ key.exponent \notin {3, 65537}
  THEN 0
  ELSE IF Digest(Len(hash), XorHash(modpow(key, signature), hash)) = ExpectedPad(Len(hash))
  THEN 1 ELSE 0
-----------------------------------------------------------------------------
(* Reference: keys, and powers of integers.                                *)
R == WORD ^ RSANUMWORDS
ToWords(v) == Strict([i \in Words |-> (v \div WORD ^ i) % WORD])
Value(a) == LET sum[i \in 0 .. RSANUMWORDS] ==
                  IF i = 0 THEN 0 ELSE sum[i - 1] + a[i - 1] * WORD ^ (i - 1)
            IN  sum[RSANUMWORDS]
Key(n, e) == [len |-> RSANUMWORDS, n |-> ToWords(n), exponent |-> e,
              n0inv |-> CHOOSE i \in 0 .. WORD - 1 : (i * n + 1) % WORD = 0,
              rr |-> ToWords(((R % n) * (R % n)) % n)]
PowMod(a, e, n) ==
  LET Times(k, x) == (x * a) % n
      Square(k, x) == (x * x) % n
  IN  IF e = 65537 THEN (Loop(Square, a % n, 16) * a) % n ELSE Loop(Times, 1 % n, e)
-----------------------------------------------------------------------------
(* The first byte of [at, at + len) that is not 0, as *src == 0 is tested  *)
(* before src_len > 0; the end when there is none.                         *)
trim_to_p256_bytes(sig, at, len) ==
  LET skip == CHOOSE k \in 0 .. len :
                /\ \A j \in 0 .. k - 1 : sig[at + j] = 0
                /\ sig[at + k] # 0 \/ k = len
      left == len - skip
  IN  IF left > P256_NBYTES \/ left < 1
      THEN [ok |-> FALSE]
      ELSE [ok |-> TRUE,
            dst |-> [i \in 1 .. P256_NBYTES |->
                       IF i <= P256_NBYTES - left THEN 0 ELSE sig[at + skip + i - 1 - (P256_NBYTES - left)]]]

Fail == [ok |-> FALSE]
(* sig has the bytes 0 .. sig_len, the last of them after the end          *)
dsa_sig_unpack(sig, sig_len) ==
  LET seq_len == sig[1]  r_len == sig[3]  s_len == sig[5 + r_len]
      r == trim_to_p256_bytes(sig, 4, r_len)
      s == trim_to_p256_bytes(sig, 6 + r_len, s_len)
  IN  IF sig_len < 8 \/ sig[0] # 48 \/ sig[2] # 2 THEN Fail
      ELSE IF seq_len <= 0 \/ seq_len + 2 # sig_len THEN Fail
      ELSE IF r_len < 1 \/ r_len > seq_len - 5 \/ sig[4 + r_len] # 2 THEN Fail
      ELSE IF s_len < 1 \/ s_len # seq_len - 4 - r_len THEN Fail
      ELSE IF ~ r.ok \/ ~ s.ok THEN Fail
      ELSE [ok |-> TRUE, r |-> r.dst, s |-> s.dst]
-----------------------------------------------------------------------------
(* Reference: the grammar the comment of dsa_sig_unpack gives.  r and s    *)
(* are not 0 and fit in P256_NBYTES bytes.                                 *)
Zeroes(k) == [i \in 1 .. k |-> 0]
Fits(int, dst) ==
  /\ \E i \in DOMAIN int : int[i] # 0
  /\ \E z \in 0 .. Len(int) : \E y \in 0 .. P256_NBYTES - 1 :
       \E body \in {SubSeq(int, z + 1, Len(int))} :
         int = Zeroes(z) \o body /\ dst = Zeroes(y) \o body
Encodes(bytes, r, s) ==
  \E rl \in 1 .. Len(bytes) - 7 :
    LET rint == SubSeq(bytes, 5, 4 + rl)
        sint == SubSeq(bytes, 7 + rl, Len(bytes))
    IN  /\ bytes = <<48, Len(bytes) - 2, 2, rl>> \o rint \o <<2, Len(sint)>> \o sint
        /\ Len(sint) >= 1 /\ Fits(rint, r) /\ Fits(sint, s)
=============================================================================
