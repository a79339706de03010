-------------------------------- MODULE Sha ---------------------------------
(***************************************************************************)
(* The transforms of libmincrypt/sha.c and sha256.c, at their real size: a *)
(* 32-bit word is the set of its bits, so that ^, & and ror are set        *)
(* operators.  One action is one turn of a loop of the transform.  The     *)
(* messages are rsa.c's two paddings, whose digests rsa.c has as           *)
(* constants, and "abc".                                                   *)
(***************************************************************************)
EXTENDS Loops, Sequences, FiniteSetsExt

CONSTANT ShaMessages   \* names of Cases

VARIABLES case, pc, block, W, t, reg, state
shaVars == <<case, pc, block, W, t, reg, state>>

Word == 0 .. 31
W32(hl) == {i \in Word : (hl[IF i < 16 THEN 2 ELSE 1] \div 2 ^ (i % 16)) % 2 = 1}
Half(x, k) == MapThenSumSet(LAMBDA i : 2 ^ (i % 16), {i \in x : i \div 16 = k})
HalfSum(ws, k) == MapThenSumSet(LAMBDA j : Half(ws[j], k), DOMAIN ws)
Add(ws) == LET lo == HalfSum(ws, 0)
               hi == HalfSum(ws, 1) + lo \div 2 ^ 16
           IN  W32(<<hi % 2 ^ 16, lo % 2 ^ 16>>)

xor(x, y) == (x \ y) \cup (y \ x)
ror(x, n) == {(i - n) % 32 : i \in x}
rol(n, x) == ror(x, 32 - n)
shr(x, n) == {i - n : i \in {j \in x : j >= n}}

(* The first 16 words of W are the block, big-endian.                      *)
Load(bytes) == [k \in 0 .. 15 |-> W32(<<bytes[4 * k + 1] * 256 + bytes[4 * k + 2],
                                        bytes[4 * k + 3] * 256 + bytes[4 * k + 4]>>)]
-----------------------------------------------------------------------------
H1 == <<<<\h6745,\h2301>>, <<\hEFCD,\hAB89>>, <<\h98BA,\hDCFE>>, <<\h1032,\h5476>>, <<\hC3D2,\hE1F0>>>>
Schedule1(w, k) == rol(1, xor(xor(w[k - 3], w[k - 8]), xor(w[k - 14], w[k - 16])))
Round1(r, w, k) ==
  LET c == r[3]  d == r[4]
      f == CASE k < 20 -> <<xor(d, r[2] \cap xor(c, d)), W32(<<\h5A82,\h7999>>)>>
             [] k \in 20 .. 39 -> <<xor(r[2], xor(c, d)), W32(<<\h6ED9,\hEBA1>>)>>
             [] k \in 40 .. 59 -> <<(r[2] \cap c) \cup (d \cap (r[2] \cup c)), W32(<<\h8F1B,\hBCDC>>)>>
             [] OTHER -> <<xor(r[2], xor(c, d)), W32(<<\hCA62,\hC1D6>>)>>
  IN  <<Add(<<rol(5, r[1]), r[5], w[k]>> \o f), r[1], rol(30, r[2]), c, d>>
-----------------------------------------------------------------------------
H256 == <<<<\h6a09,\he667>>, <<\hbb67,\hae85>>, <<\h3c6e,\hf372>>, <<\ha54f,\hf53a>>,
          <<\h510e,\h527f>>, <<\h9b05,\h688c>>, <<\h1f83,\hd9ab>>, <<\h5be0,\hcd19>>>>
K == <<
  <<\h428a,\h2f98>>, <<\h7137,\h4491>>, <<\hb5c0,\hfbcf>>, <<\he9b5,\hdba5>>,
  <<\h3956,\hc25b>>, <<\h59f1,\h11f1>>, <<\h923f,\h82a4>>, <<\hab1c,\h5ed5>>,
  <<\hd807,\haa98>>, <<\h1283,\h5b01>>, <<\h2431,\h85be>>, <<\h550c,\h7dc3>>,
  <<\h72be,\h5d74>>, <<\h80de,\hb1fe>>, <<\h9bdc,\h06a7>>, <<\hc19b,\hf174>>,
  <<\he49b,\h69c1>>, <<\hefbe,\h4786>>, <<\h0fc1,\h9dc6>>, <<\h240c,\ha1cc>>,
  <<\h2de9,\h2c6f>>, <<\h4a74,\h84aa>>, <<\h5cb0,\ha9dc>>, <<\h76f9,\h88da>>,
  <<\h983e,\h5152>>, <<\ha831,\hc66d>>, <<\hb003,\h27c8>>, <<\hbf59,\h7fc7>>,
  <<\hc6e0,\h0bf3>>, <<\hd5a7,\h9147>>, <<\h06ca,\h6351>>, <<\h1429,\h2967>>,
  <<\h27b7,\h0a85>>, <<\h2e1b,\h2138>>, <<\h4d2c,\h6dfc>>, <<\h5338,\h0d13>>,
  <<\h650a,\h7354>>, <<\h766a,\h0abb>>, <<\h81c2,\hc92e>>, <<\h9272,\h2c85>>,
  <<\ha2bf,\he8a1>>, <<\ha81a,\h664b>>, <<\hc24b,\h8b70>>, <<\hc76c,\h51a3>>,
  <<\hd192,\he819>>, <<\hd699,\h0624>>, <<\hf40e,\h3585>>, <<\h106a,\ha070>>,
  <<\h19a4,\hc116>>, <<\h1e37,\h6c08>>, <<\h2748,\h774c>>, <<\h34b0,\hbcb5>>,
  <<\h391c,\h0cb3>>, <<\h4ed8,\haa4a>>, <<\h5b9c,\hca4f>>, <<\h682e,\h6ff3>>,
  <<\h748f,\h82ee>>, <<\h78a5,\h636f>>, <<\h84c8,\h7814>>, <<\h8cc7,\h0208>>,
  <<\h90be,\hfffa>>, <<\ha450,\h6ceb>>, <<\hbef9,\ha3f7>>, <<\hc671,\h78f2>>>>
Schedule256(w, k) ==
  LET s0 == xor(xor(ror(w[k - 15], 7), ror(w[k - 15], 18)), shr(w[k - 15], 3))
      s1 == xor(xor(ror(w[k - 2], 17), ror(w[k - 2], 19)), shr(w[k - 2], 10))
  IN  Add(<<w[k - 16], s0, w[k - 7], s1>>)
Round256(r, w, k) ==
  LET a == r[1]  c == r[3]  e == r[5]  f == r[6]  g == r[7]
      s0 == xor(xor(ror(a, 2), ror(a, 13)), ror(a, 22))
      maj == xor(xor(a \cap r[2], a \cap c), r[2] \cap c)
      s1 == xor(xor(ror(e, 6), ror(e, 11)), ror(e, 25))
      ch == xor(e \cap f, (Word \ e) \cap g)
      t1 == Add(<<r[8], s1, ch, W32(K[k + 1]), w[k]>>)
  IN  <<Add(<<t1, s0, maj>>), a, r[2], c, Add(<<r[4], t1>>), e, f, g>>
-----------------------------------------------------------------------------
(* What is hashed: the padding of rsa.c with zeros for the hash.           *)
Abc == <<97, 98, 99>>
FFs(k) == [i \in 1 .. k |-> 255]
Zeros(k) == [i \in 1 .. k |-> 0]
sha_padding == <<0, 1>> \o FFs(218) \o
  <<0, \h30, \h21, \h30, 9, 6, 5, \h2b, \h0e, 3, 2, \h1a, 5, 0, 4, \h14>> \o Zeros(20)
sha256_padding == <<0, 1>> \o FFs(202) \o
  <<0, \h30, \h31, \h30, \h0d, 6, 9, \h60, \h86, \h48, 1, \h65, 3, 4, 2, 1, 5, 0, 4, \h20>>
  \o Zeros(32)
kExpectedPadShaRsa2048 == <<<<\hdcbd,\hbe42>>, <<\hd5f5,\ha72e>>, <<\h6efc,\hf55d>>, <<\haf9d,\hea68>>,
      <<\h7cfb,\hf167>>>>
kExpectedPadSha256Rsa2048 == <<<<\hab28,\h8d8a>>, <<\hd7d9,\h5992>>, <<\hbacc,\hf867>>, <<\h20e1,\h152e>>,
      <<\h398d,\h8036>>, <<\hd66f,\hf0fd>>, <<\h90e8,\h7d8b>>, <<\he17c,\h8759>>>>
Abc1 == <<<<\ha999,\h3e36>>, <<\h4706,\h816a>>, <<\hba3e,\h2571>>, <<\h7850,\hc26c>>,
      <<\h9cd0,\hd89d>>>>
Abc256 == <<<<\hba78,\h16bf>>, <<\h8f01,\hcfea>>, <<\h4141,\h40de>>, <<\h5dae,\h2223>>,
      <<\hb003,\h61a3>>, <<\h9617,\h7a9c>>, <<\hb410,\hff61>>, <<\hf200,\h15ad>>>>
Cases == [abc1 |-> [alg |-> 1, in |-> Abc, out |-> Abc1],
          abc256 |-> [alg |-> 256, in |-> Abc, out |-> Abc256],
          pad1 |-> [alg |-> 1, in |-> sha_padding, out |-> kExpectedPadShaRsa2048],
          pad256 |-> [alg |-> 256, in |-> sha256_padding, out |-> kExpectedPadSha256Rsa2048]]

M == INSTANCE MinHash WITH BLOCK <- 64, LENBYTES <- 8, BYTE <- 256, Chunks <- {}, MaxMsg <- 0,
       ctx <- 0, msg <- 0, open <- FALSE

Hashed == M!Blocks(M!Padded(Cases[case].in))
Is1 == Cases[case].alg = 1
NumRounds == IF Is1 THEN 80 ELSE 64

ShaInit ==
  /\ case \in ShaMessages /\ pc = "load" /\ block = 1
  /\ W = <<>> /\ t = 0 /\ reg = <<>>
  /\ state = [i \in DOMAIN (IF Is1 THEN H1 ELSE H256) |-> W32(IF Is1 THEN H1[i] ELSE H256[i])]

LoadBlock ==
  /\ pc = "load" /\ block <= Len(Hashed)
  /\ W' = Load(Hashed[block]) /\ t' = 16 /\ pc' = "expand"
  /\ UNCHANGED <<case, block, reg, state>>

Expand ==
  /\ pc = "expand"
  /\ \/ /\ t < NumRounds
        /\ W' = W @@ (t :> IF Is1 THEN Schedule1(W, t) ELSE Schedule256(W, t))
        /\ t' = t + 1 /\ UNCHANGED <<pc, reg>>
     \/ /\ t = NumRounds /\ t' = 0 /\ reg' = state /\ pc' = "round" /\ UNCHANGED W
  /\ UNCHANGED <<case, block, state>>

Round ==
  /\ pc = "round"
  /\ \/ /\ t < NumRounds
        /\ reg' = IF Is1 THEN Round1(reg, W, t) ELSE Round256(reg, W, t)
        /\ t' = t + 1 /\ UNCHANGED <<pc, block, state>>
     \/ /\ t = NumRounds /\ t' = 0 /\ pc' = "load" /\ block' = block + 1
        /\ state' = [i \in DOMAIN state |-> Add(<<state[i], reg[i]>>)]
        /\ UNCHANGED reg
  /\ UNCHANGED <<case, W>>

ShaNext == LoadBlock \/ Expand \/ Round
-----------------------------------------------------------------------------
(* The digest of rsa.c's documented padding is the constant that           *)
(* RSA_verify compares with (the code never hashes the padding itself),    *)
(* and "abc" has its published digests.                                    *)
DigestsAreTheConstants ==
  pc = "load" /\ block > Len(Hashed) =>
    state = [i \in DOMAIN state |-> W32(Cases[case].out[i])]
=============================================================================
