------------------------------ MODULE MinHash -------------------------------
(***************************************************************************)
(* The streaming half of libmincrypt/sha.c and sha256.c, which share it    *)
(* line by line: a context [count, buf, state] that is filled one byte at  *)
(* a time and transformed whenever buf is full.  The transform is free: it *)
(* appends the block to state, so that state says what was hashed.  One    *)
(* context is used again and again, as callers do: init leaves the bytes   *)
(* of the last digest in buf.                                              *)
(***************************************************************************)
EXTENDS Loops, Sequences, SequencesExt

CONSTANTS BLOCK,     \* 64
          LENBYTES,  \* 8: the length at the end of the last block
          BYTE,      \* 256, a multiple of 8
          Chunks,    \* the data update is called with
          MaxMsg     \* bound on a message


VARIABLES ctx, msg, open   \* msg: what was passed to update since init
hashVars == <<ctx, msg, open>>

Transform(c) == [c EXCEPT !.state = Append(@, [i \in 1 .. BLOCK |-> c.buf[i - 1]])]

(* HASH_init, through the table of the context's algorithm.                *)
init(c) == [c EXCEPT !.count = 0, !.state = <<>>]

update(c, data) ==
  LET Byte(k, x) ==
        LET y == [x.c EXCEPT !.buf[x.i] = data[k]]
        IN  IF x.i + 1 = BLOCK THEN [c |-> Transform(y), i |-> 0] ELSE [c |-> y, i |-> x.i + 1]
  IN  Loop(Byte, [c |-> [c EXCEPT !.count = @ + Len(data)], i |-> c.count % BLOCK], Len(data)).c

(* 0x80, zeros up to the length field, the length in bits.  The digest     *)
(* overwrites the head of buf.                                             *)
LengthByte(cnt, i) ==
  LET shifted[k \in Nat] == IF k = 0 THEN cnt ELSE shifted[k - 1] \div BYTE
  IN  shifted[LENBYTES - i] % BYTE
final(c) ==
  LET One(k, x) == update(x, <<0>>)
      first == update(c, <<BYTE \div 2>>)
      zeros == CHOOSE k \in 0 .. BLOCK - 1 : (first.count + k) % BLOCK = BLOCK - LENBYTES
      Length(k, x) == update(x, <<LengthByte(c.count * 8, k)>>)
      last == Loop(Length, Loop(One, first, zeros), LENBYTES)
  IN  [last EXCEPT !.buf = [i \in DOMAIN @ |-> IF i < BLOCK \div 2 THEN BYTE - 1 ELSE @[i]]]

(* SHA_hash and SHA256_hash: a context of their own.                       *)
hash(data) == final(update(init(ctx), data)).state
-----------------------------------------------------------------------------
HashInit ==
  /\ ctx = [count |-> 0, buf |-> [i \in 0 .. BLOCK - 1 |-> BYTE - 2], state |-> <<>>]
  /\ msg = <<>> /\ open = FALSE

HASH_init == ctx' = init(ctx) /\ msg' = <<>> /\ open' = TRUE
HASH_update(data) ==
  /\ open /\ Len(msg) + Len(data) <= MaxMsg
  /\ ctx' = update(ctx, data) /\ msg' = msg \o data
  /\ UNCHANGED open
HASH_final == open /\ ctx' = final(ctx) /\ open' = FALSE /\ UNCHANGED msg

HashNext == HASH_init \/ (\E d \in Chunks : HASH_update(d)) \/ HASH_final
-----------------------------------------------------------------------------
(* Reference: the padding of FIPS 180, on the message as a whole.          *)
Padded(m) ==
  LET zeros == CHOOSE k \in 0 .. BLOCK - 1 : (Len(m) + 1 + k + LENBYTES) % BLOCK = 0
  IN  m \o <<BYTE \div 2>> \o [i \in 1 .. zeros |-> 0]
        \o [i \in 1 .. LENBYTES |-> LengthByte(Len(m) * 8, i)]
Blocks(s) == [k \in 1 .. Len(s) \div BLOCK |-> SubSeq(s, (k - 1) * BLOCK + 1, k * BLOCK)]

(* However a message is cut into update calls, and whatever an earlier     *)
(* hash left in the buffer, final hashes exactly the padded message, and   *)
(* before final exactly the full blocks of the message were hashed.        *)
HashesTheMessage ==
  /\ open => ctx.state = Blocks(msg) /\ ctx.count = Len(msg)
  /\ ~ open /\ ctx.count > 0 => ctx.state = Blocks(Padded(msg)) /\ ctx.state = hash(msg)
=============================================================================
