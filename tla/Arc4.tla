-------------------------------- MODULE Arc4 --------------------------------
(***************************************************************************)
(* The stream cipher that akb_cc and the programs it makes both contain:   *)
(* stte_0, key and arc4, with N in place of 256, the compiler's cipher and *)
(* the program's side by side.  The indices survive from call to call: key *)
(* starts where arc4 has stopped.  Whether enough of a key is left then is *)
(* followed at the real size, for the calls that write_C makes.            *)
(***************************************************************************)
EXTENDS Loops, Bitwise

CONSTANTS
  N,         \* number of bytes there are, a power of 2
  Keys,      \* keys, shorter and longer than N
  Texts,     \* what is encrypted
  MaxCalls,  \* bound on the number of calls
  Mails      \* lengths of the message of option -m

Byte == 0 .. N - 1

VARIABLES
  enc, dec,   \* the cipher's state in the compiler and in the program
  plain,      \* the last text that was encrypted
  shown,      \* what the program has made of it
  agree,      \* the program has been given the compiler's keys
  calls,      \* number of calls
  wide,       \* indx of the compiler, at its real size
  mail, done, \* the length of the message; the calls write_C has made
  read        \* the bytes that the last of them has read of its key

cipherVars == <<enc, dec, plain, shown, agree, calls>>
arc4Vars == <<enc, dec, plain, shown, agree, calls, wide, mail, done, read>>
writeVars == <<wide, mail, done, read>>

stte_0 == [stte |-> Strict([i \in Byte |-> i]), indx |-> 0, jndx |-> 0, kndx |-> 0]


Exchange(s, i, j) == [s EXCEPT ![i] = s[j], ![j] = s[i]]

(* One turn of the do loop, with len bytes of the key from position at on. *)
Turn(c, str, at, len) ==
  LET k == (c.kndx + c.stte[c.indx] + str[at + (c.indx % len) + 1]) % N
  IN  [c EXCEPT !.stte = Exchange(@, c.indx, k), !.kndx = k, !.indx = (@ + 1) % N]

(* The turns until indx is 0 again.                                        *)
KeyBlock(c, str, at, len) ==
  LET Step(i, x) == Turn(x, str, at, len) IN Loop(Step, c, N - c.indx)

key(c, str) ==
  LET Block(i, x) == KeyBlock(x, str, (i - 1) * N, Len(str) - (i - 1) * N)
  IN  Loop(Block, c, (Len(str) + N - 1) \div N)


Combine(b, k) == b ^^ k

(* A cipher and what it has put out.                                       *)
Crypt(c, b) ==
  LET i == (c.indx + 1) % N
      j == (c.jndx + c.stte[i]) % N
      s == Exchange(c.stte, i, j)
      t == (c.stte[i] + s[i]) % N
  IN  [c |-> [c EXCEPT !.stte = s, !.indx = i, !.jndx = j], out |-> Combine(b, s[t])]

arc4(c, str) ==
  LET Step(i, x) == LET y == Crypt(x.c, str[i]) IN [c |-> y.c, out |-> Append(x.out, y.out)]
  IN  Loop(Step, [c |-> c, out |-> <<>>], Len(str))

-----------------------------------------------------------------------------
(* The calls of write_C up to key_with_file, with the lengths of what they *)
(* are given: a text with its 0, and struct stat.                          *)
Call(f, len) == [f |-> f, len |-> len]
Lengths ==
  <<Call("key", 256), Call("arc4", 14 + mail), Call("arc4", 1), Call("arc4", 8),
    Call("arc4", 3), Call("arc4", 15), Call("arc4", 1), Call("arc4", 22), Call("key", 22),
    Call("arc4", 22), Call("arc4", 19), Call("arc4", 1), Call("stat", 144)>>

(* The bytes of a key that are read when indx starts at i.                 *)
ReadFrom(i, len) == {j % len : j \in i .. 255}

Init ==
  /\ enc = stte_0 /\ dec = stte_0 /\ plain = <<>> /\ shown = <<>> /\ agree = TRUE /\ calls = 0
  /\ wide = 0 /\ mail = 0 /\ done = 0 /\ read = {}

Key(k, l) ==
  /\ done = 0 /\ calls < MaxCalls /\ agree
  /\ enc' = key(enc, k) /\ dec' = key(dec, l)
  /\ agree' = (k = l) /\ calls' = calls + 1
  /\ plain' = <<>> /\ shown' = <<>>
  /\ UNCHANGED writeVars

Transfer(x) ==
  /\ done = 0 /\ calls < MaxCalls
  /\ LET e == arc4(enc, x)
         d == arc4(dec, e.out)
     IN  enc' = e.c /\ dec' = d.c /\ shown' = d.out
  /\ plain' = x /\ calls' = calls + 1
  /\ UNCHANGED <<agree, wide, mail, done, read>>

(* Mutant: a key leaves indx behind the bytes that it has used.            *)
After_Length(c) == (wide + c.len) % 256

(* Where a call leaves indx.                                               *)
After(c) == IF c.f = "arc4" THEN (wide + c.len) % 256 ELSE 0

Write(m) ==
  /\ calls = 0 /\ done < Len(Lengths) /\ (done = 0 \/ m = mail)
  /\ mail' = m /\ done' = done + 1
  /\ LET c == Lengths'[done']
     IN  /\ wide' = After(c)
         /\ read' = IF c.f = "arc4" THEN {} ELSE ReadFrom(wide, c.len)
  /\ UNCHANGED cipherVars

Next ==
  \/ \E k \in Keys : Key(k, k)
  \/ \E k, l \in Keys : k # l /\ Key(k, l)
  \/ \E x \in Texts : Transfer(x)
  \/ \E m \in Mails : Write(m)

-----------------------------------------------------------------------------
(* The state remains a permutation whatever is encrypted between which     *)
(* keys: no byte of the stream gets lost for ever.                         *)
StatePermutes ==
  \A c \in {enc, dec} : {c.stte[i] : i \in Byte} = Byte /\ {c.indx, c.jndx, c.kndx} \subseteq Byte

(* arc4 undoes itself: a program with the compiler's keys decrypts every   *)
(* text that was encrypted, after whatever calls came before.              *)
DecryptsAll == agree => shown = plain

(* key starts at the index that arc4 has left and may skip the rest of a   *)
(* key.  The lengths of the texts in write_C are such that key_with_file   *)
(* reads all of struct stat, whatever the message of -m.                   *)
ShellKeyIsWhole == done = Len(Lengths) => read = 0 .. 143
=============================================================================
