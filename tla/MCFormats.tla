------------------------------ MODULE MCFormats -----------------------------
(***************************************************************************)
(* What one program writes as bytes and another one reads: the texts that  *)
(* a compiled script decrypts, records of the log, flattened objects, and  *)
(* strings with and without a length, one of them per behaviour.           *)
(***************************************************************************)
EXTENDS Integers, Sequences

VARIABLES part,
          enc, dec, plain, shown, agree, calls, wide, mail, done, read,
          logged, log_msg, stamped,
          flatPc, object, sent, got, status,
          mString8, mString16
arc4Vars == <<enc, dec, plain, shown, agree, calls, wide, mail, done, read>>
logVars == <<logged, log_msg, stamped>>
flatVars == <<flatPc, object, sent, got, status>>
stringVars == <<mString8, mString16>>

(* Four bytes in place of 256, keys shorter and longer than that; all      *)
(* lengths of a message that differ modulo 256.                            *)
Rc4 == INSTANCE Arc4 WITH
  N <- 4, Keys <- {<<1>>, <<3, 0>>, <<2, 2, 1, 0, 3>>}, Texts <- {<<0>>, <<1, 2, 3>>},
  MaxCalls <- 4, Mails <- 0 .. 255

(* A byte has 8 values, a second 1000 nanoseconds; 2048 is the sign bit of *)
(* a word.                                                                 *)
Log == INSTANCE LogEntries WITH
  R <- 8, NS_PER_SEC <- 1000, MaxPayload <- 3, MaxLen <- 32, Secs <- {0, 1, 2048, 4095},
  Nsecs <- {0, 999}, Ids <- {0, 7}, Payloads <- {<<>>, <<1, 2, 3>>}

Flt == INSTANCE Flattenables WITH
  Align <- 4, Parts <- {1, 3, 4, 6}, MaxParts <- 2, Fds <- {0, 2}, Bases <- {0, 8},
  Sizes <- {0, 3, 7, 8, 12, 16, 20}, SizeMax <- 1024

Str == INSTANCE Strings WITH Units <- 0 .. 2, Variables <- {"v", "w"}, MaxSize <- 2

Init ==
  /\ part \in {"cipher", "log", "flat", "string"}
  /\ Rc4!Init /\ Log!Init /\ Flt!Init /\ Str!Init
  /\ part # "flat" => object.parts = <<>> /\ object.fds = 0 /\ sent = Flt!Memory(0, 0, 0)

Cipher == part = "cipher" /\ Rc4!Next /\ UNCHANGED <<part, logVars, flatVars, stringVars>>
Record == part = "log" /\ Log!Next /\ UNCHANGED <<part, arc4Vars, flatVars, stringVars>>
Object == part = "flat" /\ Flt!Next /\ UNCHANGED <<part, arc4Vars, logVars, stringVars>>

Text == part = "string" /\ Str!Next /\ UNCHANGED <<part, arc4Vars, logVars, flatVars>>

Next == Cipher \/ Record \/ Object \/ Text
vars == <<part, arc4Vars, logVars, flatVars, stringVars>>
Spec == Init /\ [][Next]_vars
-----------------------------------------------------------------------------
(* A compiled program decrypts what akb_cc encrypted: the cipher's state   *)
(* stays a permutation, arc4 undoes itself after whatever calls came       *)
(* before, and the key made of the shell's struct stat is read whole.      *)
TextsDecrypt == Rc4!StatePermutes /\ Rc4!DecryptsAll /\ Rc4!ShellKeyIsWhole

(* What is read is what was written: log records of every version, their   *)
(* order and their times on the wire, flattened objects in buffers of any  *)
(* size, and strings, which compare equal when they are the same.          *)
DataArrives ==
  /\ Log!PayloadIsFound /\ Log!OrderedByTime /\ Log!TimeOnTheWire
  /\ Flt!StaysInBuffer /\ Flt!ObjectArrives
  /\ Str!StringsAreOrdered /\ Str!EqualMeansSame
=============================================================================
