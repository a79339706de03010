-------------------------- MODULE AkbProgramProofs --------------------------
(***************************************************************************)
(* For any number of processes and starts, any arguments, any script and   *)
(* any shell, a script that a compiled program runs gets the arguments and *)
(* the environment of the start.                                           *)
(***************************************************************************)
EXTENDS AkbProgram, SequenceTheorems, TLAPS

PInv == TypeOK /\ Passes

-----------------------------------------------------------------------------
(* Sequences *)

(* One word.                                                               *)
LEMMA Single ==
  ASSUME NEW W, NEW x \in W
  PROVE  <<x>> \in Seq(W) /\ Len(<<x>>) = 1
OBVIOUS

(* A word in front of a list of words.                                     *)
LEMMA InFront ==
  ASSUME NEW W, NEW x \in W, NEW s \in Seq(W)
  PROVE  /\ <<x>> \o s \in Seq(W) /\ <<x>> \o s # <<>>
         /\ Len(<<x>> \o s) = 1 + Len(s) /\ Len(s) \in Nat
         /\ Tail(<<x>> \o s) = s
<1> DEFINE t == <<x>> \o s
<1>0. <<x>> \in Seq(W) /\ Len(<<x>>) = 1 /\ Len(s) \in Nat
  BY Single, LenProperties
<1>1. /\ t \in Seq(W) /\ Len(t) = 1 + Len(s)
      /\ \A i \in 1 .. 1 + Len(s) : t[i] = IF i <= 1 THEN <<x>>[i] ELSE s[i - 1]
  BY <1>0, ConcatProperties
<1> HIDE DEF t
<1>2. t # <<>>
  BY <1>0, <1>1
<1>3. /\ Tail(t) \in Seq(W) /\ Len(Tail(t)) = Len(s)
      /\ \A i \in 1 .. Len(s) : Tail(t)[i] = t[i + 1]
  BY <1>0, <1>1, <1>2, HeadTailProperties
<1>4. \A i \in 1 .. Len(s) : Tail(t)[i] = s[i]
  BY <1>0, <1>1, <1>3
<1>5. Tail(t) = s
  BY <1>3, <1>4, SeqEqual
<1> QED BY <1>0, <1>1, <1>2, <1>5 DEF t

(* A list without its first two words.                                     *)
LEMMA BehindTwo ==
  ASSUME NEW W, NEW x \in W, NEW y \in W, NEW s \in Seq(W)
  PROVE  SubSeq(<<x>> \o (<<y>> \o s), 3, Len(<<x>> \o (<<y>> \o s))) = s
<1> DEFINE u == <<y>> \o s
           t == <<x>> \o u
           v == SubSeq(t, 3, Len(t))
<1>1. u \in Seq(W) /\ Len(u) = 1 + Len(s) /\ Len(s) \in Nat
  BY InFront
<1>2. t \in Seq(W) /\ Len(t) = 2 + Len(s)
  <2> HIDE DEF u
  <2> QED BY <1>1, InFront
<1>3. \A i \in 1 .. 1 + Len(s) : u[i] = IF i <= 1 THEN <<y>>[i] ELSE s[i - 1]
  <2>1. <<y>> \in Seq(W) /\ Len(<<y>>) = 1
    BY Single
  <2> QED BY <2>1, ConcatProperties
<1>4. \A i \in 1 .. 2 + Len(s) : t[i] = IF i <= 1 THEN <<x>>[i] ELSE u[i - 1]
  <2>1. <<x>> \in Seq(W) /\ Len(<<x>>) = 1
    BY Single
  <2>2. \A i \in 1 .. 1 + Len(u) : t[i] = IF i <= 1 THEN <<x>>[i] ELSE u[i - 1]
    BY <1>1, <2>1, ConcatProperties
  <2> QED BY <1>1, <2>2
<1> HIDE DEF u, t
<1>5. \A i \in 3 .. Len(t) : t[i] \in W
  BY <1>2, ElementOfSeq
<1>6. /\ v \in Seq(W) /\ Len(v) = IF 3 <= Len(t) THEN Len(t) - 3 + 1 ELSE 0
      /\ \A i \in 1 .. Len(t) - 3 + 1 : v[i] = t[3 + i - 1]
  BY <1>1, <1>2, <1>5, SubSeqProperties
<1> HIDE DEF v
<1>7. Len(v) = Len(s)
  BY <1>1, <1>2, <1>6
<1>8. \A i \in 1 .. Len(s) : v[i] = s[i]
  <2> TAKE i \in 1 .. Len(s)
  <2>1. v[i] = t[3 + i - 1] /\ 3 + i - 1 = i + 2
    BY <1>1, <1>2, <1>6
  <2>2. t[i + 2] = u[(i + 2) - 1] /\ (i + 2) - 1 = i + 1
    BY <1>1, <1>4
  <2>3. u[i + 1] = s[(i + 1) - 1] /\ (i + 1) - 1 = i
    BY <1>1, <1>3
  <2> QED BY <2>1, <2>2, <2>3
<1>9. v = s
  BY <1>6, <1>7, <1>8, SeqEqual
<1> QED BY <1>9 DEF v, t, u

-----------------------------------------------------------------------------
(* Types *)

(* The program's own strings.                                              *)
LEMMA OwnWords ==
  /\ Garbage \in Words /\ Unset \in Words /\ Arrays \subseteq Words
  /\ "" \in Words /\ "me" \in Words /\ "-c" \in Words /\ "exec" \in Words /\ "--" \in Words
  /\ "relaxed" \in Words /\ "<null>" \in Words /\ "has expired!" \in Words
  /\ "abnormal behavior!" \in Words /\ "location has changed!" \in Words
  /\ "shell has changed!" \in Words /\ "traced" \in Words
BY ProgramAssumption DEF Literals

(* What xsh decrypts is a string, right or not.                            *)
LEMMA PlainType ==
  ASSUME TypeOK, NEW ops, NEW x \in Arrays
  PROVE  Plain(bin, ops, x) \in Words
BY OwnWords DEF Plain, TypeOK

(* The program and its last option do not change under it.                 *)
LEMMA SameOption ==
  ASSUME bin' = bin
  PROVE  Decrypted("lsto")' = Decrypted("lsto")
BY DEF Decrypted, BranchOps, Plain

(* The state of a process is read against the program: the same program    *)
(* gives the same verdict.                                                 *)
LEMMA SameVerdict ==
  ASSUME bin' = bin, cc' = cc, NEW p, NEW r, PassesOf(p, r)
  PROVE  PassesOf(p, r)'
BY SameOption DEF PassesOf, FirstPass, SecondPass, Shifted, Variables, Unspoilt, Foreign

(* A step of one process disturbs no other.                                *)
LEMMA OneProcess ==
  ASSUME TypeOK, Passes, NEW p \in Pids, NEW r \in Process, PassesOf(p, r),
         proc' = [proc EXCEPT ![p] = r], bin' = bin, cc' = cc
  PROVE  Passes' /\ proc' \in [Pids -> Process]
<1>1. proc' \in [Pids -> Process]
  BY DEF TypeOK
<1>2. ASSUME NEW q \in Pids PROVE PassesOf(q, proc[q])' 
  <2>1. CASE q = p
    <3>1. PassesOf(p, r)'
      BY SameVerdict
    <3>2. proc'[q] = r
      BY <2>1 DEF TypeOK
    <3> QED BY <2>1, <3>1, <3>2 DEF PassesOf, FirstPass, SecondPass, Shifted, Variables, Unspoilt, Foreign
  <2>2. CASE q # p
    <3>1. proc'[q] = proc[q]
      BY <2>2 DEF TypeOK
    <3>2. PassesOf(q, proc[q])
      BY DEF Passes
    <3> QED BY <3>1, <3>2, SameOption DEF PassesOf, FirstPass, SecondPass, Shifted, Variables, Unspoilt, Foreign
  <2> QED BY <2>1, <2>2
<1> QED BY <1>1, <1>2 DEF Passes

(* The same for steps that change nothing but one process.                 *)
LEMMA StepKeeps ==
  ASSUME PInv, NEW p \in Pids, NEW r \in Process, PassesOf(p, r), Step(p, r)
  PROVE  PInv'
<1>1. Passes' /\ proc' \in [Pids -> Process]
  BY OneProcess DEF PInv, Step
<1>2. TypeOK'
  BY <1>1 DEF PInv, Step, TypeOK
<1> QED BY <1>1, <1>2 DEF PInv

(* ... and for those that end it with a message.                           *)
LEMMA ReturnKeeps ==
  ASSUME PInv, NEW p \in Pids, proc[p].at # "free", NEW msg \in Words, Return(p, msg)
  PROVE  PInv'
<1> DEFINE r == [proc[p] EXCEPT !.at = "ended", !.msg = msg]
<1>1. proc[p] \in Process /\ PassesOf(p, proc[p])
  BY DEF PInv, TypeOK, Passes
<1>2. r \in Process
  BY <1>1 DEF Process
<1>3. r.at = "ended" /\ r.inherited = proc[p].inherited
  BY <1>1 DEF Process
<1>4. PassesOf(p, r)
  BY <1>1, <1>3 DEF PassesOf
<1>5. Step(p, r)
  BY DEF Return
<1> HIDE DEF r
<1> QED BY <1>2, <1>4, <1>5, StepKeeps

-----------------------------------------------------------------------------
(* The initial states, and akb_cc *)

(* A process id that is not in use.                                        *)
LEMMA FreeIsProcess == Free \in Process /\ Free.at = "free" /\ Free.inherited = {}
<1>1. <<>> \in Seq(Words)
  BY EmptySeq
<1>2. 0 \in -1 .. 2 /\ {} \in SUBSET Variable
  OBVIOUS
<1> QED BY <1>1, <1>2, OwnWords, Zenon DEF Free, Process

(* No process runs yet.                                                    *)
LEMMA ProgramInit == Init => PInv
<1> SUFFICES ASSUME Init PROVE PInv
  OBVIOUS
<1>1. Free \in Process /\ Free.at = "free" /\ Free.inherited = {}
  BY FreeIsProcess
<1>2. proc \in [Pids -> Process] /\ \A p \in Pids : proc[p] = Free
  BY <1>1 DEF Init
<1>3. cc \in Compiler
  <2>1. PICK line \in CommandLines, s \in Scripts :
          cc = [at |-> "args", line |-> line, script |-> s, file |-> FALSE, err |-> FALSE,
                inlo |-> Unset, xecc |-> Unset, lsto |-> Unset, opts |-> "",
                rlax |-> FALSE, date |-> FALSE, traceable |-> TRUE]
    BY DEF Init
  <2>2. line \in Seq(Words) /\ s \in Script
    BY ProgramAssumption
  <2> QED BY <2>1, <2>2, OwnWords DEF Compiler
<1>4. \A x \in Arrays : bin[x].plain \in Words
  BY OwnWords DEF Init, NoProgram
<1>5. shell \in Shells /\ expired = FALSE /\ starts = 0 /\ changes = 0
  BY DEF Init
<1>6. TypeOK
  <2>1. starts \in 0 .. MaxStarts /\ changes \in 0 .. MaxChanges
    BY <1>5, ProgramAssumption
  <2> QED BY <1>2, <1>3, <1>4, <1>5, <2>1, Zenon DEF TypeOK
<1>7. Passes
  <2> SUFFICES ASSUME NEW p \in Pids PROVE PassesOf(p, proc[p])
    BY DEF Passes
  <2>1. proc[p].at = "free" /\ proc[p].inherited = {}
    BY <1>1, <1>2
  <2> QED BY <2>1 DEF PassesOf
<1> QED BY <1>6, <1>7 DEF PInv

(* While akb_cc runs there is no process, whatever happens to the program. *)
LEMMA CompileKeepsPasses ==
  ASSUME PInv, cc.at # "ok", proc' = proc
  PROVE  Passes'
<1> SUFFICES ASSUME NEW p \in Pids PROVE PassesOf(p, proc[p])'
  BY DEF Passes
<1>1. PassesOf(p, proc[p])
  BY DEF PInv, Passes
<1>2. proc[p].at = "free" /\ proc[p].inherited \subseteq {Foreign(q) : q \in Taken}
  BY <1>1 DEF PassesOf
<1> QED BY <1>2 DEF PassesOf, Foreign

(* The options keep their types.                                           *)
LEMMA CompileKeepsTypes ==
  ASSUME TypeOK, Compile
  PROVE  TypeOK'
<1> USE OwnWords DEF Compiler
<1>1. cc \in Compiler
  BY DEF TypeOK
<1>2. CASE ParseArgs
  <2>1. cc' \in Compiler
    <3>1. CASE cc.line # <<>>
      <4> DEFINE o == Head(cc.line)
      <4>1. o \in Words /\ Tail(cc.line) \in Seq(Words)
        BY <1>1, <3>1, HeadTailProperties
      <4> HIDE DEF o
      <4>2. ParseAnArg(cc, o) \in Compiler
        BY <1>1, <4>1, ZenonT(60) DEF ParseAnArg
      <4>3. cc' = [ParseAnArg(cc, o) EXCEPT !.line = Tail(cc.line)]
        BY <1>2, <3>1 DEF ParseArgs, o
      <4> HIDE DEF Compiler
      <4> QED BY <4>1, <4>2, <4>3 DEF Compiler
    <3>2. CASE cc.line = <<>>
      BY <1>1, <1>2, <3>2 DEF ParseArgs
    <3> QED BY <3>1, <3>2
  <2> QED BY <1>2, <2>1 DEF ParseArgs, TypeOK
<1>3. CASE ReadScript
  <2>1. cc' \in Compiler
    BY <1>1, <1>3 DEF ReadScript
  <2> QED BY <1>3, <2>1 DEF ReadScript, TypeOK
<1>4. CASE EvalShell
  <2> DEFINE c == WithShell(cc)
  <2>1. c \in Compiler
    BY <1>1 DEF WithShell, Script
  <2> HIDE DEF c
  <2>2. Evaluated(c) \in Compiler
    BY <2>1 DEF Evaluated, Script
  <2>3. cc' \in Compiler
    BY <1>1, <1>4, <2>2 DEF EvalShell, Script, c
  <2> QED BY <1>4, <2>3 DEF EvalShell, TypeOK
<1>5. CASE WriteC
  <2>1. cc' \in Compiler
    BY <1>1, <1>5 DEF WriteC
  <2>2. ASSUME NEW x \in Arrays PROVE PlainText[x] \in Words
    BY <1>1, <2>2 DEF PlainText, Arrays
  <2>3. \A x \in Arrays : bin'[x].plain \in Words
    <3>1. CASE UNCHANGED bin
      BY <3>1 DEF TypeOK
    <3>2. CASE bin' = [x \in Arrays |-> [at |-> StateAt(EncryptOps, x), plain |-> PlainText[x]]]
      BY <2>2, <3>2
    <3> QED BY <1>5, <3>1, <3>2 DEF WriteC
  <2> QED BY <1>5, <2>1, <2>3 DEF WriteC, TypeOK
<1>6. CASE Make
  <2>1. cc' \in Compiler
    BY <1>1, <1>6 DEF Make
  <2> QED BY <1>6, <2>1 DEF Make, TypeOK
<1> QED BY <1>2, <1>3, <1>4, <1>5, <1>6 DEF Compile

-----------------------------------------------------------------------------
(* The program *)

(* Where a start begins is known while akb_cc is done.                     *)
LEMMA MainIs == Main \in {"trace", "main"}
BY DEF Main

(* untraceable lets a pass go on as it was started, or ends the process.   *)
LEMMA UntraceableKeeps ==
  ASSUME PInv, NEW p \in Pids, untraceable(p)
  PROVE  PInv'
<1> DEFINE r == proc[p]
           n == [r EXCEPT !.at = "main"]
<1>1. r \in Process /\ PassesOf(p, r) /\ r.at = "trace"
  BY DEF PInv, TypeOK, Passes, untraceable
<1>2. CASE Return(p, "traced")
  BY <1>1, <1>2, OwnWords, ReturnKeeps
<1>3. CASE Step(p, n)
  <2>1. n \in Process
    BY <1>1 DEF Process
  <2>2. /\ n.at = "main" /\ n.env = r.env /\ n.argv = r.argv
        /\ n.given = r.given /\ n.inherited = r.inherited
    BY <1>1 DEF Process
  <2> HIDE DEF n
  <2>3. PassesOf(p, n)
    BY <1>1, <2>2 DEF PassesOf, Shifted, Variables, Unspoilt
  <2> QED BY <1>3, <2>1, <2>3, StepKeeps
<1> QED BY <1>2, <1>3 DEF untraceable

(* chkenv tells the passes apart: no variable in the first, and in the     *)
(* second the one of this start, unless somebody else has set it.          *)
LEMMA ChkenvKeeps ==
  ASSUME PInv, NEW p \in Pids, chkenv(p)
  PROVE  PInv'
<1> DEFINE r == proc[p]
           argc == Len(r.argv)
<1>1. r \in Process /\ PassesOf(p, r) /\ r.at = "main"
  BY DEF PInv, TypeOK, Passes, chkenv
<1>2. r.given \in Seq(Words) /\ r.argv \in Seq(Words) /\ Len(r.given) \in Nat /\ argc \in Nat
  BY <1>1, LenProperties DEF Process
<1> DEFINE v == [mask |-> p, argc |-> 1 + Len(r.given)]
           found == {w \in r.env : w.mask = p}
<1>0. r.inherited \in SUBSET {Foreign(q) : q \in Taken}
  BY <1>1 DEF PassesOf
<1>3. /\ v \in Variable /\ v.mask = p /\ v.argc = 1 + Len(r.given)
      /\ Variables(p, r) = r.inherited \cup {v}
      /\ r.inherited \in SUBSET Variable /\ v \notin r.inherited /\ v # Foreign(p)
      /\ \A w \in r.inherited : w.mask = p => w = Foreign(p)
      /\ Foreign(p).mask = p
  <2>1. Variables(p, r) = r.inherited \cup {v}
    BY DEF Variables
  <2> DEFINE m == Len(r.given)
             h == r.inherited
  <2>2. m \in Nat /\ h \in SUBSET {Foreign(q) : q \in Taken} /\ v = [mask |-> p, argc |-> 1 + m]
    BY <1>0, <1>2
  <2> HIDE DEF m, h, v
  <2>3. /\ v \in Variable /\ v.mask = p /\ v.argc = 1 + m
        /\ h \in SUBSET Variable /\ v \notin h /\ v # Foreign(p)
        /\ \A w \in h : w.mask = p => w = Foreign(p)
        /\ Foreign(p).mask = p
    BY <2>2, ProgramAssumption DEF Foreign, Variable
  <2> QED BY <2>1, <2>3, Zenon DEF m, h
<1>4. Len(<<"me">> \o r.given) = 1 + Len(r.given) /\ <<"me">> \o r.given \in Seq(Words)
  BY <1>2, OwnWords, InFront
<1>a. \/ /\ found = {}
         /\ Step(p, [r EXCEPT !.at = "head", !.ret = 0,
                              !.env = r.env \cup {[mask |-> p, argc |-> argc]}])
      \/ \E w \in found \ {Foreign(p)} :
           Step(p, [r EXCEPT !.at = "head", !.ret = Skipped(argc, w.argc), !.env = rmarg(r.env, w)])
      \/ Foreign(p) \in found /\ Step(p, [r EXCEPT !.at = "head", !.ret = -1])
  BY DEF chkenv
<1>b. CASE r.env = r.inherited /\ ~Unspoilt(p, r)
  <2> DEFINE k == -1
             n == [r EXCEPT !.at = "head", !.ret = k]
  <2>1. found = {Foreign(p)}
    BY <1>3, <1>b DEF Unspoilt
  <2> HIDE DEF found
  <2>2. Step(p, n)
    BY <1>a, <2>1
  <2>3. k \in -1 .. 2
    OBVIOUS
  <2> HIDE DEF k
  <2>4. n \in Process
    BY <1>1, <2>3 DEF Process
  <2>5. n.at = "head" /\ n.ret = -1 /\ n.inherited = r.inherited
    BY <1>1 DEF Process, k
  <2> HIDE DEF n
  <2>6. PassesOf(p, n)
    BY <1>1, <2>5 DEF PassesOf
  <2> QED BY <2>2, <2>4, <2>6, StepKeeps
<1>5. CASE r.env = r.inherited /\ Unspoilt(p, r) /\ r.argv = <<"me">> \o r.given
  <2> DEFINE n == [r EXCEPT !.at = "head", !.ret = 0,
                            !.env = r.env \cup {[mask |-> p, argc |-> argc]}]
  <2>0. found = {}
    BY <1>3, <1>5 DEF Unspoilt
  <2>1. Step(p, n)
    BY <1>a, <2>0
  <2>2. argc = 1 + Len(r.given)
    BY <1>4, <1>5
  <2>3. r.env \cup {[mask |-> p, argc |-> argc]} = Variables(p, r)
    BY <1>3, <1>5, <2>2
  <2>4. n \in Process
    <3> DEFINE e == Variables(p, r)
               k == 0
    <3>1. n = [r EXCEPT !.at = "head", !.ret = k, !.env = e]
      BY <2>3
    <3>2. e \in SUBSET Variable /\ k \in -1 .. 2
      BY <1>3
    <3> HIDE DEF n, e, k, r
    <3> QED BY <1>1, <3>1, <3>2 DEF Process
  <2>5. /\ n.at = "head" /\ n.ret = 0 /\ n.env = Variables(p, r) /\ n.argv = r.argv
        /\ n.given = r.given /\ n.inherited = r.inherited
    BY <1>1, <2>3 DEF Process
  <2> HIDE DEF n
  <2>6. FirstPass(p, n)
    BY <1>5, <2>5 DEF FirstPass, Variables, Unspoilt
  <2>7. PassesOf(p, n)
    BY <1>1, <2>5, <2>6 DEF PassesOf
  <2> QED BY <2>1, <2>4, <2>7, StepKeeps
<1>6. CASE Unspoilt(p, r) /\ r.env = Variables(p, r) /\ r.argv = <<"me">> \o Shifted(r)
  <2> DEFINE n == [r EXCEPT !.at = "head", !.ret = Skipped(argc, v.argc),
                            !.env = rmarg(r.env, v)]
  <2>1. found = {v}
    BY <1>3, <1>6 DEF Unspoilt
  <2> HIDE DEF found
  <2>2. Step(p, n)
    <3>1. found # {} /\ Foreign(p) \notin found /\ found \ {Foreign(p)} = {v}
      BY <1>3, <2>1
    <3> HIDE DEF v
    <3> QED BY <1>a, <3>1
  <2>3. argc = (IF Decrypted("lsto") = "" THEN 1 ELSE 2) + Len(r.given)
    <3>1. CASE Decrypted("lsto") = ""
      BY <1>4, <1>6, <3>1 DEF Shifted
    <3>2. CASE Decrypted("lsto") # ""
      <4>1. Len(<<"me">> \o (<<"me">> \o r.given)) = 1 + Len(<<"me">> \o r.given)
        BY <1>4, OwnWords, InFront
      <4>2. r.argv = <<"me">> \o (<<"me">> \o r.given)
        BY <1>6, <3>2 DEF Shifted
      <4>3. argc = 1 + (1 + Len(r.given))
        BY <1>4, <4>1, <4>2, Zenon
      <4> DEFINE g == Len(r.given)
      <4>4. argc = 1 + (1 + g) /\ g \in Nat
        BY <1>2, <4>3
      <4> HIDE DEF argc, g
      <4>5. argc = 2 + g
        BY <4>4
      <4> QED BY <3>2, <4>5, Zenon DEF g
    <3> QED BY <3>1, <3>2
  <2>4. Skipped(argc, v.argc) = (IF Decrypted("lsto") = "" THEN 1 ELSE 2)
    <3> DEFINE g == Len(r.given)
               a == v.argc
    <3>0. g \in Nat /\ a = 1 + g
      BY <1>2, <1>3
    <3>1. argc = (IF Decrypted("lsto") = "" THEN 1 ELSE 2) + g
      BY <2>3
    <3> HIDE DEF g, a, argc
    <3>2. Skipped(argc, a) = 1 + (argc - a)
      BY DEF Skipped
    <3>3. ASSUME Decrypted("lsto") = "" PROVE Skipped(argc, a) = 1
      <4>1. argc = 1 + g
        BY <3>1, <3>3, Zenon
      <4>2. 1 + (argc - a) = 1
        BY <3>0, <4>1
      <4> QED BY <3>2, <4>2
    <3>4. ASSUME Decrypted("lsto") # "" PROVE Skipped(argc, a) = 2
      <4>1. argc = 2 + g
        BY <3>1, <3>4, Zenon
      <4>2. 1 + (argc - a) = 2
        BY <3>0, <4>1
      <4> QED BY <3>2, <4>2
    <3> QED BY <3>3, <3>4 DEF a
  <2>5. rmarg(r.env, v) = r.inherited
    BY <1>3, <1>6 DEF rmarg
  <2>6. n \in Process
    <3> DEFINE k == IF Decrypted("lsto") = "" THEN 1 ELSE 2
               e == r.inherited
    <3>1. n = [r EXCEPT !.at = "head", !.ret = k, !.env = e]
      BY <2>4, <2>5
    <3>2. k \in -1 .. 2 /\ e \in SUBSET Variable
      BY <1>3
    <3> HIDE DEF n, k, e, r
    <3> QED BY <1>1, <3>1, <3>2 DEF Process
  <2>7. /\ n.at = "head" /\ n.env = r.inherited /\ n.argv = r.argv
        /\ n.ret = (IF Decrypted("lsto") = "" THEN 1 ELSE 2)
        /\ n.given = r.given /\ n.inherited = r.inherited
    BY <1>1, <2>4, <2>5 DEF Process
  <2> HIDE DEF n
  <2>8. SecondPass(n)
    BY <1>6, <2>7 DEF SecondPass, Shifted
  <2>9. PassesOf(p, n)
    BY <1>1, <2>7, <2>8 DEF PassesOf
  <2> QED BY <2>2, <2>6, <2>9, StepKeeps
<1> QED BY <1>1, <1>5, <1>6, <1>b DEF PassesOf

(* Up to the branch on the result of chkenv.                               *)
LEMMA DecryptHeadKeeps ==
  ASSUME PInv, NEW p \in Pids, DecryptHead(p)
  PROVE  PInv'
<1> DEFINE r == proc[p]
<1>1. r \in Process /\ PassesOf(p, r) /\ r.at = "head" /\ r.ret \in -1 .. 2
  BY DEF PInv, TypeOK, Passes, DecryptHead, Process
<1>2. \A x \in Arrays : Decrypted(x) \in Words
  BY PlainType DEF PInv, Decrypted
<1>3. /\ Decrypted("msg1") \in Words /\ Decrypted("tst1") \in Words
      /\ Decrypted("msg2") \in Words /\ "<null>" \in Words
  BY <1>2, OwnWords DEF Arrays
<1>4. CASE \E msg \in Words : Return(p, msg)
  BY <1>1, <1>4, ReturnKeeps
<1> DEFINE n == [r EXCEPT !.at = IF r.ret = 0 THEN "reexec" ELSE "body"]
<1>5. CASE r.ret >= 0 /\ Step(p, n)
  <2>1. n \in Process
    BY <1>1 DEF Process
  <2>2. /\ n.at = (IF r.ret = 0 THEN "reexec" ELSE "body") /\ n.ret = r.ret /\ n.env = r.env
        /\ n.argv = r.argv /\ n.given = r.given /\ n.inherited = r.inherited
    BY <1>1 DEF Process
  <2> HIDE DEF n
  <2>3. CASE r.ret = 0
    <3>1. FirstPass(p, r)
      BY <1>1, <2>3 DEF PassesOf, SecondPass
    <3>2. FirstPass(p, n) /\ n.at = "reexec"
      BY <2>2, <2>3, <3>1 DEF FirstPass, Variables, Unspoilt
    <3>3. PassesOf(p, n)
      BY <1>1, <2>2, <3>2 DEF PassesOf
    <3> QED BY <1>5, <2>1, <3>3, StepKeeps
  <2>4. CASE r.ret # 0
    <3>1. SecondPass(r)
      BY <1>1, <1>5, <2>4 DEF PassesOf, FirstPass
    <3>2. SecondPass(n) /\ n.at = "body"
      BY <2>2, <2>4, <3>1 DEF SecondPass, Shifted
    <3>3. PassesOf(p, n)
      BY <1>1, <2>2, <3>2 DEF PassesOf
    <3> QED BY <1>5, <2>1, <3>3, StepKeeps
  <2> QED BY <2>3, <2>4
<1> QED BY <1>3, <1>4, <1>5 DEF DecryptHead

(* The second pass decrypts the script.                                    *)
LEMMA DecryptBodyKeeps ==
  ASSUME PInv, NEW p \in Pids, DecryptBody(p)
  PROVE  PInv'
<1> DEFINE r == proc[p]
<1>1. r \in Process /\ PassesOf(p, r) /\ r.at = "body"
  BY DEF PInv, TypeOK, Passes, DecryptBody
<1>2. \A x \in Arrays : Decrypted(x) \in Words /\ Plain(bin, BodyOps, x) \in Words
  BY PlainType DEF PInv, Decrypted
<1>3. /\ Decrypted("shll") \in Words /\ Plain(bin, BodyOps, "tst2") \in Words
      /\ Plain(bin, BodyOps, "text") \in Words /\ "<null>" \in Words
  BY <1>2, OwnWords DEF Arrays
<1>4. CASE \E msg \in Words : Return(p, msg)
  BY <1>1, <1>4, ReturnKeeps
<1> DEFINE n == [r EXCEPT !.at = "exec", !.text = Plain(bin, BodyOps, "text")]
<1>5. CASE Step(p, n)
  <2>1. n \in Process
    BY <1>1, <1>3 DEF Process
  <2>2. /\ n.at = "exec" /\ n.ret = r.ret /\ n.env = r.env
        /\ n.argv = r.argv /\ n.given = r.given /\ n.inherited = r.inherited
    BY <1>1 DEF Process
  <2> HIDE DEF n
  <2>3. PassesOf(p, n)
    BY <1>1, <2>2 DEF PassesOf, FirstPass, SecondPass, Shifted, Variables, Unspoilt, Foreign
  <2> QED BY <1>5, <2>1, <2>3, StepKeeps
<1> QED BY <1>3, <1>4, <1>5 DEF DecryptBody

(* The words that follow the command of the shell.                         *)
LEMMA FollowingIs ==
  ASSUME NEW r, NEW i, (IF r.ret > 1 THEN r.ret ELSE 0) + 1 = i
  PROVE  /\ Decrypted("lsto") = "" => Following(r) = <<>> \o SubSeq(r.argv, i, Len(r.argv))
         /\ Decrypted("lsto") # "" =>
              Following(r) = <<Decrypted("lsto")>> \o SubSeq(r.argv, i, Len(r.argv))
BY Zenon DEF Following

(* The shell that executes the program again hands on its arguments, with  *)
(* the name in front if a last option has taken the place of $0.           *)
LEMMA ReexecuteKeeps ==
  ASSUME PInv, NEW p \in Pids, Reexecute(p)
  PROVE  PInv'
<1> DEFINE r == proc[p]
           lsto == Decrypted("lsto")
<1>1. r \in Process /\ PassesOf(p, r) /\ r.at = "reexec"
  BY DEF PInv, TypeOK, Passes, Reexecute
<1>2. FirstPass(p, r) /\ r.given \in Seq(Words) /\ r.argv = <<"me">> \o r.given /\ r.ret = 0
  BY <1>1 DEF PassesOf, FirstPass, Process
<1>3. lsto \in Words /\ Decrypted("shll") \in Words
  BY PlainType DEF PInv, Decrypted, Arrays
<1>4. Positional(r) = Shifted(r)
  <2>1. /\ r.argv \in Seq(Words) /\ r.argv # <<>> /\ Tail(r.argv) = r.given
        /\ SubSeq(r.argv, 1, Len(r.argv)) = r.argv
    <3> DEFINE t == <<"me">> \o r.given
    <3>1. t \in Seq(Words) /\ t # <<>> /\ Tail(t) = r.given
      BY <1>2, OwnWords, InFront
    <3> HIDE DEF t
    <3>2. SubSeq(t, 1, Len(t)) = t
      BY <3>1, SubSeqFull
    <3>3. r.argv = t
      BY <1>2 DEF t
    <3> QED BY <3>1, <3>2, <3>3, Zenon
  <2>a. (IF r.ret > 1 THEN r.ret ELSE 0) + 1 = 1
    BY <1>2
  <2>2. CASE lsto = ""
    <3>1. Following(r) = <<>> \o r.argv
      BY <2>1, <2>2, <2>a, FollowingIs, Zenon
    <3>2. Following(r) = r.argv
      BY <2>1, <3>1, ConcatEmptySeq
    <3> QED BY <2>1, <2>2, <3>2 DEF Positional, Shifted
  <2>3. CASE lsto # ""
    <3>1. Following(r) = <<lsto>> \o r.argv
      BY <2>1, <2>3, <2>a, FollowingIs, Zenon
    <3>2. Following(r) # <<>> /\ Tail(Following(r)) = r.argv
      BY <1>3, <2>1, <3>1, InFront, SMTT(30)
    <3> QED BY <1>2, <2>3, <3>2 DEF Positional, Shifted
  <2> QED BY <2>2, <2>3
<1>5. <<"me">> \o Shifted(r) \in Seq(Words)
  BY <1>2, OwnWords, InFront DEF Shifted
<1> DEFINE n == [r EXCEPT !.at = Main, !.argv = <<"me">> \o Positional(r)]
<1>6. CASE Step(p, n)
  <2>1. n = [r EXCEPT !.at = Main, !.argv = <<"me">> \o Shifted(r)]
    BY <1>4
  <2> HIDE DEF n
  <2>2. n \in Process
    BY <1>1, <1>5, <2>1, MainIs DEF Process
  <2>3. /\ n.at \in {"trace", "main"} /\ n.env = r.env /\ n.argv = <<"me">> \o Shifted(r)
        /\ n.given = r.given /\ n.inherited = r.inherited
    BY <1>1, <2>1, MainIs DEF Process
  <2>4. PassesOf(p, n)
    BY <1>1, <1>2, <2>3 DEF PassesOf, FirstPass, Shifted, Variables, Unspoilt
  <2> QED BY <1>6, <2>2, <2>4, StepKeeps
<1>7. CASE Return(p, Decrypted("shll"))
  BY <1>1, <1>3, <1>7, ReturnKeeps
<1> QED BY <1>6, <1>7 DEF Reexecute

(* The script gets what is left after the correction of chkenv.            *)
LEMMA ExecuteKeeps ==
  ASSUME PInv, NEW p \in Pids, Execute(p)
  PROVE  PInv'
<1> DEFINE r == proc[p]
           lsto == Decrypted("lsto")
<1>1. r \in Process /\ PassesOf(p, r) /\ r.at = "exec"
  BY DEF PInv, TypeOK, Passes, Execute
<1>2. SecondPass(r) /\ r.given \in Seq(Words) /\ r.argv \in Seq(Words)
  BY <1>1 DEF PassesOf, Process
<1>3. lsto \in Words /\ Decrypted("shll") \in Words
  BY PlainType DEF PInv, Decrypted, Arrays
<1>4. Positional(r) = r.given
  <2>1. CASE lsto = ""
    <3>1. r.ret = 1 /\ r.argv = <<"me">> \o r.given
      BY <1>2, <2>1 DEF SecondPass, Shifted
    <3>2. r.argv # <<>> /\ Tail(r.argv) = r.given /\ SubSeq(r.argv, 1, Len(r.argv)) = r.argv
      <4> DEFINE t == <<"me">> \o r.given
      <4>1. t \in Seq(Words) /\ t # <<>> /\ Tail(t) = r.given
        BY <1>2, OwnWords, InFront
      <4> HIDE DEF t
      <4>2. SubSeq(t, 1, Len(t)) = t
        BY <4>1, SubSeqFull
      <4>3. r.argv = t
        BY <3>1 DEF t
      <4> QED BY <4>1, <4>2, <4>3, Zenon
    <3>3. Following(r) = <<>> \o r.argv
      <4>1. (IF r.ret > 1 THEN r.ret ELSE 0) + 1 = 1
        BY <3>1
      <4> QED BY <2>1, <3>2, <4>1, FollowingIs, Zenon
    <3>4. Following(r) = r.argv
      BY <1>2, <3>3, ConcatEmptySeq
    <3> QED BY <3>2, <3>4 DEF Positional
  <2>2. CASE lsto # ""
    <3>1. r.ret = 2 /\ r.argv = <<"me">> \o (<<"me">> \o r.given)
      BY <1>2, <2>2 DEF SecondPass, Shifted
    <3>2. SubSeq(r.argv, 3, Len(r.argv)) = r.given
      <4> DEFINE t == <<"me">> \o (<<"me">> \o r.given)
      <4>1. SubSeq(t, 3, Len(t)) = r.given
        BY <1>2, OwnWords, BehindTwo
      <4> QED BY <3>1, <4>1, Zenon
    <3>3. Following(r) = <<lsto>> \o r.given
      <4>1. (IF r.ret > 1 THEN r.ret ELSE 0) + 1 = 3
        BY <3>1
      <4> QED BY <2>2, <3>2, <4>1, FollowingIs, Zenon
    <3>4. Following(r) # <<>> /\ Tail(Following(r)) = r.given
      BY <1>2, <1>3, <3>3, InFront
    <3> QED BY <3>4 DEF Positional
  <2> QED BY <2>1, <2>2
<1> DEFINE n == [r EXCEPT !.at = "script", !.argv = Positional(r)]
<1>5. CASE Step(p, n)
  <2>1. n = [r EXCEPT !.at = "script", !.argv = r.given]
    BY <1>4
  <2> HIDE DEF n
  <2>2. n \in Process
    BY <1>1, <1>2, <2>1 DEF Process
  <2>3. /\ n.at = "script" /\ n.env = r.env /\ n.argv = r.given
        /\ n.given = r.given /\ n.inherited = r.inherited
    BY <1>1, <2>1 DEF Process
  <2>4. PassesOf(p, n)
    BY <1>1, <1>2, <2>3 DEF PassesOf, SecondPass
  <2> QED BY <1>5, <2>2, <2>4, StepKeeps
<1>6. CASE Return(p, Decrypted("shll"))
  BY <1>1, <1>3, <1>6, ReturnKeeps
<1> QED BY <1>5, <1>6 DEF Execute

-----------------------------------------------------------------------------
(* Users, scripts and the rest of the world *)

(* A start by a user, or by a script.                                      *)
LEMMA StartedKeeps ==
  ASSUME PInv, NEW p \in Pids, NEW args \in ArgLists, cc.at = "ok", starts < MaxStarts,
         NEW env, env \subseteq {Foreign(q) : q \in Taken},
         proc' = [proc EXCEPT ![p] = Started(args, env)], starts' = starts + 1,
         UNCHANGED <<cc, bin, shell, expired, changes>>
  PROVE  PInv'
<1> DEFINE n == Started(args, env)
<1>1. args \in Seq(Words) /\ <<"me">> \o args \in Seq(Words)
  BY ProgramAssumption, OwnWords, InFront
<1> DEFINE argv == <<"me">> \o args
<1>2. n = [Free EXCEPT !.at = Main, !.argv = argv, !.env = env, !.given = args, !.inherited = env]
  BY DEF Started
<1>a. env \in SUBSET Variable
  BY ProgramAssumption DEF Foreign, Variable
<1> HIDE DEF n, argv
<1>3. n \in Process
  BY <1>1, <1>2, <1>a, FreeIsProcess, MainIs DEF Process, argv
<1>4. /\ n.at \in {"trace", "main"} /\ n.env = env /\ n.inherited = env
      /\ n.argv = argv /\ n.given = args
  BY <1>2, FreeIsProcess, MainIs DEF Process
<1>5. PassesOf(p, n)
  BY <1>4 DEF PassesOf, argv
<1>6. Passes' /\ proc' \in [Pids -> Process]
  BY <1>3, <1>5, OneProcess DEF PInv, n
<1>7. TypeOK'
  BY <1>6, ProgramAssumption DEF PInv, TypeOK
<1> QED BY <1>6, <1>7 DEF PInv

(* Every step.                                                             *)
LEMMA ProgramStep == PInv /\ [Next]_vars => PInv'
<1> SUFFICES ASSUME PInv, [Next]_vars PROVE PInv'
  OBVIOUS
<1>1. CASE Compile
  <2>1. cc.at # "ok" /\ proc' = proc
    BY <1>1 DEF Compile, ParseArgs, ReadScript, EvalShell, WriteC, Make
  <2>2. Passes'
    BY <2>1, CompileKeepsPasses
  <2>3. TypeOK'
    BY <1>1, CompileKeepsTypes DEF PInv
  <2> QED BY <2>2, <2>3 DEF PInv
<1>2. ASSUME NEW p \in Pids, Run(p) PROVE PInv'
  BY <1>2, UntraceableKeeps, ChkenvKeeps, DecryptHeadKeeps, DecryptBodyKeeps, ReexecuteKeeps, ExecuteKeeps DEF Run
<1>3. ASSUME NEW p \in Pids, Ends(p) PROVE PInv'
  <2>1. Free \in Process
    BY FreeIsProcess
  <2>2. PassesOf(p, Free)
    BY FreeIsProcess DEF PassesOf
  <2> QED BY <1>3, <2>1, <2>2, StepKeeps DEF Ends
<1>4. ASSUME NEW p \in Pids, NEW args \in ArgLists,
             NEW env \in {{}} \cup {{Foreign(q)} : q \in Taken}, Start(p, args, env)
      PROVE  PInv'
  <2>1. env \subseteq {Foreign(q) : q \in Taken}
    BY <1>4
  <2> QED BY <1>4, <2>1, StartedKeeps DEF Start
<1>5. ASSUME NEW p \in Pids, proc[p].at = "script"
      PROVE  cc.at = "ok" /\ proc[p].env \subseteq {Foreign(q) : q \in Taken}
  BY <1>5 DEF PInv, Passes, PassesOf
<1>6. ASSUME NEW p \in Pids, NEW args \in ArgLists, ScriptExecs(p, args) PROVE PInv'
  BY <1>5, <1>6, StartedKeeps DEF ScriptExecs
<1>7. ASSUME NEW p \in Pids, NEW q \in Pids, NEW args \in ArgLists, ScriptForks(p, q, args)
      PROVE  PInv'
  BY <1>5, <1>7, StartedKeeps DEF ScriptForks
<1>8. CASE ShellChanges \/ Expires \/ UNCHANGED vars
  <2>1. proc' = proc /\ bin' = bin /\ cc' = cc
    BY <1>8 DEF ShellChanges, Expires, vars
  <2>2. Passes'
    BY <2>1, SameVerdict DEF PInv, Passes
  <2>3. TypeOK'
    <3>1. CASE ShellChanges
      BY <3>1, ProgramAssumption DEF ShellChanges, PInv, TypeOK
    <3>2. CASE Expires
      BY <3>2 DEF Expires, PInv, TypeOK
    <3>3. CASE UNCHANGED vars
      BY <3>3 DEF vars, PInv, TypeOK
    <3> QED BY <1>8, <3>1, <3>2, <3>3
  <2> QED BY <2>2, <2>3 DEF PInv
<1> QED BY <1>1, <1>2, <1>3, <1>4, <1>6, <1>7, <1>8 DEF Next, Over

(* The invariant of the two passes.                                        *)
THEOREM PassInvariance == Spec => []PInv
BY ProgramInit, ProgramStep, PTL DEF Spec

(* Compiler and processes are well typed; the result of chkenv is 0, 1 or  *)
(* 2, or -1 if somebody else has set the variable.                         *)
THEOREM ProgramTypeCorrect == Spec => []TypeOK
BY PassInvariance, PTL DEF PInv

(* The script gets the arguments of the start.                             *)
THEOREM ArgumentsAreKept == Spec => []ArgsKept
<1>1. PInv => ArgsKept
  BY DEF PInv, Passes, PassesOf, ArgsKept
<1> QED BY <1>1, PassInvariance, PTL

(* The script gets the environment of the start.                           *)
THEOREM EnvironmentIsRestored == Spec => []EnvRestored
<1>1. PInv => EnvRestored
  BY DEF PInv, Passes, PassesOf, EnvRestored
<1> QED BY <1>1, PassInvariance, PTL

-----------------------------------------------------------------------------
(* The text.  write_C encrypts the second test right after the text, so a  *)
(* run of xsh that gets the test right was in the right state before it.   *)

Op == {<<o, k>> : o \in {"key", "arc4"}, k \in Words \cup Shells \cup {NoShell, "pswd"}}

Sealed ==
  cc.at \in {"make", "ok"} =>
    /\ bin["text"].plain = "text" /\ bin["text"].at \in Seq(Op)
    /\ bin["tst2"].at = Append(bin["text"].at, arc4("text"))

TextOf(r) == r.at \in {"exec", "script"} => r.text = "text"

TextInv == Sealed /\ \A p \in Pids : TextOf(proc[p])

(* The first elements of a list, and one more.                             *)
LEMMA PrefixAppend ==
  ASSUME NEW S, NEW s \in Seq(S), NEW n \in Nat, n < Len(s)
  PROVE  /\ SubSeq(s, 1, n) \in Seq(S) /\ Len(SubSeq(s, 1, n)) = n
         /\ s[n + 1] \in S
         /\ SubSeq(s, 1, n + 1) = Append(SubSeq(s, 1, n), s[n + 1])
<1> DEFINE t == SubSeq(s, 1, n)
           u == SubSeq(s, 1, n + 1)
           e == s[n + 1]
<1>0. Len(s) \in Nat /\ e \in S /\ \A i \in 1 .. n + 1 : s[i] \in S
  BY LenProperties, ElementOfSeq
<1>1. t \in Seq(S) /\ Len(t) = n /\ \A i \in 1 .. n : t[i] = s[i]
  <2>1. \A i \in 1 .. n : s[i] \in S
    BY <1>0
  <2>2. /\ t \in Seq(S) /\ Len(t) = IF 1 <= n THEN n - 1 + 1 ELSE 0
        /\ \A i \in 1 .. n - 1 + 1 : t[i] = s[1 + i - 1]
    BY <2>1, SubSeqProperties
  <2> HIDE DEF t
  <2> QED BY <2>2
<1>2. u \in Seq(S) /\ Len(u) = n + 1 /\ \A i \in 1 .. n + 1 : u[i] = s[i]
  <2>1. \A i \in 1 .. n + 1 : s[i] \in S
    BY <1>0
  <2>2. /\ u \in Seq(S) /\ Len(u) = IF 1 <= n + 1 THEN n + 1 - 1 + 1 ELSE 0
        /\ \A i \in 1 .. n + 1 - 1 + 1 : u[i] = s[1 + i - 1]
    BY <2>1, SubSeqProperties
  <2> HIDE DEF u
  <2> QED BY <2>2
<1> DEFINE v == Append(t, e)
<1> HIDE DEF t, u, e
<1>3. /\ v \in Seq(S) /\ Len(v) = n + 1
      /\ (\A i \in 1 .. n : v[i] = t[i]) /\ v[n + 1] = e
  BY <1>0, <1>1, AppendProperties
<1>4. u = v
  <2> HIDE DEF v
  <2>1. \A i \in 1 .. Len(u) : u[i] = v[i]
    <3> TAKE i \in 1 .. Len(u)
    <3>1. CASE i = n + 1
      BY <1>2, <1>3, <3>1 DEF e
    <3>2. CASE i \in 1 .. n
      BY <1>1, <1>2, <1>3, <3>2
    <3> QED BY <1>2, <3>1, <3>2
  <2> QED BY <1>2, <1>3, <2>1, SeqEqual
<1> QED BY <1>0, <1>1, <1>4 DEF t, u, v, e

(* A list that begins with t, a and b begins with t and a.                 *)
LEMMA ShorterPrefix ==
  ASSUME NEW S, NEW s \in Seq(S), NEW t \in Seq(S), NEW a \in S, NEW b \in S,
         Len(Append(t, a)) < Len(s),
         SubSeq(s, 1, Len(Append(t, a)) + 1) = Append(Append(t, a), b)
  PROVE  Len(t) < Len(s) /\ SubSeq(s, 1, Len(t) + 1) = Append(t, a)
<1> DEFINE ta == Append(t, a)
           tab == Append(ta, b)
           n == Len(ta)
           f == SubSeq(s, 1, n)
           e == s[n + 1]
<1>1. ta \in Seq(S) /\ n = Len(t) + 1 /\ Len(t) \in Nat /\ n \in Nat
  BY AppendProperties, LenProperties
<1>2. f \in Seq(S) /\ Len(f) = n /\ e \in S /\ tab = Append(f, e)
  BY <1>1, PrefixAppend
<1> HIDE DEF ta, f, e
<1>3. /\ \A i \in 1 .. n : tab[i] = ta[i]
      /\ \A i \in 1 .. n : Append(f, e)[i] = f[i]
  <2>1. \A q \in Seq(S), c \in S : \A i \in 1 .. Len(q) : Append(q, c)[i] = q[i]
    BY ONLY AppendProperties
  <2>2. \A i \in 1 .. Len(ta) : Append(ta, b)[i] = ta[i]
    BY <1>1, <2>1, Zenon
  <2>3. \A i \in 1 .. Len(f) : Append(f, e)[i] = f[i]
    BY <1>2, <2>1, Zenon
  <2> QED
    BY <1>2, <2>2, <2>3, Zenon
<1>4. \A i \in 1 .. Len(f) : f[i] = ta[i]
  <2> HIDE DEF tab
  <2> QED BY <1>2, <1>3
<1>5. f = ta
  <2> HIDE DEF tab
  <2> QED BY <1>1, <1>2, <1>4, SeqEqual
<1>6. f = SubSeq(s, 1, Len(t) + 1)
  BY <1>1 DEF f
<1> QED BY <1>1, <1>5, <1>6, LenProperties DEF ta

(* An element of neither list is in none of the concatenation.             *)
LEMMA InNeither ==
  ASSUME NEW S, NEW A \in Seq(S), NEW B \in Seq(S), NEW y,
         \A i \in 1 .. Len(A) : A[i] # y, \A i \in 1 .. Len(B) : B[i] # y
  PROVE  /\ A \o B \in Seq(S) /\ Len(A \o B) = Len(A) + Len(B)
         /\ \A i \in 1 .. Len(A) + Len(B) : (A \o B)[i] # y
<1>0. Len(A) \in Nat /\ Len(B) \in Nat
  BY LenProperties
<1> DEFINE AB == A \o B
<1>1. /\ AB \in Seq(S) /\ Len(AB) = Len(A) + Len(B)
      /\ \A i \in 1 .. Len(A) + Len(B) : AB[i] = IF i <= Len(A) THEN A[i] ELSE B[i - Len(A)]
  BY ConcatProperties
<1> HIDE DEF AB
<1>2. \A i \in 1 .. Len(A) + Len(B) : AB[i] # y
  <2> TAKE i \in 1 .. Len(A) + Len(B)
  <2>1. CASE i <= Len(A)
    <3>1. i \in 1 .. Len(A)
      BY <1>0, <2>1
    <3>2. AB[i] = A[i]
      BY <1>1, <2>1
    <3> QED BY <3>1, <3>2
  <2>2. CASE ~(i <= Len(A))
    <3>1. i - Len(A) \in 1 .. Len(B)
      BY <1>0, <2>2
    <3>2. AB[i] = B[i - Len(A)]
      BY <1>1, <2>2
    <3> QED BY <3>1, <3>2
  <2> QED BY <2>1, <2>2
<1> QED BY <1>1, <1>2 DEF AB

(* The elements of the second list follow those of the first.              *)
LEMMA InSecond ==
  ASSUME NEW S, NEW A \in Seq(S), NEW C \in Seq(S)
  PROVE  /\ A \o C \in Seq(S) /\ Len(A \o C) = Len(A) + Len(C) /\ Len(A) \in Nat
         /\ \A i \in 1 .. Len(A) : (A \o C)[i] = A[i]
         /\ \A i \in 1 .. Len(C) : (A \o C)[Len(A) + i] = C[i]
<1>0. Len(A) \in Nat /\ Len(C) \in Nat
  BY LenProperties
<1> DEFINE E == A \o C
<1>1. /\ E \in Seq(S) /\ Len(E) = Len(A) + Len(C)
      /\ \A i \in 1 .. Len(A) + Len(C) : E[i] = IF i <= Len(A) THEN A[i] ELSE C[i - Len(A)]
  BY ConcatProperties
<1> HIDE DEF E
<1>2. \A i \in 1 .. Len(A) : E[i] = A[i]
  BY <1>0, <1>1
<1>3. ASSUME NEW i \in 1 .. Len(C) PROVE E[Len(A) + i] = C[i]
  <2> DEFINE k == Len(A) + i
  <2>1. k \in 1 .. Len(A) + Len(C) /\ ~(k <= Len(A)) /\ k - Len(A) = i
    BY <1>0
  <2> HIDE DEF k
  <2>2. E[k] = C[i]
    BY <1>1, <2>1
  <2> QED BY <2>2 DEF k
<1> QED BY <1>0, <1>1, <1>2, <1>3 DEF E

(* The state in which x is encrypted, where its place is known.            *)
LEMMA StateBefore ==
  ASSUME NEW x, NEW E, NEW m \in Nat, m + 1 \in 1 .. Len(E),
         \A i \in 1 .. Len(E) : E[i] = arc4(x) <=> i = m + 1
  PROVE  StateAt(E, x) = SubSeq(E, 1, m)
<1>1. (CHOOSE i \in 1 .. Len(E) : E[i] = arc4(x)) = m + 1
  OBVIOUS
<1>2. (m + 1) - 1 = m
  OBVIOUS
<1>3. StateAt(E, x) = SubSeq(E, 1, (CHOOSE i \in 1 .. Len(E) : E[i] = arc4(x)) - 1)
  BY Zenon DEF StateAt
<1> QED BY <1>1, <1>2, <1>3, Zenon

(* A list of five.                                                         *)
LEMMA Five ==
  ASSUME NEW S, NEW a \in S, NEW b \in S, NEW c \in S, NEW d \in S, NEW e \in S
  PROVE  <<a, b, c, d, e>> \in Seq(S) /\ Len(<<a, b, c, d, e>>) = 5
  OBVIOUS

(* A list of twelve.                                                       *)
LEMMA Twelve ==
  ASSUME NEW S, NEW a \in S, NEW b \in S, NEW c \in S, NEW d \in S, NEW e \in S, NEW f \in S,
         NEW g \in S, NEW h \in S, NEW i \in S, NEW j \in S, NEW k \in S, NEW l \in S
  PROVE  <<a, b, c, d, e, f, g, h, i, j, k, l>> \in Seq(S)
         /\ Len(<<a, b, c, d, e, f, g, h, i, j, k, l>>) = 12
  OBVIOUS

(* The operations of write_C encrypt the text and, next, the second test.  *)
LEMMA TextThenTest ==
  ASSUME TypeOK
  PROVE  /\ StateAt(EncryptOps, "text") \in Seq(Op)
         /\ StateAt(EncryptOps, "tst2") = Append(StateAt(EncryptOps, "text"), arc4("text"))
<1>a. \A x \in Words : arc4(x) \in Op
  BY DEF Op, arc4
<1>b. \A w \in Words \cup Shells \cup {NoShell, "pswd"} : key(w) \in Op
  BY DEF Op, key
<1>c. \A x, k : arc4(x) # key(k)
  BY DEF arc4, key
<1>d. \A x, y : arc4(x) = arc4(y) => x = y
  BY DEF arc4
<1>e. /\ arc4("msg1") \in Op /\ arc4("date") \in Op /\ arc4("shll") \in Op /\ arc4("inlo") \in Op
      /\ arc4("xecc") \in Op /\ arc4("lsto") \in Op /\ arc4("tst1") \in Op /\ arc4("chk1") \in Op
      /\ arc4("msg2") \in Op /\ arc4("rlax") \in Op /\ arc4("opts") \in Op /\ arc4("text") \in Op
      /\ arc4("tst2") \in Op /\ arc4("chk2") \in Op
  <2>1. \A x \in Arrays : arc4(x) \in Op
    BY <1>a, OwnWords
  <2> QED BY <2>1 DEF Arrays
<1>f. key("pswd") \in Op /\ key("location has changed!") \in Op /\ key("shell has changed!") \in Op
  BY <1>b, OwnWords
<1> DEFINE A == <<key("pswd"), arc4("msg1"), arc4("date"), arc4("shll"), arc4("inlo"),
                  arc4("xecc"), arc4("lsto"), arc4("tst1"), key("location has changed!"),
                  arc4("chk1"), arc4("msg2"), arc4("rlax")>>
           B == IF cc.rlax THEN <<>> ELSE key_with_file
           C == <<arc4("opts"), arc4("text"), arc4("tst2"), key("shell has changed!"), arc4("chk2")>>
           AB == A \o B
           E == AB \o C
           n == Len(AB)
<1>1. /\ A \in Seq(Op) /\ \A i \in 1 .. Len(A) : A[i] # arc4("text") /\ A[i] # arc4("tst2")
  <2>1. A \in Seq(Op) /\ Len(A) = 12
    BY <1>e, <1>f, Twelve
  <2>2. \A i \in 1 .. 12 : A[i] # arc4("text") /\ A[i] # arc4("tst2")
    <3> TAKE i \in 1 .. 12
    <3>1. /\ A[1] = key("pswd") /\ A[2] = arc4("msg1") /\ A[3] = arc4("date")
          /\ A[4] = arc4("shll") /\ A[5] = arc4("inlo") /\ A[6] = arc4("xecc")
          /\ A[7] = arc4("lsto") /\ A[8] = arc4("tst1")
          /\ A[9] = key("location has changed!") /\ A[10] = arc4("chk1")
          /\ A[11] = arc4("msg2") /\ A[12] = arc4("rlax")
      OBVIOUS
    <3> HIDE DEF A
    <3>2. \/ i = 1 \/ i = 2 \/ i = 3 \/ i = 4 \/ i = 5 \/ i = 6 \/ i = 7 \/ i = 8 \/ i = 9
          \/ i = 10 \/ i = 11 \/ i = 12
      OBVIOUS
    <3>3. \A x \in Arrays \ {"text", "tst2"} : arc4(x) # arc4("text") /\ arc4(x) # arc4("tst2")
      BY <1>d
    <3>4. \/ A[i] = key("pswd") \/ A[i] = key("location has changed!")
          \/ \E x \in Arrays \ {"text", "tst2"} : A[i] = arc4(x)
      BY <3>1, <3>2, Zenon DEF Arrays
    <3> QED BY <1>c, <3>3, <3>4, Zenon
  <2> QED BY <2>1, <2>2
<1>2. B \in Seq(Op) /\ \A i \in 1 .. Len(B) : B[i] # arc4("text") /\ B[i] # arc4("tst2")
  BY <1>b, <1>c DEF key_with_file, TypeOK
<1>3. /\ C \in Seq(Op) /\ Len(C) = 5
      /\ \A i \in 1 .. 5 : C[i] = arc4("text") <=> i = 2
      /\ \A i \in 1 .. 5 : C[i] = arc4("tst2") <=> i = 3
  <2>1. C \in Seq(Op) /\ Len(C) = 5
    BY <1>e, <1>f, Five
  <2>2. /\ C[1] = arc4("opts") /\ C[2] = arc4("text") /\ C[3] = arc4("tst2")
        /\ C[4] = key("shell has changed!") /\ C[5] = arc4("chk2")
    OBVIOUS
  <2>3. /\ arc4("opts") # arc4("text") /\ arc4("tst2") # arc4("text") /\ arc4("chk2") # arc4("text")
        /\ arc4("opts") # arc4("tst2") /\ arc4("chk2") # arc4("tst2")
    BY <1>d
  <2>4. \A i \in 1 .. 5 : i = 1 \/ i = 2 \/ i = 3 \/ i = 4 \/ i = 5
    OBVIOUS
  <2> HIDE DEF C
  <2>5. \A i \in 1 .. 5 : C[i] = arc4("text") <=> i = 2
    BY <1>c, <2>2, <2>3, <2>4, Zenon
  <2>6. \A i \in 1 .. 5 : C[i] = arc4("tst2") <=> i = 3
    BY <1>c, <2>2, <2>3, <2>4, Zenon
  <2> QED BY <2>1, <2>5, <2>6
<1>4. EncryptOps = E
  BY DEF EncryptOps
<1> HIDE DEF A, B, C
<1>g. /\ AB \in Seq(Op)
      /\ \A i \in 1 .. Len(AB) : AB[i] # arc4("text") /\ AB[i] # arc4("tst2")
  BY <1>1, <1>2, InNeither
<1> HIDE DEF AB
<1>h. n = Len(AB)
  OBVIOUS
<1> HIDE DEF n
<1>i. /\ E \in Seq(Op) /\ Len(E) = n + 5 /\ n \in Nat
      /\ \A i \in 1 .. n : E[i] = AB[i]
      /\ \A i \in 1 .. 5 : E[n + i] = C[i]
  <2>1. /\ E \in Seq(Op) /\ Len(E) = Len(AB) + Len(C) /\ Len(AB) \in Nat
        /\ \A i \in 1 .. Len(AB) : E[i] = AB[i]
        /\ \A i \in 1 .. Len(C) : E[Len(AB) + i] = C[i]
    <3>1. PICK s, t : s = AB /\ t = C
      OBVIOUS
    <3>2. s \in Seq(Op) /\ t \in Seq(Op)
      BY <1>3, <1>g, <3>1
    <3>3. /\ s \o t \in Seq(Op) /\ Len(s \o t) = Len(s) + Len(t) /\ Len(s) \in Nat
          /\ \A i \in 1 .. Len(s) : (s \o t)[i] = s[i]
          /\ \A i \in 1 .. Len(t) : (s \o t)[Len(s) + i] = t[i]
      BY <3>2, InSecond
    <3> QED BY <3>1, <3>3, Zenon
  <2> HIDE DEF E
  <2> QED BY <1>3, <1>h, <2>1
<1> HIDE DEF E
<1>j. ASSUME NEW i \in 1 .. n + 5
      PROVE  (E[i] = arc4("text") <=> i = n + 2) /\ (E[i] = arc4("tst2") <=> i = n + 3)
  <2>1. CASE i <= n
    <3>1. i \in 1 .. n /\ i # n + 2 /\ i # n + 3
      BY <1>i, <2>1
    <3> QED BY <1>g, <1>h, <1>i, <3>1
  <2>2. CASE ~(i <= n)
    <3>1. PICK k \in 1 .. 5 : i = n + k
      <4>1. i - n \in 1 .. 5 /\ i = n + (i - n)
        BY <1>i, <2>2
      <4> QED BY <4>1
    <3>2. E[i] = C[k]
      BY <1>i, <3>1
    <3>3. (i = n + 2 <=> k = 2) /\ (i = n + 3 <=> k = 3)
      BY <1>i, <3>1
    <3> QED BY <1>3, <3>2, <3>3
  <2> QED BY <2>1, <2>2
<1>5. /\ E \in Seq(Op) /\ Len(E) = n + 5 /\ n \in Nat
      /\ \A i \in 1 .. n + 5 : E[i] = arc4("text") <=> i = n + 2
  BY <1>i, <1>j
<1>6. \A i \in 1 .. n + 5 : E[i] = arc4("tst2") <=> i = n + 3
  BY <1>j
<1>7. StateAt(E, "text") = SubSeq(E, 1, n + 1)
  <2> DEFINE m == n + 1
  <2>1. m \in Nat /\ m + 1 = n + 2 /\ m + 1 \in 1 .. Len(E)
    BY <1>5
  <2> HIDE DEF m
  <2>2. \A i \in 1 .. Len(E) : E[i] = arc4("text") <=> i = m + 1
    BY <1>5, <2>1
  <2>3. StateAt(E, "text") = SubSeq(E, 1, m)
    BY <2>1, <2>2, StateBefore
  <2> QED BY <2>3 DEF m
<1>8. StateAt(E, "tst2") = SubSeq(E, 1, n + 2)
  <2> DEFINE m == n + 2
  <2>1. m \in Nat /\ m + 1 = n + 3 /\ m + 1 \in 1 .. Len(E)
    BY <1>5
  <2> HIDE DEF m
  <2>2. \A i \in 1 .. Len(E) : E[i] = arc4("tst2") <=> i = m + 1
    BY <1>5, <1>6, <2>1
  <2>3. StateAt(E, "tst2") = SubSeq(E, 1, m)
    BY <2>1, <2>2, StateBefore
  <2> QED BY <2>3 DEF m
<1>9. SubSeq(E, 1, n + 1) \in Seq(Op)
      /\ SubSeq(E, 1, n + 2) = Append(SubSeq(E, 1, n + 1), arc4("text"))
  <2> DEFINE m == n + 1
  <2>1. m \in Nat /\ m < Len(E) /\ m + 1 = n + 2 /\ E[m + 1] = arc4("text")
    BY <1>5
  <2> HIDE DEF m
  <2>2. SubSeq(E, 1, m) \in Seq(Op) /\ SubSeq(E, 1, m + 1) = Append(SubSeq(E, 1, m), E[m + 1])
    BY <1>5, <2>1, PrefixAppend
  <2> QED BY <2>1, <2>2, Zenon DEF m
<1> QED BY <1>4, <1>7, <1>8, <1>9

(* The operations of xsh.                                                  *)
LEMMA BodyOpsType == TypeOK => BodyOps \in Seq(Op)
<1> SUFFICES ASSUME TypeOK PROVE BodyOps \in Seq(Op)
  OBVIOUS
<1>a. \A x \in Arrays : arc4(x) \in Op
  <2>1. \A x \in Words : arc4(x) \in Op
    BY DEF Op, arc4
  <2> QED BY <2>1, OwnWords
<1>b. \A w \in Words \cup Shells \cup {NoShell, "pswd"} : key(w) \in Op
  BY DEF Op, key
<1>c. \A s, t \in Seq(Op) : s \o t \in Seq(Op)
  BY ConcatProperties
<1>1. PICK h : h = HeadOps
  OBVIOUS
<1>2. h \in Seq(Op)
  <2>1. /\ key("pswd") \in Op /\ arc4("msg1") \in Op /\ arc4("date") \in Op /\ arc4("shll") \in Op
        /\ arc4("inlo") \in Op /\ arc4("xecc") \in Op /\ arc4("lsto") \in Op /\ arc4("tst1") \in Op
    BY <1>a, <1>b DEF Arrays
  <2>2. <<key("pswd"), arc4("msg1"), arc4("date"), arc4("shll"), arc4("inlo"), arc4("xecc"),
          arc4("lsto"), arc4("tst1")>> \in Seq(Op)
    BY <2>1
  <2> QED BY <1>1, <2>2 DEF HeadOps
<1>3. PICK b : b = BranchOps
  OBVIOUS
<1>4. b \in Seq(Op)
  <2>1. PICK k : k = key(Plain(bin, HeadOps, "tst1"))
    OBVIOUS
  <2>2. Plain(bin, HeadOps, "tst1") \in Words
    BY PlainType DEF Arrays
  <2>3. k \in Op /\ arc4("chk1") \in Op /\ arc4("msg2") \in Op
    BY <1>a, <1>b, <2>1, <2>2 DEF Arrays
  <2>4. <<k, arc4("chk1"), arc4("msg2")>> \in Seq(Op)
    BY <2>3
  <2>5. b = h \o <<k, arc4("chk1"), arc4("msg2")>>
    BY <1>1, <1>3, <2>1, Zenon DEF BranchOps
  <2> QED BY <1>2, <1>c, <2>4, <2>5, Zenon
<1>5. PICK t : t = TextOps
  OBVIOUS
<1>6. t \in Seq(Op)
  <2>1. PICK f : f = IF Plain(bin, Append(BranchOps, arc4("rlax")), "rlax") = ""
                       THEN key_with_file ELSE <<>>
    OBVIOUS
  <2>2. key_with_file \in Seq(Op)
    <3>1. key(shell) \in Op
      BY <1>b DEF TypeOK
    <3> QED BY <3>1 DEF key_with_file
  <2>3. f \in Seq(Op)
    <3>1. f = key_with_file \/ f = <<>>
      BY <2>1, Zenon
    <3> QED BY <2>2, <3>1, EmptySeq
  <2>4. /\ <<arc4("rlax")>> \in Seq(Op)
        /\ <<arc4("opts"), arc4("text"), arc4("tst2")>> \in Seq(Op)
    <3>1. arc4("rlax") \in Op /\ arc4("opts") \in Op /\ arc4("text") \in Op /\ arc4("tst2") \in Op
      BY <1>a DEF Arrays
    <3> QED BY <3>1
  <2>5. t = b \o <<arc4("rlax")>> \o f \o <<arc4("opts"), arc4("text"), arc4("tst2")>>
    BY <1>3, <1>5, <2>1, Zenon DEF TextOps
  <2>6. b \o <<arc4("rlax")>> \in Seq(Op)
    BY <1>4, <1>c, <2>4, Zenon
  <2>7. b \o <<arc4("rlax")>> \o f \in Seq(Op)
    BY <1>c, <2>3, <2>6, Zenon
  <2> QED BY <1>c, <2>4, <2>5, <2>7, Zenon
<1>7. PICK k : k = key(Plain(bin, TextOps, "tst2"))
  OBVIOUS
<1>8. k \in Op /\ arc4("chk2") \in Op
  <2>1. Plain(bin, TextOps, "tst2") \in Words
    BY PlainType DEF Arrays
  <2> QED BY <1>a, <1>b, <1>7, <2>1 DEF Arrays
<1>9. <<k, arc4("chk2")>> \in Seq(Op)
  BY <1>8
<1>10. BodyOps = t \o <<k, arc4("chk2")>>
  BY <1>5, <1>7, Zenon DEF BodyOps
<1> QED BY <1>6, <1>9, <1>10, <1>c, Zenon

(* A program that passes its second test has the text right.               *)
LEMMA TextRecovered ==
  ASSUME TypeOK, Sealed, cc.at = "ok", Checked
  PROVE  Plain(bin, BodyOps, "text") = "text"
<1>1. PICK s, t, a, b : s = BodyOps /\ t = bin["text"].at /\ a = arc4("text") /\ b = arc4("tst2")
  OBVIOUS
<1>2. s \in Seq(Op) /\ t \in Seq(Op) /\ bin["text"].plain = "text" /\ bin["tst2"].at = Append(t, a)
  BY <1>1, BodyOpsType DEF Sealed
<1>3. a \in Op /\ b \in Op
  <2>1. "text" \in Words /\ "tst2" \in Words
    BY OwnWords DEF Arrays
  <2> QED BY <1>1, <2>1 DEF Op, arc4
<1>4. Plain(bin, s, "tst2") # Garbage
  BY <1>1 DEF Checked, Same
<1>5. /\ Len(Append(t, a)) < Len(s)
      /\ SubSeq(s, 1, Len(Append(t, a)) + 1) = Append(Append(t, a), b)
  BY <1>1, <1>2, <1>4, Zenon DEF Plain
<1>6. Len(t) < Len(s) /\ SubSeq(s, 1, Len(t) + 1) = Append(t, a)
  BY <1>2, <1>3, <1>5, ShorterPrefix
<1>7. Plain(bin, s, "text") = bin["text"].plain
  BY <1>1, <1>6, Zenon DEF Plain
<1> QED BY <1>1, <1>2, <1>7

(* write_C seals the text; nothing else changes the program.               *)
LEMMA SealedKept ==
  ASSUME TypeOK, Sealed, [Next]_vars
  PROVE  Sealed'
<1>1. CASE WriteC
  <2>1. CASE bin' = [x \in Arrays |-> [at |-> StateAt(EncryptOps, x), plain |-> PlainText[x]]]
    <3>1. /\ bin'["text"].at = StateAt(EncryptOps, "text")
          /\ bin'["tst2"].at = StateAt(EncryptOps, "tst2")
          /\ bin'["text"].plain = PlainText["text"]
      BY <2>1 DEF Arrays
    <3>2. PlainText["text"] = "text"
      BY DEF PlainText, Arrays
    <3> QED BY <3>1, <3>2, TextThenTest DEF Sealed
  <2>2. CASE cc'.at = "failed"
    BY <2>2 DEF Sealed
  <2>3. cc \in Compiler
    BY DEF TypeOK
  <2> QED BY <1>1, <2>1, <2>2, <2>3 DEF WriteC, Compiler
<1>2. CASE ParseArgs \/ ReadScript \/ EvalShell
  <2>1. cc'.at \notin {"make", "ok"}
    <3>1. cc \in Compiler
      BY DEF TypeOK
    <3>2. CASE ParseArgs
      <4>1. CASE cc.line # <<>>
        <5>1. PICK o : o = Head(cc.line)
          OBVIOUS
        <5>2. cc' = [ParseAnArg(cc, o) EXCEPT !.line = Tail(cc.line)] /\ cc.at = "args"
          BY <3>2, <4>1, <5>1 DEF ParseArgs
        <5>3. ParseAnArg(cc, o).at \in {"args", "shown"}
          BY <3>1, <5>2 DEF ParseAnArg, Compiler
        <5>4. cc'.at = ParseAnArg(cc, o).at
          BY <3>1, <5>2 DEF ParseAnArg, Compiler
        <5> QED BY <5>3, <5>4
      <4>2. CASE cc.line = <<>>
        BY <3>1, <3>2, <4>2 DEF ParseArgs, Compiler
      <4> QED BY <4>1, <4>2
    <3>3. CASE ReadScript
      BY <3>1, <3>3 DEF ReadScript, Compiler
    <3>4. CASE EvalShell
      <4>1. PICK c : c = WithShell(cc)
        OBVIOUS
      <4>2. Evaluated(c).at \in {"failed", "write"}
        BY <3>1, <4>1 DEF Evaluated, WithShell, Compiler
      <4>3. cc' \in {[cc EXCEPT !.at = "failed"], [cc EXCEPT !.at = "crashed"], Evaluated(c)}
        BY <3>1, <3>4, <4>1 DEF EvalShell, Compiler, Script
      <4> QED BY <3>1, <4>2, <4>3 DEF Compiler
    <3> QED BY <1>2, <3>2, <3>3, <3>4
  <2> QED BY <2>1 DEF Sealed
<1>3. CASE Make
  <2>1. bin' = bin /\ cc.at = "make"
    BY <1>3 DEF Make
  <2> QED BY <2>1 DEF Sealed
<1>4. CASE cc' = cc /\ bin' = bin
  BY <1>4 DEF Sealed
<1>5. ASSUME NEW p \in Pids, Run(p) \/ Ends(p) PROVE cc' = cc /\ bin' = bin
  BY <1>5 DEF Run, Ends, untraceable, chkenv, DecryptHead, DecryptBody, Reexecute, Execute, Return, Step
<1>6. ASSUME NEW p \in Pids, NEW q \in Pids, NEW args \in ArgLists, NEW env,
             Start(p, args, env) \/ ScriptExecs(p, args) \/ ScriptForks(p, q, args)
      PROVE  cc' = cc /\ bin' = bin
  BY <1>6 DEF Start, ScriptExecs, ScriptForks
<1>7. CASE ShellChanges \/ Expires \/ UNCHANGED vars
  BY <1>4, <1>7 DEF ShellChanges, Expires, vars
<1> QED BY <1>1, <1>2, <1>3, <1>4, <1>5, <1>6, <1>7 DEF Next, Compile, Over

(* A step that leaves a process with the right text, or without one.       *)
LEMMA StepText ==
  ASSUME TypeOK, \A q \in Pids : TextOf(proc[q]), NEW p \in Pids, NEW r, TextOf(r),
         proc' = [proc EXCEPT ![p] = r]
  PROVE  \A q \in Pids : TextOf(proc'[q])
  BY DEF TypeOK

(* Only the second pass, after its test, puts the text in hand.            *)
LEMMA TextKept ==
  ASSUME PInv, TextInv, [Next]_vars
  PROVE  \A q \in Pids : TextOf(proc'[q])
<1>0. TypeOK /\ (\A q \in Pids : TextOf(proc[q])) /\ \A q \in Pids : proc[q] \in Process
  BY DEF PInv, TextInv, TypeOK
<1>1. ASSUME NEW p \in Pids, NEW msg, Return(p, msg) PROVE \A q \in Pids : TextOf(proc'[q])
  <2>1. PICK r : r = [proc[p] EXCEPT !.at = "ended", !.msg = msg]
    OBVIOUS
  <2>2. TextOf(r)
    BY <1>0, <2>1 DEF TextOf, Process
  <2> QED BY <1>0, <1>1, <2>1, <2>2, StepText DEF Return, Step
<1>2. ASSUME NEW p \in Pids, NEW r, Step(p, r), TextOf(r) PROVE \A q \in Pids : TextOf(proc'[q])
  BY <1>0, <1>2, StepText DEF Step
<1>3. ASSUME NEW p \in Pids, untraceable(p) PROVE \A q \in Pids : TextOf(proc'[q])
  <2>1. TextOf([proc[p] EXCEPT !.at = "main"])
    BY <1>0 DEF TextOf, Process
  <2> QED BY <1>1, <1>2, <1>3, <2>1 DEF untraceable
<1>4. ASSUME NEW p \in Pids, chkenv(p) PROVE \A q \in Pids : TextOf(proc'[q])
  <2>1. ASSUME NEW n, NEW e PROVE TextOf([proc[p] EXCEPT !.at = "head", !.ret = n, !.env = e])
    BY <1>0 DEF TextOf, Process
  <2>2. TextOf([proc[p] EXCEPT !.at = "head", !.ret = -1])
    BY <1>0 DEF TextOf, Process
  <2>3. CASE Step(p, [proc[p] EXCEPT !.at = "head", !.ret = -1])
    BY <1>2, <2>2, <2>3
  <2>4. CASE \E n, e : Step(p, [proc[p] EXCEPT !.at = "head", !.ret = n, !.env = e])
    BY <1>2, <2>1, <2>4
  <2> QED BY <1>4, <2>3, <2>4, Zenon DEF chkenv
<1>5. ASSUME NEW p \in Pids, DecryptHead(p) PROVE \A q \in Pids : TextOf(proc'[q])
  <2>1. TextOf([proc[p] EXCEPT !.at = IF proc[p].ret = 0 THEN "reexec" ELSE "body"])
    BY <1>0 DEF TextOf, Process
  <2> QED BY <1>1, <1>2, <1>5, <2>1 DEF DecryptHead
<1>6. ASSUME NEW p \in Pids, DecryptBody(p) PROVE \A q \in Pids : TextOf(proc'[q])
  <2>1. proc[p].at = "body" /\ cc.at = "ok"
    BY <1>6 DEF DecryptBody, PInv, Passes, PassesOf
  <2>2. Checked => TextOf([proc[p] EXCEPT !.at = "exec", !.text = Plain(bin, BodyOps, "text")])
    <3>1. Checked => Plain(bin, BodyOps, "text") = "text"
      BY <1>0, <2>1, TextRecovered DEF TextInv
    <3> QED BY <1>0, <3>1 DEF TextOf, Process
  <2> QED BY <1>1, <1>2, <1>6, <2>2 DEF DecryptBody
<1>7. ASSUME NEW p \in Pids, Reexecute(p) PROVE \A q \in Pids : TextOf(proc'[q])
  <2>1. PICK v : v = <<"me">> \o Positional(proc[p])
    OBVIOUS
  <2>2. TextOf([proc[p] EXCEPT !.at = Main, !.argv = v])
    BY <1>0, MainIs DEF TextOf, Process
  <2> QED BY <1>1, <1>2, <1>7, <2>1, <2>2 DEF Reexecute
<1>8. ASSUME NEW p \in Pids, Execute(p) PROVE \A q \in Pids : TextOf(proc'[q])
  <2>1. PICK v : v = Positional(proc[p])
    OBVIOUS
  <2>2. proc[p].at = "exec" /\ proc[p].text = "text"
    BY <1>0, <1>8 DEF Execute, TextOf
  <2>3. TextOf([proc[p] EXCEPT !.at = "script", !.argv = v])
    BY <1>0, <2>2 DEF TextOf, Process
  <2> QED BY <1>1, <1>2, <1>8, <2>1, <2>3 DEF Execute
<1>9. ASSUME NEW p \in Pids, Ends(p) PROVE \A q \in Pids : TextOf(proc'[q])
  <2>1. TextOf(Free)
    BY FreeIsProcess DEF TextOf
  <2> QED BY <1>2, <1>9, <2>1 DEF Ends
<1>10. ASSUME NEW p \in Pids, NEW args, NEW env, proc' = [proc EXCEPT ![p] = Started(args, env)]
       PROVE  \A q \in Pids : TextOf(proc'[q])
  <2>1. Started(args, env).at = Main
    BY DEF Started, Free
  <2>2. TextOf(Started(args, env))
    BY <2>1, MainIs DEF TextOf
  <2> QED BY <1>0, <1>10, <2>2, StepText
<1>11. ASSUME NEW p \in Pids, NEW q \in Pids, NEW args \in ArgLists, NEW env,
              Start(p, args, env) \/ ScriptExecs(p, args) \/ ScriptForks(p, q, args)
       PROVE  \A o \in Pids : TextOf(proc'[o])
  BY <1>10, <1>11 DEF Start, ScriptExecs, ScriptForks
<1>12. CASE Compile \/ ShellChanges \/ Expires \/ UNCHANGED vars
  <2>1. proc' = proc
    BY <1>12 DEF Compile, ParseArgs, ReadScript, EvalShell, WriteC, Make, ShellChanges, Expires, vars
  <2> QED BY <1>0, <2>1
<1>13. ASSUME NEW p \in Pids, Run(p) PROVE \A q \in Pids : TextOf(proc'[q])
  BY <1>3, <1>4, <1>5, <1>6, <1>7, <1>8, <1>13 DEF Run
<1> QED BY <1>9, <1>11, <1>12, <1>13 DEF Next, Over

(* The shell gets nothing to run but the script that was compiled, however *)
(* often the shell file is replaced or removed while programs run.         *)
THEOREM OnlyTheScriptRuns == Spec => []ScriptAsWritten
<1>1. Init => TextInv
  <2> SUFFICES ASSUME Init PROVE TextInv
    OBVIOUS
  <2>1. cc.at = "args"
    <3>1. PICK line \in CommandLines, s \in Scripts :
            cc = [at |-> "args", line |-> line, script |-> s, file |-> FALSE, err |-> FALSE,
                  inlo |-> Unset, xecc |-> Unset, lsto |-> Unset, opts |-> "",
                  rlax |-> FALSE, date |-> FALSE, traceable |-> TRUE]
      BY DEF Init
    <3> QED BY <3>1
  <2>2. \A p \in Pids : proc[p] = Free
    BY DEF Init
  <2> QED BY <2>1, <2>2, FreeIsProcess DEF TextInv, Sealed, TextOf
<1>2. PInv /\ TextInv /\ [Next]_vars => TextInv'
  <2> SUFFICES ASSUME PInv, TextInv, [Next]_vars PROVE TextInv'
    OBVIOUS
  <2>1. Sealed'
    BY SealedKept DEF PInv, TextInv
  <2>2. \A q \in Pids : TextOf(proc'[q])
    BY TextKept
  <2> QED BY <2>1, <2>2 DEF TextInv, TextOf
<1>3. TextInv => ScriptAsWritten
  BY DEF TextInv, TextOf, ScriptAsWritten
<1> QED BY <1>1, <1>2, <1>3, PassInvariance, PTL DEF Spec
=============================================================================
