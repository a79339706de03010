----------------------------- MODULE AkbProgram -----------------------------
(***************************************************************************)
(* akb_cc, which makes a program from a script, and the programs it makes. *)
(*                                                                         *)
(* Such a program runs in two passes with the same process id: the first   *)
(* leaves a variable in the environment and has the shell execute it       *)
(* again, the second removes the variable and hands the script over to     *)
(* the shell.  A script may start compiled programs itself, as akb's own   *)
(* build scripts do.                                                       *)
(*                                                                         *)
(* The cipher is symbolic: its state is the sequence of operations since   *)
(* stte_0, and arc4 gives back what was encrypted exactly when it is in    *)
(* the state of the encryption.                                            *)
(***************************************************************************)
EXTENDS Integers, Sequences

CONSTANTS
  Words,        \* the strings
  CommandLines, \* options of akb_cc, in order
  Scripts,      \* scripts to compile
  ArgLists,     \* arguments that programs are started with
  Pids,         \* process ids, used again and again
  Taken,        \* process ids whose variable a user may have set
  Shells,       \* identities (inode, size, times) the shell file may have
  NoShell,      \* the shell file does not exist
  Faults,       \* TRUE: files, compiler and memory may be missing
  MaxStarts,    \* bound on the number of starts of the program
  MaxChanges    \* bound on the number of times the shell is replaced

(* What eval_shell sees of a script: the first line is no #! line (or has  *)
(* too many words), names a shell without a path, or is in order; the      *)
(* shell is in shellsDB, with the last option lsto; opt is its option.     *)
(* long: its length is near the system's limit on arguments, of which      *)
(* read_script only warns.                                                 *)
Script == [first : {"invalid", "noslash", "ok"}, known : BOOLEAN,
           lsto : Words, opt : Words, long : BOOLEAN]

Garbage == "garbage"
Unset == "unset"

Arrays == {"msg1", "date", "shll", "inlo", "xecc", "lsto", "tst1", "chk1", "msg2",
           "rlax", "opts", "text", "tst2", "chk2"}

(* Strings that occur in akb_cc and its programs.                          *)
Literals ==
  Arrays \cup {"", Garbage, Unset, "me", "-c", "exec", "--", "relaxed", "<null>",
              "has expired!", "abnormal behavior!", "location has changed!",
              "shell has changed!", "traced"}

ASSUME ProgramAssumption ==
  /\ Literals \subseteq Words
  /\ CommandLines \subseteq Seq(Words)
  /\ Scripts \subseteq Script
  /\ ArgLists \subseteq Seq(Words)
  /\ Taken \subseteq Pids /\ NoShell \notin Shells
  /\ Faults \in BOOLEAN /\ MaxStarts \in Nat /\ MaxChanges \in Nat

-----------------------------------------------------------------------------
(* The cipher *)

key(k) == <<"key", k>>
arc4(x) == <<"arc4", x>>

(* The state in which a run of operations encrypts x.                      *)
StateAt(ops, x) ==
  LET i == CHOOSE i \in 1 .. Len(ops) : ops[i] = arc4(x) IN SubSeq(ops, 1, i - 1)

(* What a run of operations makes of x in the program b: the run must      *)
(* begin with the operations before the encryption of x, and then x.       *)
Plain(b, ops, x) ==
  LET n == Len(b[x].at)
  IN  IF n < Len(ops) /\ SubSeq(ops, 1, n + 1) = Append(b[x].at, arc4(x))
        THEN b[x].plain ELSE Garbage

(* memcmp of a test string with its encrypted copy: two strings decrypted  *)
(* with the wrong key are never the same.                                  *)
Same(s, t) == s = t /\ s # Garbage

-----------------------------------------------------------------------------
VARIABLES
  cc,      \* akb_cc
  bin,     \* the program it made
  shell,   \* identity of the shell file, or NoShell
  expired, \* the expiration date is over
  proc,    \* the processes that run the program
  starts, changes  \* counted for the bounds

vars == <<cc, bin, shell, expired, proc, starts, changes>>

NoProgram == [x \in Arrays |-> [at |-> <<>>, plain |-> ""]]

(* ret: the result of chkenv; text: what the shell is told to run; given   *)
(* and inherited (history): the arguments and the environment of the start.*)
Free == [at |-> "free", argv |-> <<>>, env |-> {}, ret |-> 0, text |-> "",
         given |-> <<>>, inherited |-> {}, msg |-> ""]

Init ==
  /\ \E line \in CommandLines, s \in Scripts :
       cc = [at |-> "args", line |-> line, script |-> s, file |-> FALSE, err |-> FALSE,
             inlo |-> Unset, xecc |-> Unset, lsto |-> Unset, opts |-> "",
             rlax |-> FALSE, date |-> FALSE, traceable |-> TRUE]
  /\ bin = NoProgram
  /\ shell \in Shells
  /\ expired = FALSE
  /\ proc = [p \in Pids |-> Free]
  /\ starts = 0 /\ changes = 0

-----------------------------------------------------------------------------
(* akb_cc *)

(* The effect of one option.  A date after -e that is not valid (e?) is    *)
(* an error, as an unknown option is.                                      *)
ParseAnArg(c, o) ==
  CASE o = "e" -> [c EXCEPT !.date = TRUE]
    [] o = "f" -> IF c.file THEN [c EXCEPT !.err = TRUE] ELSE [c EXCEPT !.file = TRUE]
    [] o = "i" -> [c EXCEPT !.inlo = "-c"]
    [] o = "x" -> [c EXCEPT !.xecc = "exec"]
    [] o = "l" -> [c EXCEPT !.lsto = "--"]
    [] o = "r" -> [c EXCEPT !.rlax = TRUE]
    [] o = "U" -> [c EXCEPT !.traceable = FALSE]
    [] o \in {"m", "o", "v", "D", "B"} -> c
    [] o \in {"C", "A", "h"} -> [c EXCEPT !.at = "shown"]
    [] OTHER -> [c EXCEPT !.err = TRUE]

(* parse_args: an option that displays something ends akb_cc at once, an   *)
(* error only at the end.                                                  *)
ParseArgs ==
  /\ cc.at = "args"
  /\ IF cc.line # <<>>
       THEN cc' = [ParseAnArg(cc, Head(cc.line)) EXCEPT !.line = Tail(cc.line)]
       ELSE cc' = [cc EXCEPT !.at = IF cc.file /\ ~cc.err THEN "read" ELSE "failed"]
  /\ UNCHANGED <<bin, shell, expired, proc, starts, changes>>

ReadScript ==
  /\ cc.at = "read"
  /\ \/ cc' = [cc EXCEPT !.at = "eval"]
     \/ Faults /\ cc' = [cc EXCEPT !.at = "failed"]
  /\ UNCHANGED <<bin, shell, expired, proc, starts, changes>>

(* Options override shellsDB one by one.                                   *)
WithShell(c) ==
  LET default(option, value) == IF option = Unset /\ c.script.known THEN value ELSE option
  IN  [c EXCEPT !.inlo = default(@, "-c"), !.xecc = default(@, "exec"),
                !.lsto = default(@, c.script.lsto)]

(* The last checks of eval_shell.                                          *)
Evaluated(c) ==
  IF Unset \in {c.inlo, c.xecc, c.lsto} THEN [c EXCEPT !.at = "failed"]
  ELSE [c EXCEPT !.at = "write",
                 !.opts = IF c.script.opt \in {c.lsto, "-"} THEN "" ELSE c.script.opt]

(* strrchr finds no slash: the program reads address 0.                    *)
EvalShell ==
  /\ cc.at = "eval"
  /\ cc' = CASE cc.script.first = "invalid" -> [cc EXCEPT !.at = "failed"]
             [] cc.script.first = "noslash" -> [cc EXCEPT !.at = "crashed"]
             [] cc.script.first = "ok" -> Evaluated(WithShell(cc))
  /\ UNCHANGED <<bin, shell, expired, proc, starts, changes>>

(* The shell file's invariants are the key; without the file it fails.     *)
key_with_file == <<key(shell)>>

(* The operations of write_C.                                              *)
EncryptOps ==
  <<key("pswd"), arc4("msg1"), arc4("date"), arc4("shll"), arc4("inlo"), arc4("xecc"),
    arc4("lsto"), arc4("tst1"), key("location has changed!"), arc4("chk1"), arc4("msg2"),
    arc4("rlax")>>
  \o (IF cc.rlax THEN <<>> ELSE key_with_file)
  \o <<arc4("opts"), arc4("text"), arc4("tst2"), key("shell has changed!"), arc4("chk2")>>

PlainText ==
  [x \in Arrays |->
     CASE x = "date" -> IF cc.date THEN "date" ELSE ""
       [] x = "lsto" -> cc.lsto
       [] x = "opts" -> cc.opts
       [] x = "rlax" -> IF cc.rlax THEN "relaxed" ELSE ""
       [] x = "msg1" -> "has expired!"
       [] x = "msg2" -> "abnormal behavior!"
       [] x \in {"tst1", "chk1"} -> "location has changed!"
       [] x \in {"tst2", "chk2"} -> "shell has changed!"
       [] OTHER -> x]

WriteC ==
  /\ cc.at = "write"
  /\ \/ /\ cc.rlax \/ shell # NoShell
        /\ bin' = [x \in Arrays |-> [at |-> StateAt(EncryptOps, x), plain |-> PlainText[x]]]
        /\ cc' = [cc EXCEPT !.at = "make"]
     \/ /\ (~cc.rlax /\ shell = NoShell) \/ Faults
        /\ cc' = [cc EXCEPT !.at = "failed"] /\ UNCHANGED bin
  /\ UNCHANGED <<shell, expired, proc, starts, changes>>

(* make: only the compiler's status counts.                                *)
Make ==
  /\ cc.at = "make"
  /\ \/ cc' = [cc EXCEPT !.at = "ok"]
     \/ Faults /\ cc' = [cc EXCEPT !.at = "failed"]
  /\ UNCHANGED <<bin, shell, expired, proc, starts, changes>>

-----------------------------------------------------------------------------
(* The program *)

(* main, which is untraceable only when compiled so.                       *)
Main == IF cc.traceable THEN "main" ELSE "trace"

Started(args, env) ==
  [Free EXCEPT !.at = Main, !.argv = <<"me">> \o args, !.env = env,
               !.given = args, !.inherited = env]

(* A variable that chkenv cannot read as its own: another value under the  *)
(* name it looks for in process q.                                         *)
Foreign(q) == [mask |-> q, argc |-> -1]

(* A user starts the program, perhaps with such a variable.                *)
Start(p, args, env) ==
  /\ cc.at = "ok" /\ proc[p] = Free /\ starts < MaxStarts
  /\ proc' = [proc EXCEPT ![p] = Started(args, env)]
  /\ starts' = starts + 1
  /\ UNCHANGED <<cc, bin, shell, expired, changes>>

Step(p, r) ==
  /\ proc' = [proc EXCEPT ![p] = r]
  /\ UNCHANGED <<cc, bin, shell, expired, starts, changes>>

(* main prints what xsh returns and ends.                                  *)
Return(p, msg) == Step(p, [proc[p] EXCEPT !.at = "ended", !.msg = msg])

(* A child attaches to its parent as a tracer would, lets it go on and     *)
(* ends.  There may be no child, its end may be missed, and it kills the   *)
(* parent when it cannot attach: because a tracer has, or must not.        *)
untraceable(p) ==
  /\ proc[p].at = "trace"
  /\ \/ Step(p, [proc[p] EXCEPT !.at = "main"])
     \/ Faults /\ Return(p, "traced")

(* Mutant: the variable stays in the environment.                          *)
rmarg_Missing(env, v) == env

rmarg(env, v) == env \ {v}

(* Mutant: the program itself is not counted.                              *)
Skipped_OffByOne(argc, a) == argc - a

Skipped(argc, a) == 1 + (argc - a)

(* The name of the variable is a function of the process id, its value the *)
(* number of arguments.  A value that is none gives -1.                    *)
chkenv(p) ==
  /\ proc[p].at = "main"
  /\ LET r == proc[p]
         found == {v \in r.env : v.mask = p}
         argc == Len(r.argv)
     IN  \/ /\ found = {}
            /\ Step(p, [r EXCEPT !.at = "head", !.ret = 0,
                                 !.env = @ \cup {[mask |-> p, argc |-> argc]}])
         \/ \E v \in found \ {Foreign(p)} :
              Step(p, [r EXCEPT !.at = "head", !.ret = Skipped(argc, v.argc),
                                !.env = rmarg(@, v)])
         \/ Foreign(p) \in found /\ Step(p, [r EXCEPT !.at = "head", !.ret = -1])

(* Mutant: date and message are decrypted in another order.                *)
HeadOps_Swapped ==
  <<key("pswd"), arc4("date"), arc4("msg1"), arc4("shll"), arc4("inlo"), arc4("xecc"),
    arc4("lsto"), arc4("tst1")>>

(* The operations of xsh up to the first test, and up to the branch.       *)
HeadOps ==
  <<key("pswd"), arc4("msg1"), arc4("date"), arc4("shll"), arc4("inlo"), arc4("xecc"),
    arc4("lsto"), arc4("tst1")>>

BranchOps ==
  HeadOps \o <<key(Plain(bin, HeadOps, "tst1")), arc4("chk1"), arc4("msg2")>>

Decrypted(x) == Plain(bin, BranchOps, x)

(* Mutant: the date is looked at in the first pass only.                   *)
HasExpired_FirstPass(ret) == ret = 0 /\ Decrypted("date") # "" /\ expired

HasExpired(ret) == Decrypted("date") # "" /\ expired

(* xsh up to the branch on ret.                                            *)
DecryptHead(p) ==
  /\ proc[p].at = "head"
  /\ LET ret == proc[p].ret
         over == HasExpired(ret)
         intact == Same(Decrypted("tst1"), Decrypted("chk1"))
     IN  \/ over /\ Return(p, Decrypted("msg1"))
         \/ ~over /\ ~intact /\ Return(p, Decrypted("tst1"))
         \/ ~over /\ intact /\ ret < 0 /\ Return(p, Decrypted("msg2"))
         \/ ~over /\ intact /\ ret >= 0
            /\ Step(p, [proc[p] EXCEPT !.at = IF ret = 0 THEN "reexec" ELSE "body"])
         \/ ~over /\ intact /\ ret >= 0 /\ Faults /\ Return(p, "<null>")

(* The operations of the second pass, up to the second test and with it.   *)
TextOps ==
  BranchOps \o <<arc4("rlax")>>
  \o (IF Plain(bin, Append(BranchOps, arc4("rlax")), "rlax") = "" THEN key_with_file ELSE <<>>)
  \o <<arc4("opts"), arc4("text"), arc4("tst2")>>

BodyOps == TextOps \o <<key(Plain(bin, TextOps, "tst2")), arc4("chk2")>>

(* Mutant: the second test is not made.                                    *)
Checked_Dropped == TRUE

(* The strings decrypted after key_with_file are the right ones.           *)
Checked == Same(Plain(bin, BodyOps, "tst2"), Plain(bin, BodyOps, "chk2"))

DecryptBody(p) ==
  /\ proc[p].at = "body"
  /\ LET bound == Plain(bin, Append(BranchOps, arc4("rlax")), "rlax") = ""
         gone == bound /\ shell = NoShell
     IN  \/ gone /\ Return(p, Decrypted("shll"))
         \/ ~gone /\ ~Checked /\ Return(p, Plain(bin, BodyOps, "tst2"))
         \/ ~gone /\ Checked
            /\ Step(p, [proc[p] EXCEPT !.at = "exec", !.text = Plain(bin, BodyOps, "text")])
         \/ ~gone /\ Checked /\ Faults /\ Return(p, "<null>")

(* The arguments that follow the command of the shell.                     *)
Following(r) ==
  LET lsto == Decrypted("lsto")
      i == IF r.ret > 1 THEN r.ret ELSE 0
  IN  (IF lsto = "" THEN <<>> ELSE <<lsto>>) \o SubSeq(r.argv, i + 1, Len(r.argv))

(* What the shell makes its positional parameters: the first of them is $0.*)
Positional(r) == IF Following(r) = <<>> THEN <<>> ELSE Tail(Following(r))

(* First pass: the shell executes the program again, with "$@".            *)
Reexecute(p) ==
  /\ proc[p].at = "reexec"
  /\ \/ /\ shell # NoShell
        /\ Step(p, [proc[p] EXCEPT !.at = Main, !.argv = <<"me">> \o Positional(proc[p])])
     \/ shell = NoShell /\ Return(p, Decrypted("shll"))

(* Second pass: the shell runs the script.  execvp fails without a shell,  *)
(* and may fail if the script, which is one of its arguments, is long.     *)
Execute(p) ==
  /\ proc[p].at = "exec"
  /\ \/ /\ shell # NoShell
        /\ Step(p, [proc[p] EXCEPT !.at = "script", !.argv = Positional(proc[p])])
     \/ (shell = NoShell \/ cc.script.long) /\ Return(p, Decrypted("shll"))

-----------------------------------------------------------------------------
(* What scripts do: end, start the program in a child, exec it.            *)

Ends(p) == proc[p].at \in {"script", "ended"} /\ Step(p, Free)

ScriptForks(p, q, args) ==
  /\ proc[p].at = "script" /\ proc[q] = Free /\ starts < MaxStarts
  /\ proc' = [proc EXCEPT ![q] = Started(args, proc[p].env)]
  /\ starts' = starts + 1
  /\ UNCHANGED <<cc, bin, shell, expired, changes>>

ScriptExecs(p, args) ==
  /\ proc[p].at = "script" /\ starts < MaxStarts
  /\ proc' = [proc EXCEPT ![p] = Started(args, proc[p].env)]
  /\ starts' = starts + 1
  /\ UNCHANGED <<cc, bin, shell, expired, changes>>

(* The shell is upgraded or removed, or the program copied to another host.*)
ShellChanges ==
  /\ changes < MaxChanges
  /\ shell' \in (Shells \cup (IF Faults THEN {NoShell} ELSE {})) \ {shell}
  /\ changes' = changes + 1
  /\ UNCHANGED <<cc, bin, expired, proc, starts>>

Expires ==
  /\ ~expired /\ cc.date
  /\ expired' = TRUE
  /\ UNCHANGED <<cc, bin, shell, proc, starts, changes>>

Over ==
  /\ cc.at \in {"ok", "failed", "crashed", "shown"} /\ \A p \in Pids : proc[p] = Free
  /\ UNCHANGED vars

Compile == ParseArgs \/ ReadScript \/ EvalShell \/ WriteC \/ Make

Run(p) ==
  \/ untraceable(p) \/ chkenv(p) \/ DecryptHead(p) \/ DecryptBody(p) \/ Reexecute(p) \/ Execute(p)

Next ==
  \/ Compile
  \/ \E p \in Pids :
       \/ Run(p) \/ Ends(p)
       \/ \E args \in ArgLists, env \in {{}} \cup {{Foreign(q)} : q \in Taken} : Start(p, args, env)
       \/ \E args \in ArgLists : ScriptExecs(p, args)
       \/ \E q \in Pids, args \in ArgLists : ScriptForks(p, q, args)
  \/ ShellChanges \/ Expires \/ Over

(* The operating system runs every process; a script may take forever.     *)
Spec == Init /\ [][Next]_vars /\ WF_vars(Compile) /\ \A p \in Pids : WF_vars(Run(p))

-----------------------------------------------------------------------------
(* Properties *)

Compiler ==
  [at : {"args", "read", "eval", "write", "make", "ok", "failed", "crashed", "shown"},
   line : Seq(Words), script : Script, file : BOOLEAN, err : BOOLEAN, inlo : Words,
   xecc : Words, lsto : Words, opts : Words, rlax : BOOLEAN, date : BOOLEAN,
   traceable : BOOLEAN]

Variable == [mask : Pids, argc : Nat \cup {-1}]

Process ==
  [at : {"free", "trace", "main", "head", "reexec", "body", "exec", "script", "ended"},
   argv : Seq(Words), env : SUBSET Variable, ret : -1 .. 2, text : Words,
   given : Seq(Words), inherited : SUBSET Variable, msg : Words]

(* Types.  chkenv finds the variable of this very start or none, so ret    *)
(* is 0 in the first pass and 1 or 2 in the second; it is -1 if somebody   *)
(* else has set that variable.                                             *)
TypeOK ==
  /\ cc \in Compiler
  /\ \A x \in Arrays : bin[x].plain \in Words
  /\ shell \in Shells \cup {NoShell} /\ expired \in BOOLEAN
  /\ proc \in [Pids -> Process]
  /\ starts \in 0 .. MaxStarts /\ changes \in 0 .. MaxChanges

(* The shell never gets anything to run but the text that was compiled:    *)
(* when another file has taken the place of the shell, xsh notices before  *)
(* it executes what it decrypted.                                          *)
ScriptAsWritten == \A p \in Pids : proc[p].at = "script" => proc[p].text = "text"

(* The script has the arguments the program was started with, after two    *)
(* passes and whatever last option the shell needs: the correction of      *)
(* chkenv drops exactly what the first pass put in front.                  *)
ArgsKept == \A p \in Pids : proc[p].at = "script" => proc[p].argv = proc[p].given

(* The script has the environment the program was started with: nothing    *)
(* that is left there makes a later start with the same process id take    *)
(* its first pass for the second.                                          *)
EnvRestored == \A p \in Pids : proc[p].at = "script" => proc[p].env = proc[p].inherited

(* The first pass of a process p in state r: chkenv has left its variable. *)
Variables(p, r) == r.inherited \cup {[mask |-> p, argc |-> 1 + Len(r.given)]}
Unspoilt(p, r) == Foreign(p) \notin r.inherited
FirstPass(p, r) ==
  r.ret = 0 /\ Unspoilt(p, r) /\ r.env = Variables(p, r) /\ r.argv = <<"me">> \o r.given

(* The arguments that the shell starts the second pass with: a last option *)
(* takes the place of $0, and the program's name moves behind it.          *)
Shifted(r) == IF Decrypted("lsto") = "" THEN r.given ELSE <<"me">> \o r.given

(* The second pass: chkenv has removed the variable.                       *)
SecondPass(r) ==
  /\ r.ret = (IF Decrypted("lsto") = "" THEN 1 ELSE 2)
  /\ r.env = r.inherited /\ r.argv = <<"me">> \o Shifted(r)

(* What a process has in hand at each point of the two passes: inductive   *)
(* together with TypeOK.                                                   *)
PassesOf(p, r) ==
  /\ r.at # "free" => cc.at = "ok"
  /\ r.inherited \subseteq {Foreign(q) : q \in Taken}
  /\ r.at \in {"trace", "main"} =>
       \/ r.env = r.inherited /\ r.argv = <<"me">> \o r.given
       \/ Unspoilt(p, r) /\ r.env = Variables(p, r) /\ r.argv = <<"me">> \o Shifted(r)
  /\ r.at = "head" => FirstPass(p, r) \/ SecondPass(r) \/ r.ret = -1
  /\ r.at = "reexec" => FirstPass(p, r)
  /\ r.at \in {"body", "exec"} => SecondPass(r)
  /\ r.at = "script" => r.env = r.inherited /\ r.argv = r.given

Passes == \A p \in Pids : PassesOf(p, proc[p])

(* The program is relaxed, or the shell is the file it was compiled for.   *)
Fits == bin["rlax"].plain # "" \/ \E i \in DOMAIN bin["text"].at : bin["text"].at[i] = key(shell)

(* A program without an expiration date gets its script run, unless there  *)
(* is no memory, its shell is replaced or gone, the script is too long to  *)
(* be an argument, it finds itself traced or somebody else has set its     *)
(* variable: the passes end, and encryption in write_C and decryption in   *)
(* xsh go through the same states.                                         *)
RunsScript ==
  \A p \in Pids :
    (proc[p].at = "main" /\ ~cc.date) ~>
      \/ proc[p].at = "script"
      \/ proc[p].msg \in {"<null>", "traced"} \/ ~Fits \/ shell = NoShell
      \/ cc.script.long /\ proc[p].msg = "shll"
      \/ ~Unspoilt(p, proc[p]) /\ proc[p].msg = "abnormal behavior!"

(* Whichever pass finds that the date is over, the program ends with the   *)
(* message about it, and no script is run.                                 *)
ExpiredEnds ==
  \A p \in Pids :
    (proc[p].at = "main" /\ expired) ~> (proc[p].at = "ended" /\ proc[p].msg = "has expired!")

-----------------------------------------------------------------------------
(* Instances for TLC.                                                      *)
MCWords == STRING

script(first, known, lsto, opt, long) ==
  [first |-> first, known |-> known, lsto |-> lsto, opt |-> opt, long |-> long]

(* Every option, and the ways in which parse_args fails.                   *)
AllLines ==
  {<<"v", "D", "f", "o">>, <<"e", "m", "f", "B">>, <<"f", "i", "x", "l", "r", "U">>,
   <<"f", "i", "x">>, <<"f", "f">>, <<"v">>, <<"f", "T">>, <<"f", "h", "f">>, <<"C">>, <<"A">>,
   <<"e?", "f">>}

(* sh (a long script), ash and a shell that is not in shellsDB; first      *)
(* lines eval_shell rejects, and one without a path.                       *)
AllScripts ==
  {script("ok", TRUE, "", "-x", TRUE), script("ok", TRUE, "--", "--", FALSE),
   script("ok", FALSE, "", "-", FALSE), script("invalid", TRUE, "", "", FALSE),
   script("noslash", TRUE, "", "", FALSE)}

SomeArgs == {<<>>, <<"a", "b">>}
=============================================================================
