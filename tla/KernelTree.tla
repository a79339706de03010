----------------------------- MODULE KernelTree -----------------------------
(***************************************************************************)
(* The scripts a user runs in a kernel tree: init.sh turns the tree into   *)
(* an AKB tree by moving everything to ../tmp and back, prepare.sh makes   *)
(* out/ and configures, build.sh builds, clean.sh removes.                 *)
(*                                                                         *)
(* A place is <<root, depth>>: in the tree or in ../tmp, under that many   *)
(* nested directories named sources/.  mv puts a file in the place of one  *)
(* of the same name; a directory it moves onto one of the same name only   *)
(* if that one is empty (rename).  init.sh looks at no status, prepare.sh  *)
(* and build.sh stop at the first one (set -e).                            *)
(***************************************************************************)
EXTENDS Integers, FiniteSets

CONSTANTS Entries,      \* names of the kernel tree that * matches
          Hidden,       \* names that begin with a dot: * does not match them
          Others,       \* names that may lie in a ../tmp of somebody else's
          Folders,      \* names that stand for a directory with something in it
          MaxInits,     \* bound: calls of akb_init
          MaxMvFaults,  \* bound: moves that fail
          MaxHalts      \* bound: interrupted calls of akb_init

ASSUME TreeNames ==
  /\ ".git" \in Hidden /\ Entries \cap Hidden = {}
  /\ "sources" \notin Entries \cup Hidden \cup Others
ASSUME TreeBounds == {MaxInits, MaxMvFaults, MaxHalts} \subseteq Nat

VARIABLES bin,        \* the akb_* programs found by the shell: "ok", "empty", "absent"
          loc,        \* where every item of the tree and of that ../tmp is
          dirs,       \* the places that are directories sources/
          tmpdir,     \* ../tmp exists
          step,       \* the command init.sh is at
          left,       \* the names the shell put for * and mv has not handled
          failedBack, \* history: items whose move back failed
          inits, mvfaults, halts, \* counts, for the bounds
          outdir,     \* out/: "none", "made", "configured"
          status      \* exit status of the last prepare, build or clean

treevars == <<bin, loc, dirs, tmpdir, step, left, failedBack, inits, mvfaults,
              halts, outdir, status>>

Programs == {"akb_init", "akb_prepare", "akb_build", "akb_clean"}
(* An item is <<whose, name>>: the user's tree and a stranger's ../tmp may  *)
(* have the same names.                                                    *)
Items == ({"tree"} \X (Entries \cup Hidden)) \cup ({"tmp"} \X Others)
Git == <<"tree", ".git">>
Sources == <<"dir", "sources">>
Gone == <<"gone", 0>>
Never == <<"never", 0>>

TreeInit ==
  /\ tmpdir \in BOOLEAN
  /\ \E there \in SUBSET Others :
        /\ there # {} => tmpdir
        /\ loc = [i \in Items |-> IF i[1] = "tree" THEN <<"tree", 0>>
                                  ELSE IF i[2] \in there THEN <<"tmp", 0>> ELSE Never]
  /\ dirs = {} /\ step = "idle" /\ left = {} /\ failedBack = {}
  /\ inits = 0 /\ mvfaults = 0 /\ halts = 0
  /\ outdir = "none" /\ status = 0

Under(root, d) == {i \in Items : loc[i][1] = root /\ loc[i][2] >= d}
Filled(root, d) == Under(root, d) # {} \/ \E p \in dirs : p[1] = root /\ p[2] > d
(* What * matches at the top of a directory: no name that begins with a dot. *)
Star(root) == {i \in Items : i[2] \notin Hidden /\ loc[i] = <<root, 0>>}
              \cup (IF <<root, 1>> \in dirs THEN {Sources} ELSE {})

(* mv of sources/, with everything under it, to the given place.           *)
Shift(p, root, to, by) == IF p[1] = root /\ p[2] >= 1 THEN <<to, p[2] + by>> ELSE p
MoveSources(root, to, by) ==
  IF <<to, 1 + by>> \in dirs /\ Filled(to, 1 + by)
  THEN UNCHANGED <<loc, dirs>>
  ELSE /\ loc' = [i \in Items |-> Shift(loc[i], root, to, by)]
       /\ dirs' = {Shift(p, root, to, by) : p \in dirs}

(* mv of one name to ../tmp (by = 0) or to sources/ (by = 1): a file there *)
(* is replaced, a directory stops it.                                      *)
InTheWay(e, to, by) == {j \in Items \ {e} : j[2] = e[2] /\ loc[j] = <<to, by>>}
Refused(e, to, by) == e[2] \in Folders /\ InTheWay(e, to, by) # {}
MoveOne(e, root, to, by) ==
  IF e = Sources THEN MoveSources(root, to, by)
  ELSE IF Refused(e, to, by) THEN UNCHANGED <<loc, dirs>>
  ELSE /\ loc' = [i \in Items |-> IF i = e THEN <<to, by>>
                                 ELSE IF i \in InTheWay(e, to, by) THEN Gone ELSE loc[i]]
       /\ UNCHANGED dirs

RunInit ==
  /\ step = "idle" /\ inits < MaxInits /\ bin["akb_init"] = "ok"
  /\ step' = "away" /\ inits' = inits + 1
  /\ tmpdir' = TRUE                        \* mkdir ../tmp, if it is not there
  /\ left' = Star("tree")
  /\ UNCHANGED <<bin, loc, dirs, failedBack, mvfaults, halts, outdir, status>>

(* mv * ../tmp *)
MoveAway(e, ok) ==
  /\ step = "away" /\ e \in left
  /\ left' = left \ {e}
  /\ IF ok THEN MoveOne(e, "tree", "tmp", 0) /\ UNCHANGED mvfaults
     ELSE mvfaults < MaxMvFaults /\ mvfaults' = mvfaults + 1 /\ UNCHANGED <<loc, dirs>>
  /\ UNCHANGED <<bin, tmpdir, step, failedBack, inits, halts, outdir, status>>

(* Mutant: an old sources/ is left behind in ../tmp. *)
MakeDirs_Files ==
  /\ step = "away" /\ left = {}
  /\ dirs' = dirs \cup {<<"tree", 1>>}
  /\ step' = "back" /\ left' = Star("tmp") \ {Sources}
  /\ UNCHANGED <<bin, loc, tmpdir, failedBack, inits, mvfaults, halts, outdir, status>>
(* cp -rf /usr/otagen ./ ; mkdir sources ; mkdir gcc *)
MakeDirs ==
  /\ step = "away" /\ left = {}
  /\ dirs' = dirs \cup {<<"tree", 1>>}
  /\ step' = "back" /\ left' = Star("tmp")
  /\ UNCHANGED <<bin, loc, tmpdir, failedBack, inits, mvfaults, halts, outdir, status>>

(* mv ../tmp/* sources/ *)
MoveBack(e, ok) ==
  /\ step = "back" /\ e \in left
  /\ left' = left \ {e}
  /\ IF ok THEN /\ MoveOne(e, "tmp", "tree", 1) /\ UNCHANGED mvfaults
                /\ failedBack' = failedBack \cup (IF Refused(e, "tree", 1) THEN {e} ELSE {})
     ELSE /\ mvfaults < MaxMvFaults /\ mvfaults' = mvfaults + 1
          /\ failedBack' = failedBack \cup (IF e = Sources THEN Under("tmp", 1) ELSE {e})
          /\ UNCHANGED <<loc, dirs>>
  /\ UNCHANGED <<bin, tmpdir, step, inits, halts, outdir, status>>

(* mv .git sources/ *)
MoveGit ==
  /\ step = "back" /\ left = {}
  /\ loc' = IF loc[Git] = <<"tree", 0>> THEN [loc EXCEPT ![Git] = <<"tree", 1>>] ELSE loc
  /\ step' = "remove"
  /\ UNCHANGED <<bin, dirs, tmpdir, left, failedBack, inits, mvfaults, halts, outdir, status>>

(* rm -rf ../tmp, and the files make.prop and makefile. *)
RemoveTmpDir ==
  /\ step = "remove"
  /\ loc' = [i \in Items |-> IF loc[i][1] = "tmp" THEN Gone ELSE loc[i]]
  /\ dirs' = {p \in dirs : p[1] # "tmp"}
  /\ tmpdir' = FALSE
  /\ step' = "idle"
  /\ UNCHANGED <<bin, left, failedBack, inits, mvfaults, halts, outdir, status>>

Halt ==
  /\ step # "idle" /\ halts < MaxHalts
  /\ halts' = halts + 1 /\ step' = "idle" /\ left' = {}
  /\ UNCHANGED <<bin, loc, dirs, tmpdir, failedBack, inits, mvfaults, outdir, status>>
-----------------------------------------------------------------------------
(* Exit status of a program: 127 if there is none, 0 if it is empty.       *)
Status(p, run) == CASE bin[p] = "absent" -> 127 [] bin[p] = "empty" -> 0 [] OTHER -> run

(* build.sh: a make.prop with a line 19 ends it; otherwise `set -e` and    *)
(* the call of exportmkval, a function that build.sh does not define, do.  *)
BuildStatus(line19) == Status("akb_build", IF line19 THEN 0 ELSE 127)

Build(line19) ==
  /\ step = "idle"
  /\ status' = BuildStatus(line19)
  /\ UNCHANGED <<bin, loc, dirs, tmpdir, step, left, failedBack, inits, mvfaults, halts,
                 outdir>>

(* Mutant: clean.sh keeps out. *)
Cleans_Nothing == FALSE
(* rm -rf out in clean.sh *)
Cleans == bin["akb_clean"] = "ok"

Clean ==
  /\ step = "idle"
  /\ status' = Status("akb_clean", 0)
  /\ outdir' = IF Cleans THEN "none" ELSE outdir
  /\ UNCHANGED <<bin, loc, dirs, tmpdir, step, left, failedBack, inits, mvfaults, halts>>

(* prepare.sh: akb_clean, mkdir out, cd sources, make with the defconfig   *)
(* (configured says whether it works), akb_build; set -e all along.        *)
PrepareTree(configured, line19) ==
  /\ step = "idle"
  /\ LET run == bin["akb_prepare"] = "ok" /\ bin["akb_clean"] # "absent"
         mkdir == run /\ (Cleans \/ outdir = "none")
         conf == mkdir /\ <<"tree", 1>> \in dirs /\ configured
     IN /\ outdir' = IF conf THEN "configured"
                     ELSE IF mkdir THEN "made"
                     ELSE IF run /\ Cleans THEN "none" ELSE outdir
        /\ status' = Status("akb_prepare",
                            IF conf THEN BuildStatus(line19) ELSE IF run THEN 1 ELSE 127)
  /\ UNCHANGED <<bin, loc, dirs, tmpdir, step, left, failedBack, inits, mvfaults, halts>>

TreeNext ==
  \/ RunInit
  \/ \E e \in Items \cup {Sources}, ok \in BOOLEAN : MoveAway(e, ok) \/ MoveBack(e, ok)
  \/ MakeDirs \/ MoveGit \/ RemoveTmpDir \/ Halt
  \/ \E line19 \in BOOLEAN :
        \/ Build(line19)
        \/ \E configured \in BOOLEAN : PrepareTree(configured, line19)
  \/ Clean
-----------------------------------------------------------------------------
(* However often init.sh is interrupted and run again, and however often   *)
(* a move to ../tmp fails: nothing of the kernel tree is deleted by its    *)
(* `rm -rf ../tmp` or replaced by a mv, unless the move of that very item  *)
(* (or of the sources/ around it) back into the tree has failed.  Of what  *)
(* somebody else has in ../tmp, only hidden files, which ../tmp/* does not *)
(* match, and files with the name of one of the tree can be lost besides   *)
(* (init.sh:5-14).                                                         *)
LostOnlyByFailedMove ==
  \A i \in Items : loc[i] = Gone =>
     i \in failedBack \/ (i[1] = "tmp" /\ i[2] \in Hidden \cup Entries)

(* A directory of the kernel with the name of a directory in a ../tmp that *)
(* is somebody else's: the mv to ../tmp refuses it.                        *)
Blocked(i) == i[2] \in Entries \cap Folders \cap Others /\ loc[<<"tmp", i[2]>>] # Never

(* Undisturbed calls of init.sh keep the kernel and its .git in one        *)
(* directory, one level deeper each time, except for directories whose     *)
(* name was taken in ../tmp; nothing stays in ../tmp.                      *)
KeptTogether ==
  step = "idle" /\ halts = 0 /\ mvfaults = 0 =>
    \A i \in {"tree"} \X (Entries \cup {".git"}) : ~Blocked(i) => loc[i] = <<"tree", inits>>
=============================================================================
