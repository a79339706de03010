----------------------------- MODULE Packaging ------------------------------
(***************************************************************************)
(* The makefile of the repository and the scripts under btool/: how the    *)
(* compiled scripts and the boot image tools get into a release.           *)
(*                                                                         *)
(* None of these scripts looks at a status.  A command that fails leaves   *)
(* what it leaves and the script goes on, so the model keeps, for every    *)
(* file, what it holds: nothing, an empty file, or the build of a revision *)
(* of the sources.                                                         *)
(***************************************************************************)
EXTENDS Integers, FiniteSets, Sequences

CONSTANTS MaxRev,     \* bound: revisions of the sources
          MaxMakes,   \* bound: calls of make
          MaxFaults,  \* bound: commands that fail
          MaxStops    \* bound: interrupted makes

ASSUME PackagingBounds ==
  /\ {MaxRev, MaxMakes, MaxFaults, MaxStops} \subseteq Nat
  /\ MaxRev > 0

VARIABLES rev,       \* the revision of the sources
          cc,        \* btool/akb_cc
          tmplib,    \* tmplib/: the boot image tools just built
          dotx,      \* *.sh.x files an interrupted make left behind
          build,     \* build/
          tmp,       \* tmp/akb_$ver and dpkg_tmp/
          out,       \* out/: the archives
          outside,   \* something was written beside the repository
          todo,      \* what make still has to do
          makes, faults, stops, \* counts, for the bounds
          failed     \* a command of this make has failed, or it found leftovers

pkgvars == <<rev, cc, tmplib, dotx, build, tmp, out, outside, todo, makes,
             faults, stops, failed>>

Absent == 0
Empty == -1
Content == {Absent, Empty} \cup 1 .. MaxRev

Tools == {"mkbootimg", "unpackbootimg"}
Archives == {"akb", "installer", "deb"}

(* The scripts compiled into each kind of build/, by the names they get.   *)
Maked == {"maked/akb_build", "maked/akb_prepare", "maked/akb_init", "maked/akb_clean"}
(* Mutant: akb_init is forgotten. *)
Scripts_NoInit ==
  [akb |-> {"bin/akb_build", "bin/akb_prepare", "bin/akb_clean"},
   installer |-> Maked \cup {"installer"},
   deb |-> Maked \ {"maked/akb_init"}]
Scripts ==
  [akb |-> {"bin/akb_build", "bin/akb_prepare", "bin/akb_clean"},
   installer |-> Maked \cup {"installer"},
   deb |-> Maked]
Compiled == UNION {Scripts[a] : a \in Archives} \* files of build/ made by akb_cc
(* The script each is compiled from; akb_cc writes <script>.x beside it.   *)
Script(f) ==
  CASE f \in {"bin/akb_build", "maked/akb_build"} -> "build.sh"
    [] f \in {"bin/akb_clean", "maked/akb_clean"} -> "clean.sh"
    [] f = "bin/akb_prepare" -> "prepare.sh"
    [] f = "maked/akb_prepare" -> "prepare_install.sh"
    [] f = "maked/akb_init" -> "init.sh"
    [] OTHER -> "installer.sh"
Scripted == {Script(f) : f \in Compiled}
Files == Compiled \cup Tools \cup {"otagen"}
Nothing == [f \in Files |-> Absent]

(* What a release of the current sources should hold.  The deb takes its   *)
(* otagen from sources/, where no boot image tools are.                    *)
Complete(a) ==
  [f \in Files |->
     IF f \in Scripts[a] \cup {"otagen"} \cup (IF a = "deb" THEN {} ELSE Tools)
     THEN rev ELSE Absent]

PkgInit ==
  /\ rev = 1 /\ cc = Absent
  /\ tmplib = [t \in Tools |-> Absent]
  /\ dotx = [x \in Scripted |-> Absent]
  /\ build = [made |-> FALSE, files |-> Nothing]
  /\ tmp = [a \in Archives |-> Nothing]
  /\ out = [a \in Archives |-> Nothing]
  /\ outside = FALSE /\ todo = <<>>
  /\ makes = 0 /\ faults = 0 /\ stops = 0 /\ failed = FALSE

(***************************************************************************)
(* make <target>: the rules of the makefile as a list of what they call.   *)
(***************************************************************************)
Recipe(a) == <<[do |-> "gen", arch |-> a], [do |-> "make", arch |-> a],
               [do |-> "pack", arch |-> a], [do |-> "remove", arch |-> a]>>
Prepare == <<[do |-> "prepare", arch |-> "akb"], [do |-> "gen_cc", arch |-> "akb"]>>
Rules(target) ==
  CASE target \in Archives -> Prepare \o Recipe(target)
    [] target = "all" -> Prepare \o Recipe("akb") \o Recipe("installer") \o Recipe("deb")

StartMake(target) ==
  /\ todo = <<>> /\ makes < MaxMakes
  /\ todo' = Rules(target) /\ makes' = makes + 1
  /\ failed' = (tmp # [a \in Archives |-> Nothing])
  /\ UNCHANGED <<rev, cc, tmplib, dotx, build, tmp, out, outside, faults, stops>>

(* make clean.  tmp/, dpkg_tmp/ and binary_btool/ are not among them.      *)
MakeClean ==
  /\ todo = <<>> /\ makes < MaxMakes /\ makes' = makes + 1
  /\ build' = [made |-> FALSE, files |-> Nothing]
  /\ out' = [a \in Archives |-> Nothing]
  /\ tmplib' = [t \in Tools |-> Absent]
  /\ cc' = Absent
  /\ UNCHANGED <<rev, dotx, tmp, outside, todo, faults, stops, failed>>

Doing(what) == todo # <<>> /\ Head(todo).do = what
Arch == Head(todo).arch
Go == todo' = Tail(todo)

(* A command fails, or it does not; every failure is counted.              *)
Outcome(fails, ok) ==
  /\ ok \in IF fails > MaxFaults THEN {TRUE} ELSE BOOLEAN
  /\ faults' = IF ok THEN faults ELSE fails
  /\ failed' = (failed \/ ~ok)

(* prepare.sh.  A failed mkbootimg leaves the file of an earlier make in   *)
(* tmplib/; a failed unmkbootimg leaves an empty unpackbootimg.            *)
PrepareTools(mk, unmk) ==
  /\ Doing("prepare") /\ Go
  /\ Outcome(faults + 1, mk /\ unmk)
  /\ tmplib' = [mkbootimg |-> IF mk THEN rev ELSE tmplib["mkbootimg"],
                unpackbootimg |-> IF unmk THEN rev ELSE Empty]
  /\ UNCHANGED <<rev, cc, dotx, build, tmp, out, outside, makes, stops>>

(* gen_cc.sh: without a new akb_cc the old one stays.                      *)
GenCC(ok) ==
  /\ Doing("gen_cc") /\ Go
  /\ Outcome(faults + 1, ok)
  /\ cc' = IF ok THEN rev ELSE cc
  /\ UNCHANGED <<rev, tmplib, dotx, build, tmp, out, outside, makes, stops>>

(* build_btool*.sh and the start of gen_akb*.sh: both are compiled with    *)
(* akb_cc themselves, and an empty file runs, does nothing and succeeds.   *)
Gen(gen, mk) ==
  /\ Doing("gen")
  /\ Outcome(faults + 1, gen /\ mk)
  /\ gen => cc # Absent
  /\ mk => gen
  /\ todo' = IF ~gen THEN SubSeq(todo, 5, Len(todo))
             ELSE IF ~mk THEN <<todo[3], todo[4]>> \o SubSeq(todo, 5, Len(todo))
             ELSE Tail(todo)
  /\ UNCHANGED <<rev, cc, tmplib, dotx, build, tmp, out, outside, makes, stops>>

(* Without akb_cc neither script compiles: no choice, and no new fault.    *)
GenWithoutCC ==
  /\ Doing("gen") /\ cc = Absent
  /\ todo' = SubSeq(todo, 5, Len(todo))
  /\ failed' = TRUE
  /\ UNCHANGED <<rev, cc, tmplib, dotx, build, tmp, out, outside, makes, faults, stops>>

(* Mutant: a program left by an earlier make is taken. *)
Makej_OldFirst(f, ok) ==
  IF dotx[Script(f)] # Absent THEN dotx[Script(f)] ELSE IF ok THEN rev ELSE Empty
(* makej: cat of what akb_cc left, old or new, and rm.                     *)
Makej(f, ok) ==
  IF ok THEN rev ELSE IF dotx[Script(f)] # Absent THEN dotx[Script(f)] ELSE Empty

(* makeproj.sh, makeinstall.sh, makedpkg.sh: a new build/, the tools of    *)
(* tmplib/ (which only makeproj.sh leaves), one makej per script; bad is   *)
(* the set of scripts akb_cc fails on.                                     *)
MakeScripts(bad) ==
  /\ Doing("make") /\ Go
  /\ bad \subseteq Scripts[Arch]
  /\ faults + Cardinality(bad) <= MaxFaults
  /\ faults' = faults + Cardinality(bad)
  /\ failed' = (failed \/ bad # {})
  /\ LET made == [f \in Files |->
                    CASE f \in Scripts[Arch] -> Makej(f, f \notin bad)
                      [] f \in Tools -> tmplib[f]
                      [] f = "otagen" -> rev
                      [] OTHER -> Absent]
     IN /\ build' = [made |-> TRUE, files |-> made]
        /\ tmp' = IF Arch # "deb" THEN tmp
                  ELSE [tmp EXCEPT !.deb = [f \in Files |->
                          IF f \in Tools THEN @[f]
                          ELSE IF made[f] = Absent THEN @[f] ELSE made[f]]]
  /\ dotx' = [x \in Scripted |-> IF \E f \in Scripts[Arch] : x = Script(f) THEN Absent ELSE dotx[x]]
  /\ tmplib' = IF Arch = "akb" THEN tmplib ELSE [t \in Tools |-> Absent]
  /\ UNCHANGED <<rev, cc, out, outside, makes, stops>>

(* The copy of build/ to tmp/akb_$ver, over what is there, and zip or      *)
(* dpkg -b.  Without build/ the `cd build` fails and the relative paths    *)
(* lead out of the repository; without dpkg_tmp/ the old deb stays.        *)
Pack ==
  /\ Doing("pack") /\ Go
  /\ LET copied == [f \in Files |->
                      IF build.files[f] = Absent THEN tmp["akb"][f] ELSE build.files[f]]
     IN IF Arch = "deb"
        THEN /\ out' = [out EXCEPT !.deb = IF tmp["deb"] = Nothing THEN @ ELSE tmp["deb"]]
             /\ UNCHANGED <<tmp, outside>>
        ELSE IF ~build.made
        THEN /\ outside' = TRUE
             /\ UNCHANGED <<tmp, out>>
        ELSE /\ tmp' = [tmp EXCEPT !.akb = copied]
             /\ out' = [out EXCEPT ![Arch] = copied]
             /\ UNCHANGED outside
  /\ UNCHANGED <<rev, cc, tmplib, dotx, build, makes, faults, stops, failed>>

(* rm -rf tmp/ (dpkg_tmp/) at the end of gen_akb*.sh: beside the           *)
(* repository, if `cd build` has failed.                                   *)
RemoveTmp ==
  /\ Doing("remove") /\ Go
  /\ tmp' = IF Arch # "deb" /\ ~build.made THEN tmp
            ELSE [tmp EXCEPT ![IF Arch = "deb" THEN "deb" ELSE "akb"] = Nothing]
  /\ UNCHANGED <<rev, cc, tmplib, dotx, build, out, outside, makes, faults, stops, failed>>

(* The user interrupts make between two commands.                          *)
Interrupt ==
  /\ todo # <<>> /\ stops < MaxStops
  /\ stops' = stops + 1 /\ todo' = <<>>
  /\ UNCHANGED <<rev, cc, tmplib, dotx, build, tmp, out, outside, makes, faults, failed>>

(* The scripts compiled before x.                                          *)
Turn(s) == CASE s = "build.sh" -> 1
             [] s \in {"prepare.sh", "prepare_install.sh"} -> 2
             [] s = (IF Arch = "deb" THEN "init.sh" ELSE "clean.sh") -> 3
             [] s = "installer.sh" -> 5
             [] OTHER -> 4
Before(x) == {f \in Scripts[Arch] : Turn(Script(f)) < Turn(Script(x))}

(* Or while akb_cc works for makej: the scripts before x are in the new    *)
(* build/, and x leaves its .x file.                                       *)
InterruptMakej(x) ==
  /\ Doing("make") /\ stops < MaxStops
  /\ x \in Scripts[Arch]
  /\ stops' = stops + 1 /\ todo' = <<>>
  /\ build' = [made |-> TRUE,
               files |-> [f \in Files |-> CASE f \in Before(x) -> Makej(f, TRUE)
                                            [] f \in Tools -> tmplib[f]
                                            [] f = "otagen" -> rev
                                            [] OTHER -> Absent]]
  /\ dotx' = [y \in Scripted |-> IF y = Script(x) THEN rev
                                ELSE IF \E f \in Before(x) : y = Script(f) THEN Absent ELSE dotx[y]]
  /\ tmplib' = IF Arch = "akb" THEN tmplib ELSE [t \in Tools |-> Absent]
  /\ UNCHANGED <<rev, cc, tmp, out, outside, makes, faults, failed>>

(* The developer changes the sources.                                      *)
Edit ==
  /\ todo = <<>> /\ rev < MaxRev /\ rev' = rev + 1
  /\ UNCHANGED <<cc, tmplib, dotx, build, tmp, out, outside, todo, makes, faults,
                 stops, failed>>
PkgNext ==
  \/ \E target \in Archives \cup {"all"} : StartMake(target)
  \/ MakeClean
  \/ \E mk, unmk \in BOOLEAN : PrepareTools(mk, unmk)
  \/ \E ok \in BOOLEAN : GenCC(ok)
  \/ \E gen, mk \in BOOLEAN : Gen(gen, mk)
  \/ GenWithoutCC
  \/ \E bad \in SUBSET Compiled : MakeScripts(bad)
  \/ Pack \/ RemoveTmp \/ Interrupt
  \/ \E x \in Compiled : InterruptMakej(x)
  \/ Edit
-----------------------------------------------------------------------------
(* Whatever earlier makes of other targets left in tmplib/, build/ and     *)
(* *.sh.x, and wherever they were interrupted: a make in which no command  *)
(* fails and which finds no tmp/ and no dpkg_tmp/ packs exactly a release  *)
(* of the current sources (btool/make*.sh, gen_akb*.sh, makefile).         *)
CleanMakeIsFresh ==
  [][Doing("pack") /\ ~failed /\ todo' = Tail(todo) => out'[Arch] = Complete(Arch)]_pkgvars

(* The relative paths of gen_akb*.sh (`mkdir ../tmp`, `rm -rf tmp/` after  *)
(* an unchecked `cd build/`) reach beside the repository only after a      *)
(* command has failed: never because of an interruption or of the order of *)
(* targets and make clean.                                                 *)
StaysInside == outside => faults > 0
=============================================================================
