----------------------------- MODULE AkbRelease -----------------------------
(***************************************************************************)
(* The two halves of AKB's life composed: a developer makes a release      *)
(* (Packaging), installer.sh or dpkg puts its programs on a user's         *)
(* machine, and the user runs them in a kernel tree (KernelTree).  A       *)
(* program that failed to compile, which no script of Packaging notices,   *)
(* is an empty file that runs and does nothing there.                      *)
(***************************************************************************)
EXTENDS Packaging, KernelTree

VARIABLE installed  \* the programs are on the user's machine

vars == <<pkgvars, treevars, installed>>

Init ==
  /\ PkgInit /\ TreeInit
  /\ bin = [p \in Programs |-> "absent"]
  /\ installed = FALSE

(* cp -rf maked/* /usr/bin, from the unpacked zip; the deb does the same.  *)
Install(a) ==
  /\ ~installed /\ todo = <<>>
  /\ a \in {"installer", "deb"} /\ out[a] # Nothing
  /\ installed' = TRUE
  /\ LET Found(f) == CASE out[a][f] = Absent -> "absent" [] out[a][f] = Empty -> "empty"
                       [] OTHER -> "ok"
     IN bin' = [akb_init |-> Found("maked/akb_init"), akb_prepare |-> Found("maked/akb_prepare"),
                akb_build |-> Found("maked/akb_build"), akb_clean |-> Found("maked/akb_clean")]
  /\ UNCHANGED <<pkgvars, loc, dirs, tmpdir, step, left, failedBack, inits, mvfaults,
                 halts, outdir, status>>

Next ==
  \/ ~installed /\ PkgNext /\ UNCHANGED <<treevars, installed>>
  \/ \E a \in Archives : Install(a)
  \/ installed /\ TreeNext /\ UNCHANGED <<pkgvars, installed>>

Spec == Init /\ [][Next]_vars

(* Once a release is installed the model follows the user only, so states  *)
(* that differ in what the developer has are one to TLC: no step and no    *)
(* property tells them apart.                                              *)
Followed == <<installed, treevars, IF installed THEN <<faults, outside>> ELSE pkgvars>>
-----------------------------------------------------------------------------
(* A program missing or empty on the user's machine means that a command   *)
(* of some make has failed: no order of targets, no interruption and no    *)
(* leftover of one loses a program.                                        *)
InstalledWhole ==
  installed /\ (\E p \in Programs : bin[p] # "ok") => faults > 0

(* Harm needs a command that fails: whatever the order of targets and      *)
(* wherever makes are interrupted, nothing is written beside the           *)
(* repository, and the user gets every program whole.                      *)
OnlyFailuresHarm == StaysInside /\ InstalledWhole

(* akb_init keeps the user's sources, interrupted or not and whatever      *)
(* somebody else has in ../tmp: none is lost unless its own move back has  *)
(* failed, and undisturbed calls keep the kernel and its .git together.    *)
TreeKept == LostOnlyByFailedMove /\ KeptTogether

(* With a release made without a failure, akb_prepare can be run again and *)
(* again in a tree that has sources/: its akb_clean makes room for the     *)
(* `mkdir out` that would end it (prepare_install.sh:30-35).               *)
PrepareRepeats ==
  [][(\E line19 \in BOOLEAN : PrepareTree(TRUE, line19))
       /\ installed /\ faults = 0 /\ <<"tree", 1>> \in dirs
     => outdir' = "configured"]_vars
=============================================================================
