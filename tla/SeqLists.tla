----------------------------- MODULE SeqLists -------------------------------
(***************************************************************************)
(* What a list promises: a sequence of values.  An operation replaces a    *)
(* segment by nothing, by one value, up to three times, or by the values   *)
(* of a list; a merge leaves values of two lists in an order of its own.   *)
(***************************************************************************)
EXTENDS Integers, SequencesExt

CONSTANTS ListNames, Values

VARIABLE val   \* the contents of the lists that exist

Init == val = [l \in {} |-> <<>>]
Make(l) ==
  /\ l \notin DOMAIN val
  /\ \E s \in {<<>>} \cup {val[m] : m \in DOMAIN val} :
       val' = [m \in DOMAIN val \cup {l} |-> IF m = l THEN s ELSE val[m]]
Forget(l) == val' = [m \in DOMAIN val \ {l} |-> val[m]]
Splice(l) ==
  \E s \in {<<>>} \cup {[i \in 1 .. n |-> v] : n \in 1 .. 3, v \in Values} \cup {val[m] : m \in DOMAIN val} :
    \E i \in 0 .. Len(val[l]) : \E j \in i .. Len(val[l]) :
      val' = [val EXCEPT ![l] = SubSeq(@, 1, i) \o s \o SubSeq(@, j + 1, Len(@))]
Merge(l) ==
  \E m \in DOMAIN val :
    /\ ToSet(val'[l]) \subseteq ToSet(val[l]) \cup ToSet(val[m])
    /\ val' = [val EXCEPT ![l] = val'[l]]

Next == (\E l \in ListNames : Make(l)) \/ (\E l \in DOMAIN val : Forget(l) \/ Splice(l))
Spec == Init /\ [][Next]_val
=============================================================================
