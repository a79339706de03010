---------------------------- MODULE RecencyMap ------------------------------
(***************************************************************************)
(* What an LRU cache promises: a map kept in the order of last use, oldest *)
(* first.  An entry moves to the young end when it is used, enters there,  *)
(* and nothing else changes the order of the others.                       *)
(***************************************************************************)
EXTENDS Sequences, SequencesExt

CONSTANTS Keys, Values

VARIABLE order   \* sequence of <<key, value>>, oldest first

KeysIn(s) == {s[i][1] : i \in DOMAIN s}

Init == order = <<>>
Use(i) == order' = Append(RemoveAt(order, i), order[i])
Enter(k, v) == k \notin KeysIn(order) /\ order' = Append(order, <<k, v>>)
Leave(i) == order' = RemoveAt(order, i)
Empty == order' = <<>>
(* The oldest makes room for a new entry.                                  *)
Replace(k, v) == order # <<>> /\ k \notin KeysIn(Tail(order)) /\ order' = Append(Tail(order), <<k, v>>)

Next ==
  \/ \E i \in DOMAIN order : Use(i) \/ Leave(i)
  \/ \E k \in Keys, v \in Values : Enter(k, v) \/ Replace(k, v)
  \/ Empty
Spec == Init /\ [][Next]_order
=============================================================================
