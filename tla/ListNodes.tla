----------------------------- MODULE ListNodes ------------------------------
(***************************************************************************)
(* include/cutils/list.h: nodes embedded in the caller's items and linked  *)
(* around heads.  A client adds and removes items and walks a list with    *)
(* list_for_each, list_for_each_reverse or list_for_each_safe; the body of *)
(* the last one may remove the item it is at or move it to another list.   *)
(***************************************************************************)
EXTENDS Loops, FiniteSets, SequencesExt

CONSTANTS Heads, Items, NoLoop

VARIABLES next, prev,  \* the two pointers of every node
          listed,      \* the items the client has added and not removed
          loop,        \* the loop the client is in, or NoLoop
          todo         \* the items it has to visit, in order
nodeVars == <<next, prev, listed, loop, todo>>

Max_ == Cardinality(Heads) + Cardinality(Items)

(* A pair of pointer functions, as the inline functions change it.         *)
P == [next |-> next, prev |-> prev]
Becomes(p) == next' = p.next /\ prev' = p.prev

list_init(p, node) == [p EXCEPT !.next[node] = node, !.prev[node] = node]
list_add_tail(p, head, item) ==
  LET q == [p EXCEPT !.next[item] = head, !.prev[item] = p.prev[head]]
  IN  [[q EXCEPT !.next[q.prev[head]] = item] EXCEPT !.prev[head] = item]
list_add_head(p, head, item) ==
  LET q == [p EXCEPT !.next[item] = p.next[head], !.prev[item] = head]
  IN  [[q EXCEPT !.prev[q.next[head]] = item] EXCEPT !.next[head] = item]
list_remove(p, item) ==
  LET q == [p EXCEPT !.prev[p.next[item]] = p.prev[item]]
  IN  [q EXCEPT !.next[q.prev[item]] = q.next[item]]

list_empty(list) == list = next[list]
list_head(list) == next[list]
list_tail(list) == prev[list]
-----------------------------------------------------------------------------
Forward(list) == Walk(next[list], list, next, Max_)
Backward(list) == Walk(prev[list], list, prev, Max_)

(* Nodes that no head links are as their owners left them: linked to       *)
(* themselves by list_declare or list_init.                                *)
Init ==
  /\ next = [n \in Heads \cup Items |-> n] /\ prev = next
  /\ listed = {} /\ loop = NoLoop /\ todo = <<>>

Add(head, item) ==
  /\ loop = NoLoop /\ item \notin listed
  /\ Becomes(list_add_tail(P, head, item)) \/ Becomes(list_add_head(P, head, item))
  /\ listed' = listed \cup {item} /\ UNCHANGED <<loop, todo>>

Remove_(item) ==
  /\ loop = NoLoop /\ item \in listed
  /\ Becomes(list_remove(P, item)) /\ listed' = listed \ {item}
  /\ UNCHANGED <<loop, todo>>

Reinit(item) ==
  /\ loop = NoLoop /\ item \notin listed
  /\ Becomes(list_init(P, item)) /\ UNCHANGED <<listed, loop, todo>>

list_for_each(head) ==
  /\ loop = NoLoop /\ ~ list_empty(head)
  /\ loop' = [kind |-> "each", list |-> head, node |-> list_head(head), n |-> list_head(head)]
  /\ todo' = Forward(head) /\ UNCHANGED <<next, prev, listed>>
list_for_each_reverse(head) ==
  /\ loop = NoLoop /\ ~ list_empty(head)
  /\ loop' = [kind |-> "reverse", list |-> head, node |-> list_tail(head), n |-> list_tail(head)]
  /\ todo' = Reverse(Forward(head)) /\ UNCHANGED <<next, prev, listed>>
list_for_each_safe(head) ==
  /\ loop = NoLoop /\ ~ list_empty(head)
  /\ loop' = [kind |-> "safe", list |-> head, node |-> list_head(head), n |-> next[list_head(head)]]
  /\ todo' = Forward(head) /\ UNCHANGED <<next, prev, listed>>

(* The loop's step, after a body that turned the pointers into p.          *)
Advance(p) ==
  LET at == CASE loop.kind = "each" -> p.next[loop.node]
              [] loop.kind = "reverse" -> p.prev[loop.node]
              [] loop.kind = "safe" -> loop.n
  IN  /\ loop' = IF at = loop.list THEN NoLoop ELSE [loop EXCEPT !.node = at, !.n = p.next[at]]
      /\ todo' = Tail(todo)

Visit == Advance(P) /\ UNCHANGED <<next, prev, listed>>
VisitRemove ==
  /\ loop.kind = "safe"
  /\ LET p == list_remove(P, loop.node) IN Becomes(p) /\ Advance(p)
  /\ listed' = listed \ {loop.node}
VisitMove(head) ==
  /\ loop.kind = "safe" /\ head # loop.list
  /\ LET p == list_add_tail(list_remove(P, loop.node), head, loop.node) IN Becomes(p) /\ Advance(p)
  /\ UNCHANGED listed

Next ==
  \/ \E item \in Items : Remove_(item) \/ Reinit(item) \/ \E head \in Heads : Add(head, item)
  \/ \E head \in Heads : list_for_each(head) \/ list_for_each_reverse(head) \/ list_for_each_safe(head)
  \/ loop # NoLoop /\ (Visit \/ VisitRemove \/ \E head \in Heads : VisitMove(head))
-----------------------------------------------------------------------------
(* Every head's list is the same in both directions, and the lists hold    *)
(* exactly the listed items, each once.                                    *)
NodesStayLinked ==
  /\ \A h \in Heads : Backward(h) = Reverse(Forward(h)) /\ IsInjective(Forward(h))
  /\ UNION {ToSet(Forward(h)) : h \in Heads} = listed
  /\ \A g, h \in Heads : g # h => ToSet(Forward(g)) \cap ToSet(Forward(h)) = {}

(* A loop is at the first item it has not visited yet, whatever its body   *)
(* did to the others, and ends when none is left.                          *)
VisitsAll == IF loop = NoLoop THEN todo = <<>> ELSE todo # <<>> /\ loop.node = Head(todo)
=============================================================================
