------------------------------- MODULE Lists --------------------------------
(***************************************************************************)
(* include/utils/List.h, kept a second time as include/sysutils/List.h: a  *)
(* ring of heap nodes around mpMiddle.  A client works on a few lists      *)
(* through their functions and through one iterator it keeps.              *)
(***************************************************************************)
EXTENDS Loops, SequencesExt, FiniteSetsExt

CONSTANTS ListNames, Values, NULL,
          Nodes      \* the addresses new can return: bounds the lists

VARIABLES nodes,     \* the allocated nodes, by address
          mpMiddle,  \* the node in the middle, of every list that exists
          it         \* the client's iterator, of a list, or NULL
listVars == <<nodes, mpMiddle, it>>

Bound == Cardinality(Nodes)
_Node(v, prev, next) == [val |-> v, prev |-> prev, next |-> next]
New(h) == CHOOSE a \in Nodes \ DOMAIN h : TRUE
Next_(h) == [a \in DOMAIN h |-> h[a].next]
Prev_(h) == [a \in DOMAIN h |-> h[a].prev]
Delete(h, a) == [b \in DOMAIN h \ {a} |-> h[b]]

(* insert before posn; the node is linked in the order of the source.      *)
insert(h, posn, v) ==
  LET a == New(h)
      linked == h @@ (a :> _Node(v, h[posn].prev, posn))
  IN  [[linked EXCEPT ![h[posn].prev].next = a] EXCEPT ![posn].prev = a]

insertRange(h, posn, first, last) ==
  LET One(k, x) == IF x.p = last THEN x ELSE [h |-> insert(x.h, posn, x.h[x.p].val), p |-> x.h[x.p].next]
  IN  Loop(One, [h |-> h, p |-> first], Bound).h

erase(h, posn) ==
  LET n == h[posn].next
      p == h[posn].prev
  IN  Delete([[h EXCEPT ![p].next = n] EXCEPT ![n].prev = p], posn)

eraseRange(h, first, last) ==
  LET One(k, x) == IF x.p = last THEN x ELSE [h |-> erase(x.h, x.p), p |-> x.h[x.p].next]
  IN  Loop(One, [h |-> h, p |-> first], Bound).h

clear(h, m) ==
  LET One(k, x) == IF x.p = m THEN x ELSE [h |-> Delete(x.h, x.p), p |-> x.h[x.p].next]
      h1 == Loop(One, [h |-> h, p |-> h[m].next], Bound).h
  IN  [h1 EXCEPT ![m].prev = m, ![m].next = m]

prep(h) == LET a == New(h) IN [h |-> h @@ (a :> _Node(NULL, a, a)), m |-> a]

(* distance(begin(), end()), which size() is.                              *)
distance(first, last) == Len(Walk(first, last, Next_(nodes), Bound))
size(l) == distance(nodes[mpMiddle[l]].next, mpMiddle[l])
empty(l) == nodes[mpMiddle[l]].next = mpMiddle[l]

(* operator=: elements that exist on both sides are assigned in place, the *)
(* rest is erased or copied.                                               *)
assign(h, dst, src) ==
  LET One(k, x) ==
        IF x.d = dst \/ x.s = src THEN x
        ELSE [h |-> [x.h EXCEPT ![x.d].val = x.h[x.s].val], d |-> x.h[x.d].next, s |-> x.h[x.s].next]
      e == Loop(One, [h |-> h, d |-> h[dst].next, s |-> h[src].next], Bound)
  IN  IF dst = src THEN h
      ELSE IF e.s = src THEN eraseRange(e.h, e.d, dst)
      ELSE insertRange(e.h, dst, e.s, src)
-----------------------------------------------------------------------------
Ring(l) == Walk(nodes[mpMiddle[l]].next, mpMiddle[l], Next_(nodes), Bound)
Room(n) == Cardinality(DOMAIN nodes) + n <= Cardinality(Nodes)
Held(l) == it # NULL /\ it.list = l

(* The client forgets its iterator when its element goes.                  *)
KeepIf(l, Ok) == it' = IF Held(l) /\ ~ Ok THEN NULL ELSE it

Init == nodes = <<>> /\ mpMiddle = [l \in {} |-> NULL] /\ it = NULL

Construct(l) ==
  /\ l \notin DOMAIN mpMiddle /\ Room(1)
  /\ LET p == prep(nodes) IN nodes' = p.h /\ mpMiddle' = mpMiddle @@ (l :> p.m)
  /\ UNCHANGED it

CopyConstruct(l, src) ==
  /\ l \notin DOMAIN mpMiddle /\ src \in DOMAIN mpMiddle /\ Room(1 + size(src))
  /\ LET p == prep(nodes)
     IN  /\ nodes' = insertRange(p.h, p.h[p.m].next, nodes[mpMiddle[src]].next, mpMiddle[src])
         /\ mpMiddle' = mpMiddle @@ (l :> p.m)
  /\ UNCHANGED it

Destroy(l) ==
  /\ nodes' = Delete(clear(nodes, mpMiddle[l]), mpMiddle[l])
  /\ mpMiddle' = [m \in DOMAIN mpMiddle \ {l} |-> mpMiddle[m]]
  /\ KeepIf(l, FALSE)

push_front(l, v) ==
  /\ Room(1)
  /\ nodes' = insert(nodes, nodes[mpMiddle[l]].next, v) /\ UNCHANGED <<mpMiddle, it>>
push_back(l, v) ==
  /\ Room(1)
  /\ nodes' = insert(nodes, mpMiddle[l], v) /\ UNCHANGED <<mpMiddle, it>>
Clear(l) ==
  /\ ~ empty(l) /\ nodes' = clear(nodes, mpMiddle[l])
  /\ KeepIf(l, it.node = mpMiddle[l]) /\ UNCHANGED mpMiddle
Assign(l, src) ==
  /\ Room(size(src) - size(l))
  /\ nodes' = assign(nodes, mpMiddle[l], mpMiddle[src])
  /\ KeepIf(l, it.node = mpMiddle[l] \/ \E i \in 1 .. size(src) : i <= size(l) /\ Ring(l)[i] = it.node)
  /\ UNCHANGED mpMiddle

begin(l) == it' = [list |-> l, node |-> nodes[mpMiddle[l]].next] /\ UNCHANGED <<nodes, mpMiddle>>
end(l) == it' = [list |-> l, node |-> mpMiddle[l]] /\ UNCHANGED <<nodes, mpMiddle>>
Increment == it' = [it EXCEPT !.node = nodes[it.node].next] /\ UNCHANGED <<nodes, mpMiddle>>
Decrement == it' = [it EXCEPT !.node = nodes[it.node].prev] /\ UNCHANGED <<nodes, mpMiddle>>

(* *it != end(): calls that read or erase the element.                     *)
AtElement == it.node # mpMiddle[it.list]

InsertHere(v) ==
  /\ Room(1)
  /\ nodes' = insert(nodes, it.node, v)
  /\ it' = [it EXCEPT !.node = New(nodes)]
  /\ UNCHANGED mpMiddle
InsertRangeHere(src) ==
  /\ src # it.list /\ Room(size(src))
  /\ nodes' = insertRange(nodes, it.node, nodes[mpMiddle[src]].next, mpMiddle[src])
  /\ UNCHANGED <<mpMiddle, it>>
EraseHere ==
  /\ AtElement /\ nodes' = erase(nodes, it.node)
  /\ it' = [it EXCEPT !.node = nodes[it.node].next] /\ UNCHANGED mpMiddle
EraseToEnd ==
  /\ AtElement /\ nodes' = eraseRange(nodes, it.node, mpMiddle[it.list])
  /\ it' = [it EXCEPT !.node = mpMiddle[it.list]] /\ UNCHANGED mpMiddle

Next ==
  \/ \E l \in ListNames : Construct(l) \/ (\E src \in ListNames : CopyConstruct(l, src))
  \/ \E l \in DOMAIN mpMiddle :
       \/ Destroy(l) \/ Clear(l) \/ begin(l) \/ end(l)
       \/ \E v \in Values : push_front(l, v) \/ push_back(l, v)
       \/ \E src \in DOMAIN mpMiddle : Assign(l, src)
  \/ /\ it # NULL
     /\ \/ Increment \/ Decrement \/ EraseHere \/ EraseToEnd
        \/ \E v \in Values : InsertHere(v)
        \/ \E src \in DOMAIN mpMiddle : InsertRangeHere(src)
Spec == Init /\ [][Next]_listVars
-----------------------------------------------------------------------------
(* Every list is one ring in both directions, no node is on two rings or   *)
(* on none, and the iterator the client kept points into its list: nodes   *)
(* are neither leaked nor used after they are deleted.                     *)
RingsAreWhole ==
  /\ \A l \in DOMAIN mpMiddle :
       /\ Reverse(Ring(l)) = Walk(nodes[mpMiddle[l]].prev, mpMiddle[l], Prev_(nodes), Bound)
       /\ IsInjective(Ring(l))
  /\ DOMAIN nodes = UNION {ToSet(Ring(l)) \cup {mpMiddle[l]} : l \in DOMAIN mpMiddle}
  /\ it # NULL => it.node \in ToSet(Ring(it.list)) \cup {mpMiddle[it.list]}

Values_(l) == [i \in DOMAIN Ring(l) |-> nodes[Ring(l)[i]].val]
Contents == INSTANCE SeqLists WITH val <- [l \in DOMAIN mpMiddle |-> Values_(l)]
(* The lists refine sequences of values: an operation changes one of them  *)
(* and splices its values as SeqLists says.                                *)
AreSequences == Contents!Spec

(* After l = src the lists are equal: elements assigned in place, elements *)
(* copied at the end and elements erased add up to src.                    *)
AssignCopies ==
  [][\A l, src \in DOMAIN mpMiddle : Assign(l, src) => Values_(l)' = Values_(src)]_listVars
=============================================================================
