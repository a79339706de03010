------------------------------ MODULE LruCache ------------------------------
(***************************************************************************)
(* include/utils/LruCache.h: entries on the heap, linked from mOldest to   *)
(* mYoungest by child and back by parent, and a hash set of the same       *)
(* entries.  The listener is called by remove() when the entry has left    *)
(* the set and is still linked; it may call the cache again, so a removal  *)
(* in progress is a frame of a stack.                                      *)
(***************************************************************************)
EXTENDS Loops, FiniteSets, SequencesExt

CONSTANTS Keys, Values, NULL,
          Heap,          \* the addresses new can return: bounds the entries
          mMaxCapacity,  \* 0 is kUnlimitedCapacity
          MaxDepth       \* bound on calls inside listener calls

VARIABLES heap,       \* the allocated entries, by address
          mSet, mListener, mOldest, mYoungest,
          stack,      \* removals whose listener call has not returned
          listenerPut,\* the listener has called put since the last clear
          ret         \* what the last call returned
lruVars == <<heap, mSet, mListener, mOldest, mYoungest, stack, listenerPut, ret>>

New(h) == CHOOSE a \in Heap \ DOMAIN h : TRUE
Entry(k, v) == [key |-> k, value |-> v, parent |-> NULL, child |-> NULL]

(* The pointers the member functions work on.                              *)
Cache == [heap |-> heap, mOldest |-> mOldest, mYoungest |-> mYoungest]
Becomes(c) == heap' = c.heap /\ mOldest' = c.mOldest /\ mYoungest' = c.mYoungest

findByKey(k) == {a \in mSet : heap[a].key = k}

attachToCache(c, a) ==
  IF c.mYoungest = NULL THEN [c EXCEPT !.mYoungest = a, !.mOldest = a]
  ELSE [c EXCEPT !.heap[a].parent = c.mYoungest, !.heap[c.mYoungest].child = a, !.mYoungest = a]

(* Mutant: the removed entry keeps its child. *)
detachFromCache_Stale(c, a) ==
  LET e == c.heap[a]
      up == IF e.parent # NULL THEN [c EXCEPT !.heap[e.parent].child = e.child] ELSE [c EXCEPT !.mOldest = e.child]
      down == IF e.child # NULL THEN [up EXCEPT !.heap[e.child].parent = e.parent] ELSE [up EXCEPT !.mYoungest = e.parent]
  IN  [down EXCEPT !.heap[a].parent = NULL]
detachFromCache(c, a) ==
  LET e == c.heap[a]
      up == IF e.parent # NULL THEN [c EXCEPT !.heap[e.parent].child = e.child] ELSE [c EXCEPT !.mOldest = e.child]
      down == IF e.child # NULL THEN [up EXCEPT !.heap[e.child].parent = e.parent] ELSE [up EXCEPT !.mYoungest = e.parent]
  IN  [down EXCEPT !.heap[a].parent = NULL, !.heap[a].child = NULL]

Delete(c, as) == [c EXCEPT !.heap = [a \in DOMAIN @ \ as |-> @[a]]]

(* The end of put: an entry that is not there yet is new and youngest.     *)
Insert(c, set, k, v) ==
  IF \E a \in set : c.heap[a].key = k
    THEN /\ Becomes(c) /\ mSet' = set /\ ret' = FALSE
    ELSE LET a == New(c.heap)
         IN  /\ Becomes(attachToCache([c EXCEPT !.heap = @ @@ (a :> Entry(k, v))], a))
             /\ mSet' = set \cup {a} /\ ret' = TRUE

(* What follows a removal: nothing, or the rest of put.                    *)
Return == [op |-> "return"]
Resume(c, set, then) ==
  IF then.op = "put" THEN Insert(c, set, then.key, then.value)
  ELSE Becomes(c) /\ mSet' = set /\ ret' = TRUE

(* remove(): out of the set, listener, out of the list, delete.            *)
RemoveEntry(a, then) ==
  LET set == mSet \ {a}
  IN  /\ IF mListener THEN /\ stack' = Append(stack, [entry |-> a, then |-> then])
                           /\ mSet' = set
                           /\ UNCHANGED <<heap, mOldest, mYoungest, ret>>
         ELSE /\ Resume(Delete(detachFromCache(Cache, a), {a}), set, then)
              /\ UNCHANGED stack
      /\ UNCHANGED mListener
-----------------------------------------------------------------------------
Init ==
  /\ heap = <<>> /\ mSet = {} /\ mListener = FALSE
  /\ mOldest = NULL /\ mYoungest = NULL
  /\ stack = <<>> /\ listenerPut = FALSE /\ ret = FALSE

Calls == Len(stack) <= MaxDepth

setOnEntryRemovedListener(l) ==
  /\ stack = <<>> /\ mListener' = l
  /\ UNCHANGED <<heap, mSet, mOldest, mYoungest, stack, listenerPut, ret>>

get(k) ==
  /\ Calls
  /\ \/ /\ findByKey(k) = {} /\ ret' = NULL
        /\ UNCHANGED <<heap, mOldest, mYoungest>>
     \/ \E a \in findByKey(k) :
          /\ Becomes(attachToCache(detachFromCache(Cache, a), a))
          /\ ret' = heap[a].value
  /\ UNCHANGED <<mSet, mListener, stack, listenerPut>>

(* mOldest is sought by its key: inside the listener it may be the entry   *)
(* that has just left the set.                                             *)
Oldest == IF mOldest = NULL THEN {} ELSE findByKey(heap[mOldest].key)

put(k, v) ==
  /\ Calls /\ Cardinality(DOMAIN heap) < Cardinality(Heap)
  /\ listenerPut' = (listenerPut \/ stack # <<>>)
  /\ IF mMaxCapacity # 0 /\ Cardinality(mSet) >= mMaxCapacity /\ Oldest # {}
       THEN \E a \in Oldest : RemoveEntry(a, [op |-> "put", key |-> k, value |-> v])
       ELSE Insert(Cache, mSet, k, v) /\ UNCHANGED <<mListener, stack>>

remove(k) ==
  /\ Calls
  /\ \/ /\ findByKey(k) = {} /\ ret' = FALSE
        /\ UNCHANGED <<heap, mSet, mListener, mOldest, mYoungest, stack>>
     \/ \E a \in findByKey(k) : RemoveEntry(a, Return)
  /\ UNCHANGED listenerPut

removeOldest ==
  /\ Calls
  /\ \/ /\ Oldest = {} /\ ret' = FALSE
        /\ UNCHANGED <<heap, mSet, mListener, mOldest, mYoungest, stack>>
     \/ \E a \in Oldest : RemoveEntry(a, Return)
  /\ UNCHANGED listenerPut

peekOldestValue ==
  /\ Calls /\ ret' = IF mOldest = NULL THEN NULL ELSE heap[mOldest].value
  /\ UNCHANGED <<heap, mSet, mListener, mOldest, mYoungest, stack, listenerPut>>

(* The listener of the innermost removal returns.                          *)
ListenerReturns ==
  /\ stack # <<>>
  /\ LET f == Last(stack)
     IN  Resume(Delete(detachFromCache(Cache, f.entry), {f.entry}), mSet, f.then)
  /\ stack' = Front(stack)
  /\ UNCHANGED <<mListener, listenerPut>>

(* clear() and the destructor, never inside a listener call: they would    *)
(* delete entries that call still uses.  The listener is told of every     *)
(* linked entry and does not call back.                                    *)
clear ==
  /\ stack = <<>>
  /\ mOldest' = NULL /\ mYoungest' = NULL
  /\ heap' = Delete(Cache, mSet).heap /\ mSet' = {}
  /\ listenerPut' = FALSE /\ ret' = Len(Walk(mOldest, NULL, [a \in DOMAIN heap |-> heap[a].child], Cardinality(Heap)))
  /\ UNCHANGED <<mListener, stack>>

Next ==
  \/ \E l \in BOOLEAN : setOnEntryRemovedListener(l)
  \/ \E k \in Keys : get(k) \/ remove(k)
  \/ \E k \in Keys, v \in Values : put(k, v)
  \/ removeOldest \/ peekOldestValue \/ ListenerReturns \/ clear
Spec == Init /\ [][Next]_lruVars
-----------------------------------------------------------------------------
Linked == Walk(mOldest, NULL, [a \in DOMAIN heap |-> heap[a].child], Cardinality(Heap) + 1)
LinkedBack == Walk(mYoungest, NULL, [a \in DOMAIN heap |-> heap[a].parent], Cardinality(Heap) + 1)
Removing == {stack[i].entry : i \in DOMAIN stack}

(* The two chains are the same list, it holds exactly the entries of the   *)
(* set and the ones being removed, and no other entry is on the heap: no   *)
(* dangling pointer and no leak, whatever the listener calls.              *)
ListIsSet ==
  /\ LinkedBack = Reverse(Linked)
  /\ ToSet(Linked) = mSet \cup Removing /\ IsInjective(Linked)
  /\ DOMAIN heap = mSet \cup Removing

(* The capacity holds as long as the listener does not call put: a put     *)
(* inside the listener of an eviction finds room, and the put outside it   *)
(* does not look again.                                                    *)
CapacityKept ==
  mMaxCapacity # 0 /\ ~ listenerPut => Cardinality(mSet) <= mMaxCapacity

(* The map is what the set holds, in the order of the links.               *)
Recency ==
  INSTANCE RecencyMap WITH
    order <- LET inSet == SelectSeq(Linked, LAMBDA a : a \in mSet)
             IN  [i \in DOMAIN inSet |-> <<heap[inSet[i]].key, heap[inSet[i]].value>>]
(* The cache refines the recency map: get, put, remove and every eviction, *)
(* with a listener that calls back, do what RecencyMap allows.             *)
KeepsRecency == Recency!Spec
=============================================================================
