---------------------------- MODULE MCContainers ----------------------------
(***************************************************************************)
(* The containers of the Android headers, one per behaviour.  They share   *)
(* the addresses that new and malloc return, of which some need more.      *)
(***************************************************************************)
EXTENDS Naturals, TLC

CONSTANTS Addresses, Other, NULL, Raw, NoLoop, Heads, Items, W, Bits, BITS_PER_WORD, num_bits

VARIABLES part,
          heap, mSet, mListener, mOldest, mYoungest, stack, listenerPut, ret,
          nodes, mpMiddle, it,
          next, prev, listed, loop, todo,
          T, cell, vec, map, bad,
          value, marked, bitmask, inUse
lruVars == <<heap, mSet, mListener, mOldest, mYoungest, stack, listenerPut, ret>>
listVars == <<nodes, mpMiddle, it>>
nodeVars == <<next, prev, listed, loop, todo>>
vectorVars == <<T, cell, vec, map, bad>>
bitVars == <<value, marked, bitmask, inUse>>

(* Nothing trivial; moved as bytes; no constructor nor destructor.         *)
Trait(d, c, m) == [ctor |-> d, dtor |-> d, copy |-> c, move |-> m]
SomeTraits == {Trait(FALSE, FALSE, FALSE), Trait(FALSE, FALSE, TRUE), Trait(TRUE, FALSE, FALSE)}

Lru == INSTANCE LruCache WITH Keys <- {1, 2, 3}, Values <- {7}, Heap <- Addresses, mMaxCapacity <- 2, MaxDepth <- 1
Lst == INSTANCE Lists WITH ListNames <- {"a", "b"}, Values <- {7, 8}, Nodes <- Addresses \cup {Other}
Nod == INSTANCE ListNodes
Vct == INSTANCE Vectors WITH VectorNames <- {"v", "w"}, KeyedNames <- {}, Keys <- {1, 2}, Vals <- {7},
                             Buffers <- Addresses, Cap <- 3, Traits <- SomeTraits
Key == INSTANCE Vectors WITH VectorNames <- {"v"}, KeyedNames <- {"k", "l"}, Keys <- {1, 2}, Vals <- {7, 8},
                             Buffers <- Addresses, Cap <- 2, Traits <- {Trait(FALSE, FALSE, FALSE)}
Bit == INSTANCE BitSets

Init ==
  /\ part \in {"lru", "list", "node", "vector", "keyed", "bits", "mask"}
  /\ Lru!Init /\ Lst!Init /\ Nod!Init /\ Bit!BitSetInit /\ Bit!MaskInit
  /\ IF part = "keyed" THEN Key!Init ELSE Vct!Init
  /\ part # "vector" => T = Trait(FALSE, FALSE, FALSE)
  /\ part # "bits" => value = {}

Cache == part = "lru" /\ Lru!Next /\ UNCHANGED <<part, listVars, nodeVars, vectorVars, bitVars>>
List == part = "list" /\ Lst!Next /\ UNCHANGED <<part, lruVars, nodeVars, vectorVars, bitVars>>
Node == part = "node" /\ Nod!Next /\ UNCHANGED <<part, lruVars, listVars, vectorVars, bitVars>>
Vector == part = "vector" /\ Vct!Next /\ UNCHANGED <<part, lruVars, listVars, nodeVars, bitVars>>
Keyed == part = "keyed" /\ Key!Next /\ UNCHANGED <<part, lruVars, listVars, nodeVars, bitVars>>
BitSet == part = "bits" /\ Bit!BitSetNext /\ UNCHANGED <<part, lruVars, listVars, nodeVars, vectorVars>>
Mask == part = "mask" /\ Bit!MaskNext /\ UNCHANGED <<part, lruVars, listVars, nodeVars, vectorVars>>

Next == Cache \/ List \/ Node \/ Vector \/ Keyed \/ BitSet \/ Mask
vars == <<part, lruVars, listVars, nodeVars, vectorVars, bitVars>>
Spec == Init /\ [][Next]_vars

Symmetry == Permutations(Addresses)
-----------------------------------------------------------------------------
Parted(K, V) == IF part = "keyed" THEN K ELSE V

(* No link dangles and no cell leaks, after any sequence of calls: the two *)
(* chains of LruCache, the rings of List, the embedded nodes of list.h     *)
(* while a loop over them removes items, and the objects in the buffers of *)
(* vectors.                                                                *)
LinksAreWhole ==
  /\ Lru!ListIsSet /\ Lst!RingsAreWhole /\ Nod!NodesStayLinked /\ Nod!VisitsAll
  /\ Parted(Key!CellsLive, Vct!CellsLive)

(* A container holds what its calls add up to: LruCache no more than its   *)
(* capacity (unless the listener calls put), SortedVector one item for a   *)
(* key and in order, KeyedVector its map, BitSet its marks, and a bit mask *)
(* the resources in use.                                                   *)
ContentsAreRight ==
  /\ Lru!CapacityKept
  /\ Parted(Key!KeysSorted /\ Key!KeyedIsMap, Vct!KeysSorted)
  /\ Bit!BitSetIsSet /\ Bit!MaskAllocates

(* LruCache implements a map in the order of last use (RecencyMap), and    *)
(* List and Vector sequences of values (SeqLists), of which a call changes *)
(* one, whatever the others share with it; List::operator= copies.         *)
ContainersImplement ==
  /\ Lru!KeepsRecency
  /\ Lst!AreSequences /\ Lst!AssignCopies
  /\ [][Parted(Key!SequenceStep, Vct!SequenceStep)]_vectorVars
=============================================================================
