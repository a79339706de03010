------------------------------ MODULE Vectors -------------------------------
(***************************************************************************)
(* include/utils/TypeHelpers.h, Vector.h, SortedVector.h and KeyedVector.h *)
(* over the storage of VectorImpl, whose source is not in the repository:  *)
(* vectors share a buffer until one of them is edited.  A vector built     *)
(* from a SortedVector shares its buffer too.  A cell is Raw or holds an   *)
(* object <<key, value>>; what is done to cells goes through the functions *)
(* of TypeHelpers.h, by the traits of the type.                            *)
(***************************************************************************)
EXTENDS Loops, FiniteSets, SequencesExt

CONSTANTS VectorNames,  \* Vector<T>
          KeyedNames,   \* KeyedVector<KEY, VALUE>
          Keys, Vals, Raw, NULL,
          Buffers, Cap, \* bound the buffers and their size
          Traits        \* the traits of the types considered

VARIABLES T,     \* the traits of the type: ctor, dtor, copy, move are trivial
          cell,  \* the memory: [Buffers \X 0 .. Cap - 1]
          vec,   \* [mStorage, mCount] of every vector
          map,   \* what a KeyedVector is meant to hold: the value of a key
          bad    \* an object was overwritten, or Raw was used as an object
vectorVars == <<T, cell, vec, map, bad>>

Names == VectorNames \cup KeyedNames
Objects == Keys \X Vals
x0 == [cell |-> cell, bad |-> bad]

(* TypeHelpers.h.  Without trivial destructors an object must not be       *)
(* constructed where one lives nor destroyed where none does; with them    *)
(* the calls are skipped and the object just ends.                         *)
strictly_order_type(l, r) == IF l < r THEN 1 ELSE 0
compare_type(l, r) == strictly_order_type(r, l) - strictly_order_type(l, r)
key_value_pair_less(a, b) == strictly_order_type(a[1], b[1])

(* A key_value_pair_t has a trait when its key and its value have it.      *)
aggregate_traits(k, v) == [trait \in DOMAIN k |-> k[trait] /\ v[trait]]

Put(x, d, o) == [cell |-> [x.cell EXCEPT ![d] = o], bad |-> x.bad \/ o = Raw \/ (~ T.dtor /\ x.cell[d] # Raw)]
Gone(x, s) == [cell |-> [x.cell EXCEPT ![s] = Raw], bad |-> x.bad \/ (~ T.dtor /\ x.cell[s] = Raw)]

destroy_type(x, b, p, n) ==
  LET One(k, y) == Gone(y, <<b, p + k - 1>>)
  IN  Loop(One, x, n)
copy_type(x, b, d, c, s, n) ==
  LET One(k, y) == Put(y, <<b, d + k - 1>>, y.cell[<<c, s + k - 1>>])
  IN  Loop(One, x, n)
(* The default constructor; a trivial one leaves what the memory held.     *)
Constructed == IF T.ctor THEN Objects ELSE {CHOOSE item \in Objects : TRUE}
splat_type(x, b, where, what, n) ==
  LET One(k, y) == Put(y, <<b, where + k - 1>>, what)
  IN  Loop(One, x, n)

(* memmove: the bytes go over at once and nothing is destroyed.            *)
memmove(x, b, d, s, n) ==
  LET from == {<<b, i>> : i \in s .. s + n - 1}
      to == {<<b, i>> : i \in d .. d + n - 1}
  IN  [x EXCEPT !.cell = [a \in DOMAIN @ |-> IF a \in to THEN @[<<b, s + a[2] - d>>]
                                             ELSE IF a \in from THEN Raw ELSE @[a]]]
Bytewise == (T.dtor /\ T.copy) \/ T.move
MoveOne(y, b, d, s) == Gone(Put(y, <<b, d>>, y.cell[<<b, s>>]), <<b, s>>)

move_forward_type(x, b, d, s, n) ==
  LET One(k, y) == MoveOne(y, b, d + n - k, s + n - k)
  IN  IF Bytewise THEN memmove(x, b, d, s, n) ELSE Loop(One, x, n)
move_backward_type(x, b, d, s, n) ==
  LET One(k, y) == MoveOne(y, b, d + k - 1, s + k - 1)
  IN  IF Bytewise THEN memmove(x, b, d, s, n) ELSE Loop(One, x, n)
-----------------------------------------------------------------------------
(* VectorImpl (external): shared storage, copied before it is edited.      *)
Empty == [mStorage |-> NULL, mCount |-> 0]
Sharers(V, b) == {m \in Names : V[m].mStorage = b}
New(V) == CHOOSE b \in Buffers : Sharers(V, b) = {}

editArrayImpl(x, V, v) ==
  LET old == V[v].mStorage
      b == New(V)
  IN  IF old # NULL /\ Sharers(V, old) = {v} THEN [x |-> x, V |-> V]
      ELSE [x |-> IF old = NULL THEN x ELSE copy_type(x, b, 0, old, 0, V[v].mCount),
            V |-> [V EXCEPT ![v].mStorage = b]]

_grow(x, V, v, where, amount) ==
  LET e == editArrayImpl(x, V, v)
  IN  [x |-> move_forward_type(e.x, e.V[v].mStorage, where + amount, where, V[v].mCount - where),
       V |-> [e.V EXCEPT ![v].mCount = @ + amount]]
_shrink(x, V, v, where, amount) ==
  LET e == editArrayImpl(x, V, v)
      b == e.V[v].mStorage
  IN  [x |-> move_backward_type(destroy_type(e.x, b, where, amount), b, where, where + amount,
                                V[v].mCount - where - amount),
       V |-> [e.V EXCEPT ![v].mCount = @ - amount]]
Free(x, b) == [cell |-> [a \in DOMAIN x.cell |-> IF a[1] = b THEN Raw ELSE x.cell[a]],
               bad |-> x.bad \/ (~ T.dtor /\ \E i \in 0 .. Cap - 1 : x.cell[<<b, i>>] # Raw)]
release_storage(x, V, v) ==
  LET b == V[v].mStorage
  IN  [x |-> IF b # NULL /\ Sharers(V, b) = {v} THEN Free(destroy_type(x, b, 0, V[v].mCount), b) ELSE x,
       V |-> [V EXCEPT ![v] = Empty]]
Splat(g, v, item, where, n) == [g EXCEPT !.x = splat_type(g.x, g.V[v].mStorage, where, item, n)]
_insert(x, V, v, item, where, n) == Splat(_grow(x, V, v, where, n), v, item, where, n)
_replace(x, V, v, item, i) ==
  LET e == editArrayImpl(x, V, v)
  IN  Splat([e EXCEPT !.x = destroy_type(e.x, e.V[v].mStorage, i, 1)], v, item, i, 1)

(* _indexOrderOf (external), by do_compare.                                *)
do_compare(item, k) == compare_type(item[1], k)
ItemAt(x, V, v, i) == x.cell[<<V[v].mStorage, i>>]
indexOf(x, V, v, k) ==
  LET at == {i \in 0 .. V[v].mCount - 1 : do_compare(ItemAt(x, V, v, i), k) = 0}
  IN  IF at = {} THEN -1 ELSE CHOOSE i \in at : TRUE
(* Mutant: a new item always goes to the end. *)
orderOf_Last(x, V, v, k) == V[v].mCount
orderOf(x, V, v, k) == Cardinality({i \in 0 .. V[v].mCount - 1 : do_compare(ItemAt(x, V, v, i), k) < 0})
_add(x, V, v, item) ==
  IF indexOf(x, V, v, item[1]) = -1 THEN _insert(x, V, v, item, orderOf(x, V, v, item[1]), 1)
  ELSE _replace(x, V, v, item, indexOf(x, V, v, item[1]))
_remove(x, V, v, k) ==
  IF indexOf(x, V, v, k) = -1 THEN [x |-> x, V |-> V] ELSE _shrink(x, V, v, indexOf(x, V, v, k), 1)
AddAll(x, V, v, src, n) ==
  LET One(i, r) == _add(r.x, r.V, v, ItemAt(x, V, src, i - 1)) IN Loop(One, [x |-> x, V |-> V], n)
-----------------------------------------------------------------------------
Keeps(r) == cell' = r.x.cell /\ bad' = r.x.bad /\ vec' = r.V /\ UNCHANGED T
Becomes(r) == Keeps(r) /\ UNCHANGED map
Size(v) == vec[v].mCount
itemAt(v, i) == ItemAt(x0, vec, v, i)

(* The map of a KeyedVector becomes m; other vectors have none.            *)
Maps(v, m) == map' = IF v \in KeyedNames THEN [map EXCEPT ![v] = m] ELSE map

Init ==
  /\ T \in {aggregate_traits(k, v) : k, v \in Traits} /\ bad = FALSE
  /\ cell = [a \in Buffers \X (0 .. Cap - 1) |-> Raw]
  /\ vec = [v \in Names |-> Empty]
  /\ map = [k \in KeyedNames |-> [key \in Keys |-> NULL]]

(* Vector(rhs) and operator=, of Vector or SortedVector: share the buffer. *)
assign(v, rhs) ==
  /\ v # rhs /\ (v \in KeyedNames => rhs \in KeyedNames)
  /\ LET r == release_storage(x0, vec, v)
     IN  Keeps([r EXCEPT !.V[v] = vec[rhs]])
  /\ v \in KeyedNames => Maps(v, map[rhs])
  /\ v \in VectorNames => UNCHANGED map
clear(v) ==
  /\ Size(v) > 0 /\ Keeps(release_storage(x0, vec, v))
  /\ Maps(v, [key \in Keys |-> NULL])

insertAt(v, item, where, n) ==
  /\ Size(v) + n <= Cap /\ Becomes(_insert(x0, vec, v, item, where, n))
insertVectorAt(v, src, where) ==
  /\ Size(src) > 0 /\ Size(v) + Size(src) <= Cap
  /\ LET g == _grow(x0, vec, v, where, Size(src))
     IN  Becomes([g EXCEPT !.x = copy_type(g.x, g.V[v].mStorage, where, vec[src].mStorage, 0, Size(src))])
replaceAt(v, item, i) == i < Size(v) /\ Becomes(_replace(x0, vec, v, item, i))
insertDefaultAt(v, where, n) == \E item \in Constructed : insertAt(v, item, where, n)
replaceByDefaultAt(v, i) == \E item \in Constructed : replaceAt(v, item, i)
removeItemsAt(v, i, n) ==
  /\ i + n <= Size(v) /\ Keeps(_shrink(x0, vec, v, i, n))
  /\ LET gone == {itemAt(v, j)[1] : j \in i .. i + n - 1}
     IN  Maps(v, [key \in Keys |-> IF key \in gone THEN NULL ELSE map[v][key]])
resize(v, n) ==
  IF n < Size(v) THEN removeItemsAt(v, n, Size(v) - n) ELSE n > Size(v) /\ insertDefaultAt(v, Size(v), n - Size(v))
(* Mutant: edits a shared buffer. *)
editItemAt_InPlace(v, i, item) ==
  i < Size(v) /\ Becomes([x |-> [x0 EXCEPT !.cell[<<vec[v].mStorage, i>>] = item], V |-> vec])
editItemAt(v, i, item) ==
  /\ i < Size(v)
  /\ LET e == editArrayImpl(x0, vec, v) IN Becomes([e EXCEPT !.x.cell[<<e.V[v].mStorage, i>>] = item])

(* KeyedVector.  mDefault of DefaultKeyedVector is NULL here.              *)
indexOfKey(k, key) == indexOf(x0, vec, k, key)
valueAt(k, i) == itemAt(k, i)[2]
keyAt(k, i) == itemAt(k, i)[1]


valueFor(k, key) ==
  LET i == indexOfKey(k, key) IN IF i >= 0 THEN valueAt(k, i) ELSE NULL

add(k, item) ==
  /\ Size(k) < Cap \/ indexOfKey(k, item[1]) # -1
  /\ Keeps(_add(x0, vec, k, item)) /\ Maps(k, [map[k] EXCEPT ![item[1]] = item[2]])
replaceValueFor(k, item) ==
  LET r == _remove(x0, vec, k, item[1])
  IN  /\ r.V[k].mCount < Cap /\ Keeps(_add(r.x, r.V, k, item))
      /\ Maps(k, [map[k] EXCEPT ![item[1]] = item[2]])
replaceValueAt(k, i, val) ==
  /\ i < Size(k)
  /\ LET e == editArrayImpl(x0, vec, k)
     IN  Keeps([e EXCEPT !.x.cell[<<e.V[k].mStorage, i>>] = <<@[1], val>>])
  /\ Maps(k, [map[k] EXCEPT ![keyAt(k, i)] = val])
editValueFor(k, key, val) ==
  LET i == indexOfKey(k, key) IN i # -1 /\ replaceValueAt(k, i, val)
removeItem(k, key) ==
  /\ indexOfKey(k, key) # -1 /\ Keeps(_remove(x0, vec, k, key))
  /\ Maps(k, [map[k] EXCEPT ![key] = NULL])

(* SortedVector::merge of a plain vector, which need not be sorted, nor    *)
(* have a key once; the last item of a key stays.                          *)
LastOf(v, key) ==
  LET at == {i \in 0 .. Size(v) - 1 : keyAt(v, i) = key}
  IN  valueAt(v, CHOOSE i \in at : \A j \in at : j <= i)
merge(k, v) ==
  LET keys == {keyAt(v, i) : i \in 0 .. Size(v) - 1}
  IN  /\ Size(v) > 0 /\ Size(k) + Cardinality(keys) <= Cap
      /\ Keeps(AddAll(x0, vec, k, v, Size(v)))
      /\ Maps(k, [key \in Keys |-> IF key \in keys THEN LastOf(v, key) ELSE map[k][key]])

VectorCalls(v) ==
  \/ \E i \in 0 .. Size(v) :
       \/ \E item \in Objects : (\E n \in 1 .. 2 : insertAt(v, item, i, n)) \/ replaceAt(v, item, i) \/ editItemAt(v, i, item)
       \/ \E n \in 1 .. 2 : insertDefaultAt(v, i, n)
       \/ replaceByDefaultAt(v, i)
       \/ \E w \in VectorNames \ {v} : insertVectorAt(v, w, i)
  \/ \E n \in 0 .. Cap : resize(v, n)
KeyedCalls(k) ==
  \/ \E item \in Objects : add(k, item) \/ replaceValueFor(k, item) \/ editValueFor(k, item[1], item[2])
  \/ \E i \in 0 .. Size(k) - 1, val \in Vals : replaceValueAt(k, i, val)
  \/ \E key \in Keys : removeItem(k, key)
  \/ \E v \in VectorNames : merge(k, v)
Calls(v) ==
  \/ clear(v) \/ \E w \in Names : assign(v, w)
  \/ \E i \in 0 .. Size(v) - 1 : \E n \in 1 .. 2 : removeItemsAt(v, i, n)
Next ==
  \/ \E v \in Names : Calls(v)
  \/ \E v \in VectorNames : VectorCalls(v)
  \/ \E k \in KeyedNames : KeyedCalls(k)
-----------------------------------------------------------------------------
Array(v) == [i \in 1 .. Size(v) |-> cell[<<vec[v].mStorage, i - 1>>]]

Arrays == [v \in Names |-> Array(v)]

Contents == INSTANCE SeqLists WITH val <- Arrays, ListNames <- Names, Values <- Objects
SequenceStep ==
  \/ UNCHANGED Arrays
  \/ \E v \in Names : Contents!Splice(v)
  \/ \E k \in KeyedNames : Contents!Merge(k)
(* Vectors refine sequences: an edit of one, in a buffer it shares or in   *)
(* one it must shift, changes its own contents and nobody else's.          *)
VectorsAreSequences == [][SequenceStep]_vectorVars

(* Sorted by key, one item for a key, although plain vectors may share the *)
(* buffer: what binary search and valueFor need.                           *)
KeysSorted ==
  \A k \in KeyedNames : \A i, j \in DOMAIN Array(k) : i < j => key_value_pair_less(Array(k)[i], Array(k)[j]) = 1

isIdenticalTo(k, l) == vec[k].mStorage = vec[l].mStorage
(* A KeyedVector is the map that its calls add up to, whatever buffers it  *)
(* shared on the way; vectors known to be identical hold the same items.   *)
KeyedIsMap ==
  /\ \A k \in KeyedNames, key \in Keys : valueFor(k, key) = map[k][key]
  /\ \A k, l \in KeyedNames : isIdenticalTo(k, l) => map[k] = map[l]

(* Every cell below mCount holds an object and no other cell does:         *)
(* moving within a buffer neither loses an object nor destroys one twice.  *)
CellsLive ==
  /\ ~ bad
  /\ \A v \in Names : \A i \in 1 .. Size(v) : Array(v)[i] # Raw
  /\ \A a \in DOMAIN cell : cell[a] # Raw => \E v \in Names : vec[v].mStorage = a[1] /\ a[2] < Size(v)
=============================================================================
