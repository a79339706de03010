--------------------------- MODULE PointerProofs ----------------------------
(***************************************************************************)
(* Proofs about the pointers of MCConcurrency, for any finite sets of      *)
(* threads, objects and pointers, and any addresses.                       *)
(***************************************************************************)
EXTENDS MCConcurrency, Integers, Sequences, FiniteSetTheorems, SequenceTheorems, TLAPS

-----------------------------------------------------------------------------
(* Types *)

Slots == Ref!Slots
Strong == Ref!Strong
Weak == Slots \ Strong
Pointers == Objects \cup {NULL}
Sp(t) == {Ref!sp(t, i) : i \in Locals[t]}
Counting == {"incStrong", "decStrong", "incWeak", "decWeak", "delete", "free"}
Oper ==
  [op : Counting, obj : Objects]
    \cup [op : {"set"}, slot : Slots, obj : Pointers]
    \cup [op : {"take"}, slot : Slots, from : Slots]
    \cup [op : {"attemptIncStrong"}, slot : Slots, obj : Objects]

RefTypes ==
  /\ life \in [Objects -> {"none", "live", "freed"}]
  /\ mCount \in [Objects -> Int] /\ mWeak \in [Objects -> Int]
  /\ m_ptr \in [Slots -> Pointers]
  /\ todo \in [Users -> Seq(Oper)]
  /\ DOMAIN creator = Objects /\ \A o \in Objects : life[o] = "none" => creator[o] = NULL

-----------------------------------------------------------------------------
(* The lists of operations *)

At(t) == 1 .. Len(todo[t])
Writes == {"set", "take", "free"}

(* The slot an operation writes; free destroys the member.                 *)
Target(c) == IF c.op = "free" THEN Ref!member(c.obj) ELSE c.slot

(* The slots a thread may write while it is in a call: its own, and the    *)
(* member of an object of its own that it holds.                           *)
Own(t) ==
  Sp(t) \cup {Ref!wp(t)}
    \cup {Ref!member(o) : o \in {p \in Objects : creator[p] = t /\ \E s \in Sp(t) : m_ptr[s] = p}}

(* What a move to d takes from: its own, and the member of an object of    *)
(* its own that it holds by another pointer.                               *)
Lends(t, d, f, c) ==
  Sp(t) \cup {Ref!member(o) : o \in {p \in Objects : c[p] = t /\ \E s \in Sp(t) \ {d} : f[s] = p}}

(* The two writes of a move constructor.                                   *)
Moving(t) ==
  LET q == todo[t]
  IN  /\ Len(q) = 2 /\ q[1].op = "set" /\ q[2].op = "set" /\ {q[1].slot, q[2].slot} \subseteq Sp(t)
      /\ q[1].slot # q[2].slot /\ q[1].obj = m_ptr[q[2].slot] /\ q[2].obj = NULL

(* First the new pointer is counted, then the old one given up, which may  *)
(* begin a chain of deletes, and at last the slot is written.              *)
InOrder(t) ==
  LET q == todo[t]
  IN  \A k \in At(t) :
        /\ k > 1 => \/ q[k].op \in Writes
                    \/ k = 2 /\ q[1].op = "incStrong" /\ q[2].op = "decStrong"
                    \/ k = 2 /\ q[1].op = "incWeak" /\ q[2].op = "decWeak"
        /\ k = Len(q) => q[k].op \in {"set", "take", "attemptIncStrong"}
        /\ k < Len(q) => q[k].op \notin {"take", "attemptIncStrong"}
        /\ k < Len(q) /\ q[k].op = "set" => Moving(t)

(* What each operation relies on.                                          *)
Relies(t) ==
  LET q == todo[t]  n == Len(todo[t])
  IN  \A k \in At(t) :
        /\ q[k].op = "decStrong" => Target(q[k + 1]) \in Strong /\ m_ptr[Target(q[k + 1])] = q[k].obj
        /\ q[k].op = "decWeak" => /\ q[k + 1].op = "set" /\ q[k + 1].slot = Ref!wp(t)
                                  /\ m_ptr[Ref!wp(t)] = q[k].obj
        /\ q[k].op = "incStrong" => q[n].op = "set" /\ q[n].slot \in Strong /\ q[n].obj = q[k].obj
        /\ q[k].op = "incWeak" => q[n].op = "set" /\ q[n].slot = Ref!wp(t) /\ q[n].obj = q[k].obj
        /\ q[k].op \in {"incStrong", "incWeak"} =>
             \/ n = 3 /\ q[2].op \in {"decStrong", "decWeak"}
             \/ n = 2 /\ m_ptr[q[2].slot] = NULL
        /\ q[k].op \in {"set", "take"} => q[k].slot \in Own(t)
        /\ q[k].op = "take" => q[k].slot \in Strong /\ q[k].from \in Lends(t, q[k].slot, m_ptr, creator)
        /\ q[k].op = "attemptIncStrong" => /\ n = 1 /\ q[k].slot \in Sp(t) /\ m_ptr[q[k].slot] = NULL
                                           /\ m_ptr[Ref!wp(t)] = q[k].obj

-----------------------------------------------------------------------------
(* Who holds an object *)

(* The reference of the slot that is written at k has been given up.       *)
Given(q, k) == q[k].op \in Writes /\ (k > 1 => q[k - 1].op \notin {"decStrong", "decWeak", "set"})
Kept(s) == \A t \in Users : \A k \in At(t) : Given(todo[t], k) => Target(todo[t][k]) # s

(* The object that is counted for a slot in S that is not yet written.     *)
Coming(t, S) ==
  LET q == todo[t]
  IN  IF q # <<>> /\ q[Len(q)].op = "set" /\ q[Len(q)].slot \in S /\ q[1].op \notin {"incStrong", "incWeak"}
      THEN q[Len(q)].obj ELSE NULL

(* What a slot holds, and who holds an object: slots and calls.            *)
Held(s) == IF Kept(s) THEN m_ptr[s] ELSE NULL
Token(t) == <<"new", t>>
Holders(o, S) ==
  {s \in S : Held(s) = o} \cup {Token(t) : t \in {u \in Users : Coming(u, S) = o}}

Counted ==
  \A o \in Objects :
    mCount[o] = Cardinality(Holders(o, Strong)) /\ mWeak[o] = Cardinality(Holders(o, Weak))

-----------------------------------------------------------------------------
(* Life and death *)

Dooms(c) == c.op \in {"delete", "free"}

(* An object that is being deleted has no reference, and one thread does   *)
(* it, once.                                                               *)
Destroys(t) == {todo[t][k].obj : k \in {j \in At(t) : Dooms(todo[t][j])}}
OnceEach(t) ==
  \A j, k \in At(t) :
    Dooms(todo[t][j]) /\ Dooms(todo[t][k]) /\ todo[t][j].obj = todo[t][k].obj => j = k
Doomed ==
  \A t \in Users :
    /\ OnceEach(t)
    /\ \A o \in Destroys(t) :
         /\ mCount[o] = 0 /\ life[o] = "live"
         /\ \A u \in Users : o \in Destroys(u) => u = t

(* A thread that begins to count an object holds it, or has just made it.  *)
Begins(t, o) == todo[t] # <<>> /\ todo[t][1].op = "incStrong" /\ todo[t][1].obj = o
Fresh(t, o) ==
  /\ Begins(t, o) /\ mCount[o] = 0 /\ life[o] = "live"
  /\ \A u \in Users : o \notin Destroys(u) /\ (Begins(u, o) => u = t)
Source(t) ==
  \A o \in Objects : Begins(t, o) => Fresh(t, o) \/ \E s \in Own(t) \cap Strong : m_ptr[s] = o

Living ==
  \A o \in Objects :
    /\ mCount[o] > 0 => life[o] = "live"
    /\ life[o] = "live" /\ mCount[o] = 0 =>
         \E t \in Users : Begins(t, o) \/ o \in Destroys(t)

RefInv ==
  /\ RefTypes /\ \A t \in Users : InOrder(t) /\ Relies(t) /\ Source(t)
  /\ Counted /\ Doomed /\ Living /\ ~wrong

-----------------------------------------------------------------------------
(* Slots *)

(* Slots of different kinds, threads and objects are different.            *)
LEMMA SlotKinds ==
  /\ \A t, u, i, j : Ref!sp(t, i) = Ref!sp(u, j) => t = u /\ i = j
  /\ \A t, u : Ref!wp(t) = Ref!wp(u) => t = u
  /\ \A o, p : Ref!member(o) = Ref!member(p) => o = p
  /\ \A t, u : Token(t) = Token(u) => t = u
  /\ \A t, u, i, o : /\ Ref!sp(t, i) # Ref!wp(u) /\ Ref!sp(t, i) # Ref!member(o)
                     /\ Ref!wp(t) # Ref!member(o)
                     /\ Token(t) # Ref!sp(u, i) /\ Token(t) # Ref!wp(u) /\ Token(t) # Ref!member(o)
  BY DEF Ref!sp, Ref!wp, Ref!member, Token

LEMMA SlotTags ==
  /\ \A t, i : Ref!sp(t, i)[1] = "sp"
  /\ \A t : Ref!wp(t)[1] = "wp"
  /\ \A o : Ref!member(o)[1] = "member"
  BY DEF Ref!sp, Ref!wp, Ref!member

LEMMA SlotsAre ==
  Slots = (UNION {Sp(t) : t \in Users}) \cup {Ref!wp(t) : t \in Users}
            \cup {Ref!member(o) : o \in Objects}
  BY DEF Slots, Ref!Slots, Sp

(* What the sets of slots contain.                                         *)
LEMMA SlotSets ==
  /\ \A t \in Users : Sp(t) \subseteq Strong /\ Ref!wp(t) \in Weak
  /\ \A o \in Objects : Ref!member(o) \in Strong
  /\ \A s \in Weak : \E t \in Users : s = Ref!wp(t)
  /\ \A s \in Strong : \/ \E t \in Users : s \in Sp(t)
                       \/ \E o \in Objects : s = Ref!member(o)
  /\ Strong \subseteq Slots /\ Weak \subseteq Slots /\ Strong \cap Weak = {}
  /\ \A t : Token(t) \notin Slots
<1>1. /\ \A t \in Users : Sp(t) \subseteq Slots /\ Ref!wp(t) \in Slots
      /\ \A o \in Objects : Ref!member(o) \in Slots
      /\ \A s \in Slots : \/ \E t \in Users : s \in Sp(t)
                          \/ \E t \in Users : s = Ref!wp(t)
                          \/ \E o \in Objects : s = Ref!member(o)
  BY SlotsAre
<1>2. Strong = {s \in Slots : s[1] # "wp"}
  BY DEF Strong, Ref!Strong, Slots
<1>3. \A t \in Users : \A s \in Sp(t) : s[1] = "sp"
  BY SlotTags DEF Sp
<1>4. \A t : Token(t) \notin Slots
  <2> SUFFICES ASSUME NEW t, Token(t) \in Slots PROVE FALSE
    OBVIOUS
  <2>1. \A u, i : Token(t) # Ref!sp(u, i) /\ Token(t) # Ref!wp(u) /\ Token(t) # Ref!member(u)
    BY SlotKinds, Zenon
  <2> QED
    BY <1>1, <2>1 DEF Sp
<1> QED
  BY <1>1, <1>2, <1>3, <1>4, SlotTags DEF Weak

LEMMA SpKinds ==
  ASSUME NEW t \in Users
  PROVE  /\ \A u \in Users : u # t => Sp(t) \cap Sp(u) = {}
         /\ \A o : Ref!member(o) \notin Sp(t)
         /\ \A u : Ref!wp(u) \notin Sp(t)
  BY SlotKinds DEF Sp

(* There are finitely many of them.                                        *)
LEMMA ImageFinite ==
  ASSUME NEW f, IsFiniteSet(DOMAIN f), NEW T, T = {f[x] : x \in DOMAIN f}
  PROVE  IsFiniteSet(T)
<1>1. [x \in DOMAIN f |-> f[x]] \in Surjection(DOMAIN f, T)
  BY DEF Surjection
<1> QED
  BY <1>1, FS_Surjection

LEMMA SlotsFinite == IsFiniteSet(Slots)
<1>1. ASSUME NEW t \in Users PROVE IsFiniteSet(Sp(t))
  <2> DEFINE f == [i \in Locals[t] |-> Ref!sp(t, i)]
  <2>1. Sp(t) = {f[i] : i \in DOMAIN f} /\ DOMAIN f = Locals[t]
    BY DEF Sp
  <2> QED
    BY <2>1, PointersAssumption, ImageFinite
<1>2. IsFiniteSet({Sp(t) : t \in Users})
  <2> DEFINE f == [t \in Users |-> Sp(t)]
  <2>1. {Sp(t) : t \in Users} = {f[i] : i \in DOMAIN f} /\ DOMAIN f = Users
    OBVIOUS
  <2> QED
    BY <2>1, PointersAssumption, ImageFinite
<1>3. IsFiniteSet(UNION {Sp(t) : t \in Users})
  BY <1>1, <1>2, FS_UNION
<1>4. IsFiniteSet({Ref!wp(t) : t \in Users})
  <2> DEFINE f == [t \in Users |-> Ref!wp(t)]
  <2>1. {Ref!wp(t) : t \in Users} = {f[i] : i \in DOMAIN f} /\ DOMAIN f = Users
    OBVIOUS
  <2> QED
    BY <2>1, PointersAssumption, ImageFinite
<1>5. IsFiniteSet({Ref!member(o) : o \in Objects})
  <2> DEFINE f == [o \in Objects |-> Ref!member(o)]
  <2>1. {Ref!member(o) : o \in Objects} = {f[i] : i \in DOMAIN f} /\ DOMAIN f = Objects
    OBVIOUS
  <2> QED
    BY <2>1, PointersAssumption, ImageFinite
<1> QED
  BY <1>3, <1>4, <1>5, SlotsAre, FS_Union

-----------------------------------------------------------------------------
(* Lists *)

LEMMA EmptyList ==
  ASSUME NEW q \in Seq(Oper)
  PROVE  q = <<>> <=> Len(q) = 0
  BY EmptySeq

(* The first operation is gone.                                            *)
LEMMA Popped ==
  ASSUME NEW q \in Seq(Oper), q # <<>>, NEW r, r = <<>> \o Tail(q)
  PROVE  /\ r \in Seq(Oper) /\ Len(r) = Len(q) - 1 /\ Len(q) \in Nat \ {0}
         /\ \A k \in 1 .. Len(r) : r[k] = q[k + 1]
         /\ Head(q) = q[1]
<1>1. Tail(q) \in Seq(Oper) /\ Len(Tail(q)) = Len(q) - 1 /\ Len(q) \in Nat \ {0}
      /\ \A k \in 1 .. Len(Tail(q)) : Tail(q)[k] = q[k + 1]
  BY HeadTailProperties, LenProperties, EmptySeq
<1>2. r = Tail(q)
  BY <1>1, ConcatEmptySeq
<1> QED
  BY <1>1, <1>2

(* The first operation is replaced by another one.                         *)
LEMMA Replaced ==
  ASSUME NEW q \in Seq(Oper), q # <<>>, NEW a \in Oper, NEW r, r = <<a>> \o Tail(q)
  PROVE  /\ r \in Seq(Oper) /\ Len(r) = Len(q) /\ Len(q) \in Nat \ {0}
         /\ r[1] = a /\ \A k \in 2 .. Len(r) : r[k] = q[k]
<1>1. Tail(q) \in Seq(Oper) /\ Len(Tail(q)) = Len(q) - 1 /\ Len(q) \in Nat \ {0}
      /\ \A k \in 1 .. Len(Tail(q)) : Tail(q)[k] = q[k + 1]
  BY HeadTailProperties, LenProperties, EmptySeq
<1>2. <<a>> \in Seq(Oper) /\ Len(<<a>>) = 1 /\ <<a>>[1] = a
  OBVIOUS
<1> HIDE DEF Oper
<1> DEFINE b == <<a>>
<1>3. b \in Seq(Oper) /\ Len(b) = 1 /\ b[1] = a /\ r = b \o Tail(q)
  BY <1>2
<1> HIDE DEF b
<1>4. r \in Seq(Oper) /\ Len(r) = 1 + Len(Tail(q))
      /\ \A k \in 1 .. 1 + Len(Tail(q)) : r[k] = IF k <= 1 THEN b[k] ELSE Tail(q)[k - 1]
  BY <1>1, <1>3, ConcatProperties
<1> QED
  BY <1>1, <1>3, <1>4

(* The first operation is replaced by two.                                 *)
LEMMA Expanded ==
  ASSUME NEW q \in Seq(Oper), q # <<>>, NEW a \in Oper, NEW c \in Oper, NEW r, r = (<<a>> \o <<c>>) \o Tail(q)
  PROVE  /\ r \in Seq(Oper) /\ Len(r) = Len(q) + 1 /\ Len(q) \in Nat \ {0}
         /\ r[1] = a /\ r[2] = c /\ \A k \in 3 .. Len(r) : r[k] = q[k - 1]
<1>1. Tail(q) \in Seq(Oper) /\ Len(Tail(q)) = Len(q) - 1 /\ Len(q) \in Nat \ {0}
      /\ \A k \in 1 .. Len(Tail(q)) : Tail(q)[k] = q[k + 1]
  BY HeadTailProperties, LenProperties, EmptySeq
<1> DEFINE b == <<a>> \o <<c>>
<1>2. b \in Seq(Oper) /\ Len(b) = 2 /\ b[1] = a /\ b[2] = c /\ r = b \o Tail(q)
  OBVIOUS
<1> HIDE DEF b
<1>3. b \o Tail(q) \in Seq(Oper) /\ Len(b \o Tail(q)) = Len(b) + Len(Tail(q))
      /\ \A k \in 1 .. Len(b) + Len(Tail(q)) :
           (b \o Tail(q))[k] = IF k <= Len(b) THEN b[k] ELSE Tail(q)[k - Len(b)]
  BY <1>1, <1>2, ConcatProperties, Zenon
<1>4. r \in Seq(Oper) /\ Len(r) = 2 + Len(Tail(q))
      /\ \A k \in 1 .. 2 + Len(Tail(q)) : r[k] = IF k <= 2 THEN b[k] ELSE Tail(q)[k - 2]
  BY <1>2, <1>3
<1> QED
  BY <1>1, <1>2, <1>4

(* The fields of an operation.                                             *)
LEMMA OperFields ==
  ASSUME NEW c \in Oper
  PROVE  /\ c.op \in Counting \cup {"set", "take", "attemptIncStrong"}
         /\ c.op \in Counting => c.obj \in Objects
         /\ c.op = "set" => c.slot \in Slots /\ c.obj \in Pointers
         /\ c.op = "take" => c.slot \in Slots /\ c.from \in Slots
         /\ c.op = "attemptIncStrong" => c.slot \in Slots /\ c.obj \in Objects
         /\ c.op \in Writes => Target(c) \in Slots
<1>1. \A o \in Objects : Ref!member(o) \in Slots
  BY SlotSets
<1> QED
  BY <1>1 DEF Oper, Counting, Writes, Target

LEMMA ListFacts ==
  ASSUME RefTypes, NEW t \in Users
  PROVE  /\ todo[t] \in Seq(Oper) /\ Len(todo[t]) \in Nat
         /\ todo[t] = <<>> <=> Len(todo[t]) = 0
         /\ \A k \in At(t) : k \in Nat /\ k >= 1 /\ k <= Len(todo[t]) /\ todo[t][k] \in Oper
         /\ \A k \in Nat : 1 <= k /\ k <= Len(todo[t]) => k \in At(t)
  BY LenProperties, ElementOfSeq, EmptyList DEF RefTypes, At

-----------------------------------------------------------------------------
(* Whose slots *)

(* What the proofs below need of all threads.                              *)
Lists == RefTypes /\ \A t \in Users : InOrder(t) /\ Relies(t)

LEMMA OwnSlots ==
  ASSUME NEW t \in Users
  PROVE  /\ Sp(t) \subseteq Own(t) /\ Ref!wp(t) \in Own(t)
         /\ \A s \in Own(t) : \/ s \in Sp(t) \/ s = Ref!wp(t)
                              \/ \E o \in Objects : /\ s = Ref!member(o) /\ creator[o] = t
                                                    /\ \E r \in Sp(t) : m_ptr[r] = o
         /\ Own(t) \subseteq Slots
  BY SlotSets DEF Own

LEMMA OwnApart ==
  ASSUME NEW t \in Users, NEW u \in Users, t # u, NEW s \in Own(t)
  PROVE  s \notin Own(u)
<1>1. CASE s \in Sp(t)
  BY <1>1, OwnSlots, SpKinds
<1>2. CASE s = Ref!wp(t)
  BY <1>2, OwnSlots, SpKinds, SlotKinds
<1>3. CASE \E o \in Objects : s = Ref!member(o) /\ creator[o] = t
  BY <1>3, OwnSlots, SpKinds, SlotKinds
<1> QED
  BY <1>1, <1>2, <1>3, OwnSlots

(* A thread writes its own slots and members of objects it destroys.       *)
LEMMA WritesOwn ==
  ASSUME Lists, NEW t \in Users, NEW k \in At(t), todo[t][k].op \in Writes
  PROVE  IF todo[t][k].op = "free" THEN Target(todo[t][k]) = Ref!member(todo[t][k].obj)
         ELSE Target(todo[t][k]) = todo[t][k].slot /\ todo[t][k].slot \in Own(t)
  BY DEF Lists, Relies, Writes, Target

(* Only a move constructor writes two slots of its own, both local.        *)
LEMMA OneOwn ==
  ASSUME Lists, NEW t \in Users, NEW j \in At(t), NEW k \in At(t), j < k,
         todo[t][j].op \in {"set", "take"}, todo[t][k].op \in {"set", "take"}
  PROVE  /\ Moving(t) /\ j = 1 /\ k = 2
         /\ todo[t][j].slot \in Sp(t) /\ todo[t][k].slot \in Sp(t) /\ todo[t][j].slot # todo[t][k].slot
<1>1. j < Len(todo[t]) /\ j \in Nat /\ k \in Nat /\ k <= Len(todo[t]) /\ 1 <= j
  BY ListFacts DEF Lists
<1>2. Moving(t)
  BY <1>1 DEF Lists, InOrder
<1> QED
  BY <1>1, <1>2 DEF Moving

(* While a thread writes no pointer of its own, nobody has given them up.  *)
LEMMA SpKept ==
  ASSUME Lists, NEW t \in Users, NEW s \in Sp(t),
         \A k \in At(t) : todo[t][k].op \in {"set", "take"} => todo[t][k].slot # s
  PROVE  Kept(s)
<1> SUFFICES ASSUME NEW u \in Users, NEW k \in At(u), Given(todo[u], k), Target(todo[u][k]) = s
             PROVE  FALSE
  BY DEF Kept
<1>1. todo[u][k].op \in Writes
  BY DEF Given
<1>2. todo[u][k].op # "free"
  BY <1>1, WritesOwn, SpKinds
<1>3. todo[u][k].op \in {"set", "take"} /\ todo[u][k].slot = s /\ s \in Own(u)
  BY <1>1, <1>2, WritesOwn DEF Writes
<1>4. u = t
  BY <1>3, OwnApart, OwnSlots
<1> QED
  BY <1>3, <1>4

(* What a kept slot points at is counted.                                  *)
LEMMA HoldersFinite ==
  ASSUME NEW o, NEW S, S \in SUBSET Slots
  PROVE  IsFiniteSet(Holders(o, S)) /\ Cardinality(Holders(o, S)) \in Nat
<1>1. IsFiniteSet({s \in S : Held(s) = o})
  BY SlotsFinite, FS_Subset
<1>2. IsFiniteSet({Token(t) : t \in {u \in Users : Coming(u, S) = o}})
  <2> DEFINE U == {u \in Users : Coming(u, S) = o}
             f == [t \in U |-> Token(t)]
  <2>1. IsFiniteSet(U)
    BY PointersAssumption, FS_Subset
  <2>2. {Token(t) : t \in U} = {f[i] : i \in DOMAIN f} /\ DOMAIN f = U
    OBVIOUS
  <2> HIDE DEF U, f
  <2>3. IsFiniteSet({Token(t) : t \in U})
    BY <2>1, <2>2, ImageFinite
  <2> QED
    BY <2>3 DEF U
<1> QED
  BY <1>1, <1>2, FS_Union, FS_CardinalityType DEF Holders

LEMMA KeptIsCounted ==
  ASSUME RefTypes, Counted, NEW o \in Objects, NEW s \in Strong, m_ptr[s] = o, Kept(s)
  PROVE  mCount[o] > 0
<1>1. s \in Holders(o, Strong)
  BY DEF Holders, Held
<1>2. IsFiniteSet(Holders(o, Strong)) /\ Cardinality(Holders(o, Strong)) \in Nat
  BY SlotSets, HoldersFinite
<1>3. Cardinality(Holders(o, Strong)) # 0
  BY <1>1, <1>2, FS_EmptySet
<1> QED
  BY <1>2, <1>3 DEF Counted

(* A member that a thread writes belongs to an object with references.     *)
LEMMA OwnMember ==
  ASSUME Lists, Counted, NEW t \in Users, NEW k \in At(t), todo[t][k].op \in {"set", "take"},
         NEW o \in Objects, todo[t][k].slot = Ref!member(o)
  PROVE  mCount[o] > 0 /\ creator[o] = t
<1>1. todo[t][k].slot \in Own(t)
  BY DEF Lists, Relies
<1>2. creator[o] = t /\ \E r \in Sp(t) : m_ptr[r] = o
  BY <1>1, OwnSlots, SpKinds, SlotKinds
<1>3. PICK r \in Sp(t) : m_ptr[r] = o
  BY <1>2
<1>4. \A j \in At(t) : todo[t][j].op \in {"set", "take"} => todo[t][j].slot # r
  <2> SUFFICES ASSUME NEW j \in At(t), todo[t][j].op \in {"set", "take"}, todo[t][j].slot = r
               PROVE  FALSE
    OBVIOUS
  <2>1. j # k
    BY SpKinds
  <2>2. j \in Nat /\ k \in Nat
    BY ListFacts DEF Lists
  <2> QED
    BY <2>1, <2>2, OneOwn, SpKinds
<1>5. Kept(r)
  BY <1>4, SpKept
<1>6. r \in Strong
  BY SlotSets
<1> QED
  BY <1>2, <1>3, <1>5, <1>6, KeptIsCounted DEF Lists

(* No two operations write the same slot.                                  *)
LEMMA OneWriter ==
  ASSUME Lists, Counted, Doomed,
         NEW t \in Users, NEW u \in Users, NEW j \in At(t), NEW k \in At(u),
         todo[t][j].op \in Writes, todo[u][k].op \in Writes, Target(todo[t][j]) = Target(todo[u][k])
  PROVE  t = u /\ j = k
<1>0. todo[t][j] \in Oper /\ todo[u][k] \in Oper /\ j \in Nat /\ k \in Nat
  BY ListFacts DEF Lists
<1>1. CASE todo[t][j].op = "free" /\ todo[u][k].op = "free"
  <2>1. todo[t][j].obj = todo[u][k].obj
    BY <1>1, SlotKinds DEF Target
  <2>2. todo[t][j].obj \in Destroys(t) /\ todo[u][k].obj \in Destroys(u)
    BY <1>1 DEF Destroys, Dooms
  <2>3. t = u
    BY <2>1, <2>2 DEF Doomed
  <2> QED
    BY <1>1, <2>1, <2>3 DEF Doomed, OnceEach, Dooms
<1>2. CASE todo[t][j].op = "free" /\ todo[u][k].op # "free"
  <2>1. todo[t][j].obj \in Objects /\ mCount[todo[t][j].obj] = 0
    BY <1>0, <1>2, OperFields DEF Doomed, Destroys, Dooms, Counting
  <2>2. todo[u][k].op \in {"set", "take"} /\ todo[u][k].slot = Ref!member(todo[t][j].obj)
    BY <1>2 DEF Target, Writes
  <2> QED
    BY <2>1, <2>2, OwnMember
<1>3. CASE todo[t][j].op # "free" /\ todo[u][k].op = "free"
  <2>1. todo[u][k].obj \in Objects /\ mCount[todo[u][k].obj] = 0
    BY <1>0, <1>3, OperFields DEF Doomed, Destroys, Dooms, Counting
  <2>2. todo[t][j].op \in {"set", "take"} /\ todo[t][j].slot = Ref!member(todo[u][k].obj)
    BY <1>3 DEF Target, Writes
  <2> QED
    BY <2>1, <2>2, OwnMember
<1>4. CASE todo[t][j].op # "free" /\ todo[u][k].op # "free"
  <2>1. /\ todo[t][j].op \in {"set", "take"} /\ todo[u][k].op \in {"set", "take"}
        /\ todo[t][j].slot = todo[u][k].slot
    BY <1>4 DEF Target, Writes
  <2>2. todo[t][j].slot \in Own(t) /\ todo[u][k].slot \in Own(u)
    BY <2>1 DEF Lists, Relies
  <2>3. t = u
    BY <2>1, <2>2, OwnApart
  <2> QED
    BY <1>0, <2>1, <2>3, OneOwn
<1> QED
  BY <1>1, <1>2, <1>3, <1>4

-----------------------------------------------------------------------------
(* References that come and go *)

Same(S) == (\A s \in S : Held(s)' = Held(s)) /\ \A u \in Users : Coming(u, S)' = Coming(u, S)

LEMMA SameHolders ==
  ASSUME NEW S, Same(S), NEW o
  PROVE  Holders(o, S)' = Holders(o, S)
  BY DEF Same, Holders

(* A call has counted an object for a slot.                                *)
LEMMA TokenAdded ==
  ASSUME NEW S, S \in SUBSET Slots, NEW t \in Users, NEW x \in Objects,
         \A s \in S : Held(s)' = Held(s),
         \A u \in Users \ {t} : Coming(u, S)' = Coming(u, S),
         Coming(t, S) = NULL, Coming(t, S)' = x, NEW o \in Objects
  PROVE  Cardinality(Holders(o, S))' = Cardinality(Holders(o, S)) + (IF o = x THEN 1 ELSE 0)
<1>0. Token(t) \notin S /\ x # NULL /\ o # NULL /\ \A u : Token(u) = Token(t) => u = t
  BY SlotSets, SlotKinds, PointersAssumption
<1>1. Token(t) \notin Holders(o, S)
  BY <1>0 DEF Holders
<1>2. o = x => Holders(o, S)' = Holders(o, S) \cup {Token(t)}
  BY DEF Holders
<1>3. o # x => Holders(o, S)' = Holders(o, S)
  BY <1>0 DEF Holders
<1>4. IsFiniteSet(Holders(o, S)) /\ Cardinality(Holders(o, S)) \in Nat
  BY HoldersFinite
<1> QED
  BY <1>1, <1>2, <1>3, <1>4, FS_AddElement

(* A slot has taken a reference that is counted.                           *)
LEMMA SlotAdded ==
  ASSUME NEW S, S \in SUBSET Slots, NEW d \in S, NEW x \in Objects,
         \A s \in S \ {d} : Held(s)' = Held(s),
         \A u \in Users : Coming(u, S)' = Coming(u, S),
         Held(d) = NULL, Held(d)' = x, NEW o \in Objects
  PROVE  Cardinality(Holders(o, S))' = Cardinality(Holders(o, S)) + (IF o = x THEN 1 ELSE 0)
<1>0. x # NULL /\ o # NULL /\ \A u : Token(u) # d
  BY SlotSets, PointersAssumption
<1>1. d \notin Holders(o, S)
  BY <1>0 DEF Holders
<1>2. o = x => Holders(o, S)' = Holders(o, S) \cup {d}
  BY DEF Holders
<1>3. o # x => Holders(o, S)' = Holders(o, S)
  BY <1>0 DEF Holders
<1>4. IsFiniteSet(Holders(o, S)) /\ Cardinality(Holders(o, S)) \in Nat
  BY HoldersFinite
<1> QED
  BY <1>1, <1>2, <1>3, <1>4, FS_AddElement

(* A slot has given up its reference.                                      *)
LEMMA SlotRemoved ==
  ASSUME NEW S, S \in SUBSET Slots, NEW d \in S, NEW x \in Objects,
         \A s \in S \ {d} : Held(s)' = Held(s),
         \A u \in Users : Coming(u, S)' = Coming(u, S),
         Held(d) = x, Held(d)' = NULL, NEW o \in Objects
  PROVE  Cardinality(Holders(o, S))' = Cardinality(Holders(o, S)) - (IF o = x THEN 1 ELSE 0)
<1>0. x # NULL /\ o # NULL /\ \A u : Token(u) # d
  BY SlotSets, PointersAssumption
<1>1. o = x => d \in Holders(o, S)
  BY <1>0 DEF Holders
<1>2. o = x => Holders(o, S)' = Holders(o, S) \ {d}
  BY <1>0 DEF Holders
<1>3. o # x => Holders(o, S)' = Holders(o, S)
  BY <1>0 DEF Holders
<1>4. IsFiniteSet(Holders(o, S)) /\ Cardinality(Holders(o, S)) \in Nat
  BY HoldersFinite
<1> QED
  BY <1>1, <1>2, <1>3, <1>4, FS_RemoveElement

LEMMA Exchanged ==
  ASSUME NEW A, NEW B, NEW x, NEW y, IsFiniteSet(A), x \in A, y \notin A, B = (A \ {x}) \cup {y}
  PROVE  Cardinality(B) = Cardinality(A)
<1>1. IsFiniteSet(A \ {x}) /\ Cardinality(A \ {x}) = Cardinality(A) - 1 /\ Cardinality(A) \in Nat
  BY FS_RemoveElement, FS_CardinalityType
<1>2. y \notin A \ {x}
  OBVIOUS
<1>3. Cardinality(B) = Cardinality(A \ {x}) + 1
  BY <1>1, <1>2, FS_AddElement
<1> QED
  BY <1>1, <1>3

(* The reference a call has counted is now that of the slot.               *)
LEMMA TokenToSlot ==
  ASSUME NEW S, S \in SUBSET Slots, NEW t \in Users, NEW d \in S, NEW x,
         \A s \in S \ {d} : Held(s)' = Held(s),
         \A u \in Users \ {t} : Coming(u, S)' = Coming(u, S),
         Coming(t, S) = x, Coming(t, S)' = NULL, Held(d) = NULL, Held(d)' = x, NEW o \in Objects
  PROVE  Cardinality(Holders(o, S))' = Cardinality(Holders(o, S))
<1>0. o # NULL /\ (\A u : Token(u) # d) /\ Token(t) \notin S /\ \A u : Token(u) = Token(t) => u = t
  BY SlotSets, SlotKinds, PointersAssumption
<1>1. o = x => Token(t) \in Holders(o, S) /\ d \notin Holders(o, S)
  BY <1>0 DEF Holders
<1>2. o = x => Holders(o, S)' = (Holders(o, S) \ {Token(t)}) \cup {d}
  BY <1>0 DEF Holders
<1>3. o # x => Holders(o, S)' = Holders(o, S)
  BY <1>0 DEF Holders
<1>4. IsFiniteSet(Holders(o, S))
  BY HoldersFinite
<1> QED
  BY <1>1, <1>2, <1>3, <1>4, Exchanged

(* A reference has moved from one slot to another.                         *)
LEMMA SlotToSlot ==
  ASSUME NEW S, S \in SUBSET Slots, NEW a \in S, NEW d \in S, NEW x, a # d,
         \A s \in S \ {a, d} : Held(s)' = Held(s),
         \A u \in Users : Coming(u, S)' = Coming(u, S),
         Held(a) = x, Held(a)' = NULL, Held(d) = NULL, Held(d)' = x, NEW o \in Objects
  PROVE  Cardinality(Holders(o, S))' = Cardinality(Holders(o, S))
<1>0. o # NULL /\ \A u : Token(u) # d /\ Token(u) # a
  BY SlotSets, PointersAssumption
<1>1. o = x => a \in Holders(o, S) /\ d \notin Holders(o, S)
  BY <1>0 DEF Holders
<1>2. o = x => Holders(o, S)' = (Holders(o, S) \ {a}) \cup {d}
  BY <1>0 DEF Holders
<1>3. o # x => Holders(o, S)' = Holders(o, S)
  BY <1>0 DEF Holders
<1>4. IsFiniteSet(Holders(o, S))
  BY HoldersFinite
<1> QED
  BY <1>1, <1>2, <1>3, <1>4, Exchanged

-----------------------------------------------------------------------------
(* What a step does to the slots that are given up *)

GivenBy(t, s) == \E k \in At(t) : Given(todo[t], k) /\ Target(todo[t][k]) = s

LEMMA KeptIs ==
  ASSUME NEW s
  PROVE  Kept(s) <=> \A t \in Users : ~GivenBy(t, s)
  BY DEF Kept, GivenBy

(* Only t's list changes.                                                  *)
OnlyList(t) == /\ todo' \in [Users -> Seq(Oper)] /\ \A u \in Users \ {t} : todo'[u] = todo[u]

LEMMA OthersGive ==
  ASSUME NEW t \in Users, OnlyList(t), NEW u \in Users \ {t}
  PROVE  /\ At(u)' = At(u) /\ \A s : GivenBy(u, s)' <=> GivenBy(u, s)
         /\ \A S : Coming(u, S)' = Coming(u, S)
  BY DEF OnlyList, GivenBy, At, Coming

Pop(t) == todo[t] # <<>> /\ todo' = [todo EXCEPT ![t] = <<>> \o Tail(@)]
Replace(t, a) == todo[t] # <<>> /\ a \in Oper /\ todo' = [todo EXCEPT ![t] = <<a>> \o Tail(@)]
Expand(t, a, c) ==
  todo[t] # <<>> /\ a \in Oper /\ c \in Oper /\ todo' = [todo EXCEPT ![t] = (<<a>> \o <<c>>) \o Tail(@)]

LEMMA PopFacts ==
  ASSUME RefTypes, NEW t \in Users, Pop(t)
  PROVE  /\ OnlyList(t) /\ Len(todo'[t]) = Len(todo[t]) - 1 /\ Len(todo[t]) \in Nat \ {0}
         /\ At(t)' = 1 .. Len(todo[t]) - 1
         /\ \A k \in At(t)' : todo'[t][k] = todo[t][k + 1] /\ k + 1 \in At(t)
         /\ Head(todo[t]) = todo[t][1] /\ 1 \in At(t)
<1>1. todo[t] \in Seq(Oper)
  BY DEF RefTypes
<1>2. todo'[t] = <<>> \o Tail(todo[t]) /\ \A u \in Users \ {t} : todo'[u] = todo[u]
  BY DEF Pop, RefTypes
<1>3. /\ todo'[t] \in Seq(Oper) /\ Len(todo'[t]) = Len(todo[t]) - 1 /\ Len(todo[t]) \in Nat \ {0}
      /\ \A k \in 1 .. Len(todo'[t]) : todo'[t][k] = todo[t][k + 1]
      /\ Head(todo[t]) = todo[t][1]
  BY <1>1, <1>2, Popped, Zenon DEF Pop
<1>4. todo' \in [Users -> Seq(Oper)]
  BY <1>2, <1>3 DEF Pop, RefTypes
<1> QED
  BY <1>2, <1>3, <1>4 DEF OnlyList, At

LEMMA ReplaceFacts ==
  ASSUME RefTypes, NEW t \in Users, NEW a, Replace(t, a)
  PROVE  /\ OnlyList(t) /\ Len(todo'[t]) = Len(todo[t]) /\ Len(todo[t]) \in Nat \ {0}
         /\ At(t)' = At(t)
         /\ todo'[t][1] = a /\ \A k \in At(t) : k > 1 => todo'[t][k] = todo[t][k]
         /\ Head(todo[t]) = todo[t][1] /\ 1 \in At(t)
<1>1. todo[t] \in Seq(Oper) /\ a \in Oper /\ todo[t] # <<>>
  BY DEF RefTypes, Replace
<1>2. todo'[t] = <<a>> \o Tail(todo[t]) /\ \A u \in Users \ {t} : todo'[u] = todo[u]
  BY DEF Replace, RefTypes
<1>3. /\ todo'[t] \in Seq(Oper) /\ Len(todo'[t]) = Len(todo[t]) /\ Len(todo[t]) \in Nat \ {0}
      /\ todo'[t][1] = a
      /\ \A k \in 2 .. Len(todo'[t]) : todo'[t][k] = todo[t][k]
  <2> DEFINE q == todo[t]
             r == todo'[t]
  <2>1. q \in Seq(Oper) /\ q # <<>> /\ a \in Oper /\ r = <<a>> \o Tail(q)
    BY <1>1, <1>2
  <2> HIDE DEF q, r
  <2>2. /\ r \in Seq(Oper) /\ Len(r) = Len(q) /\ Len(q) \in Nat \ {0}
        /\ r[1] = a /\ \A k \in 2 .. Len(r) : r[k] = q[k]
    BY <2>1, Replaced
  <2> QED
    BY <2>2 DEF q, r
<1>4. todo' \in [Users -> Seq(Oper)]
  BY <1>2, <1>3 DEF Replace, RefTypes
<1>5. Head(todo[t]) = todo[t][1]
  BY <1>1, HeadTailProperties
<1> QED
  BY <1>2, <1>3, <1>4, <1>5 DEF OnlyList, At

LEMMA ExpandFacts ==
  ASSUME RefTypes, NEW t \in Users, NEW a, NEW c, Expand(t, a, c)
  PROVE  /\ OnlyList(t) /\ Len(todo'[t]) = Len(todo[t]) + 1 /\ Len(todo[t]) \in Nat \ {0}
         /\ At(t)' = 1 .. Len(todo[t]) + 1
         /\ todo'[t][1] = a /\ todo'[t][2] = c
         /\ \A k \in At(t)' : k > 2 => todo'[t][k] = todo[t][k - 1] /\ k - 1 \in At(t)
         /\ Head(todo[t]) = todo[t][1] /\ 1 \in At(t)
<1>1. todo[t] \in Seq(Oper) /\ a \in Oper /\ c \in Oper /\ todo[t] # <<>>
  BY DEF RefTypes, Expand
<1>2. todo'[t] = (<<a>> \o <<c>>) \o Tail(todo[t]) /\ \A u \in Users \ {t} : todo'[u] = todo[u]
  BY DEF Expand, RefTypes
<1>3. /\ todo'[t] \in Seq(Oper) /\ Len(todo'[t]) = Len(todo[t]) + 1 /\ Len(todo[t]) \in Nat \ {0}
      /\ todo'[t][1] = a /\ todo'[t][2] = c
      /\ \A k \in 3 .. Len(todo'[t]) : todo'[t][k] = todo[t][k - 1]
  <2> DEFINE q == todo[t]
             r == todo'[t]
  <2>1. q \in Seq(Oper) /\ q # <<>> /\ a \in Oper /\ c \in Oper /\ r = (<<a>> \o <<c>>) \o Tail(q)
    BY <1>1, <1>2
  <2> HIDE DEF q, r
  <2>2. /\ r \in Seq(Oper) /\ Len(r) = Len(q) + 1 /\ Len(q) \in Nat \ {0}
        /\ r[1] = a /\ r[2] = c /\ \A k \in 3 .. Len(r) : r[k] = q[k - 1]
    BY <2>1, Expanded
  <2> QED
    BY <2>2 DEF q, r
<1>4. todo' \in [Users -> Seq(Oper)]
  BY <1>2, <1>3 DEF Expand, RefTypes
<1>5. Head(todo[t]) = todo[t][1]
  BY <1>1, HeadTailProperties
<1> QED
  BY <1>2, <1>3, <1>4, <1>5 DEF OnlyList, At

-----------------------------------------------------------------------------
(* The other threads *)

(* A thread that begins to count has given up no slot that points.         *)
LEMMA BeginsWrites ==
  ASSUME Lists, NEW u \in Users, todo[u] # <<>>, todo[u][1].op = "incStrong",
         NEW k \in At(u), Given(todo[u], k), todo[u][k].op \in {"set", "take"}
  PROVE  m_ptr[todo[u][k].slot] = NULL
<1>1. Len(todo[u]) \in Nat /\ Len(todo[u]) >= 1 /\ k \in Nat /\ k >= 1 /\ k <= Len(todo[u]) /\ 1 \in At(u)
  BY ListFacts DEF Lists
<1>2. k # 1
  OBVIOUS
<1>3. k = Len(todo[u])
  <2>1. k < Len(todo[u]) => todo[u][1].op = "set"
    BY <1>1 DEF Lists, InOrder, Moving
  <2> QED
    BY <1>1, <2>1
<1>4. k = 2 /\ Len(todo[u]) = 2
  <2>1. todo[u][k - 1].op \notin {"decStrong", "decWeak"}
    BY <1>1, <1>2 DEF Given
  <2>2. (Len(todo[u]) = 3 /\ todo[u][2].op \in {"decStrong", "decWeak"}) \/ Len(todo[u]) = 2
    BY <1>1 DEF Lists, Relies
  <2>3. CASE Len(todo[u]) = 3 /\ todo[u][2].op \in {"decStrong", "decWeak"}
    <3>1. k - 1 = 2
      BY <1>1, <1>3, <2>3
    <3> QED
      BY <2>1, <2>3, <3>1
  <2> QED
    BY <1>1, <1>3, <2>2, <2>3
<1> QED
  BY <1>1, <1>4 DEF Lists, Relies

LEMMA BeginsKeepsSp ==
  ASSUME Lists, NEW u \in Users, todo[u] # <<>>, todo[u][1].op = "incStrong",
         NEW s \in Sp(u), m_ptr[s] # NULL
  PROVE  Kept(s)
<1> SUFFICES ASSUME NEW v \in Users, NEW k \in At(v), Given(todo[v], k), Target(todo[v][k]) = s
             PROVE  FALSE
  BY DEF Kept
<1>1. todo[v][k].op \in Writes
  BY DEF Given
<1>2. todo[v][k].op # "free"
  BY <1>1, WritesOwn, SpKinds
<1>3. todo[v][k].op \in {"set", "take"} /\ todo[v][k].slot = s /\ s \in Own(v)
  BY <1>1, <1>2, WritesOwn DEF Writes
<1>4. v = u
  BY <1>3, OwnApart, OwnSlots
<1> QED
  BY <1>3, <1>4, BeginsWrites

LEMMA BeginsKeeps ==
  ASSUME Lists, Counted, Doomed, NEW u \in Users, todo[u] # <<>>, todo[u][1].op = "incStrong",
         NEW s \in Own(u) \cap Strong, m_ptr[s] # NULL
  PROVE  Kept(s)
<1>1. CASE s \in Sp(u)
  BY <1>1, BeginsKeepsSp
<1>2. CASE \E o \in Objects : s = Ref!member(o) /\ \E r \in Sp(u) : m_ptr[r] = o
  <2>1. PICK o \in Objects, r \in Sp(u) : s = Ref!member(o) /\ m_ptr[r] = o
    BY <1>2
  <2>2. mCount[o] > 0
    <3>1. m_ptr[r] # NULL /\ r \in Strong
      BY <2>1, PointersAssumption, SlotSets
    <3> QED
      BY <2>1, <3>1, BeginsKeepsSp, KeptIsCounted DEF Lists
  <2> SUFFICES ASSUME NEW v \in Users, NEW k \in At(v), Given(todo[v], k), Target(todo[v][k]) = s
               PROVE  FALSE
    BY DEF Kept
  <2>3. todo[v][k].op \in Writes /\ todo[v][k] \in Oper
    BY ListFacts DEF Given, Lists
  <2>4. todo[v][k].op # "free"
    <3> SUFFICES ASSUME todo[v][k].op = "free" PROVE FALSE
      OBVIOUS
    <3>1. todo[v][k].obj = o
      BY <2>1, SlotKinds DEF Target
    <3>2. o \in Destroys(v)
      BY <3>1 DEF Destroys, Dooms
    <3> QED
      BY <2>2, <3>2 DEF Doomed
  <2>5. todo[v][k].op \in {"set", "take"} /\ todo[v][k].slot = s /\ s \in Own(v)
    BY <2>3, <2>4, WritesOwn DEF Writes
  <2>6. v = u
    BY <2>5, OwnApart
  <2> QED
    BY <2>5, <2>6, BeginsWrites
<1>3. s # Ref!wp(u)
  BY SlotSets
<1> QED
  BY <1>1, <1>2, <1>3, OwnSlots

(* A step of another thread leaves what u works with.                      *)
Untouched(u) ==
  todo[u] # <<>> =>
    /\ \A s \in Sp(u) \cup {Ref!wp(u)} : m_ptr'[s] = m_ptr[s]
    /\ \A k \in At(u) : todo[u][k].op \in Writes => m_ptr'[Target(todo[u][k])] = m_ptr[Target(todo[u][k])]
    /\ todo[u][1].op = "incStrong" =>
         \A s \in Own(u) \cap Strong : m_ptr[s] # NULL => m_ptr'[s] = m_ptr[s]

(* t writes its own pointers and what it has come to in its list.          *)
LEMMA WritesApart ==
  ASSUME Lists, Counted, Doomed, NEW t \in Users, NEW W,
         \A s \in Slots \ W : m_ptr'[s] = m_ptr[s],
         \A s \in W : \/ s \in Sp(t)
                      \/ \E k \in At(t) : Given(todo[t], k) /\ Target(todo[t][k]) = s
                      \/ s \in Own(t) /\ \E o \in Objects : s = Ref!member(o) /\ mCount[o] > 0,
         NEW u \in Users \ {t}
  PROVE  Untouched(u)
<1> SUFFICES ASSUME todo[u] # <<>> PROVE Untouched(u)
  BY DEF Untouched
<1>1. ASSUME NEW s \in W PROVE s \in Own(t) \/ \E o \in Objects : s = Ref!member(o) /\ mCount[o] = 0
  <2>1. CASE s \in Sp(t)
    BY <2>1, OwnSlots
  <2>2. CASE \E k \in At(t) : Given(todo[t], k) /\ Target(todo[t][k]) = s
    <3>1. PICK k \in At(t) : Given(todo[t], k) /\ Target(todo[t][k]) = s
      BY <2>2
    <3>2. todo[t][k].op \in Writes /\ todo[t][k] \in Oper
      BY <3>1, ListFacts DEF Given, Lists
    <3>3. CASE todo[t][k].op = "free"
      <4>1. todo[t][k].obj \in Objects /\ s = Ref!member(todo[t][k].obj)
        BY <3>1, <3>2, <3>3, OperFields DEF Target, Counting
      <4>2. todo[t][k].obj \in Destroys(t)
        BY <3>3 DEF Destroys, Dooms
      <4> QED
        BY <4>1, <4>2 DEF Doomed
    <3> QED
      BY <3>1, <3>2, <3>3, WritesOwn
  <2>3. CASE s \in Own(t)
    BY <2>3
  <2> QED
    BY <1>1, <2>1, <2>2, <2>3
<1>2. ASSUME NEW s \in Sp(u) \cup {Ref!wp(u)} PROVE s \notin W
  <2>1. s \in Own(u)
    BY OwnSlots
  <2>2. \A o : s # Ref!member(o)
    <3>1. CASE s \in Sp(u)
      BY <3>1, SpKinds
    <3>2. CASE s = Ref!wp(u)
      BY <3>2, SlotKinds
    <3> QED
      BY <3>1, <3>2
  <2> QED
    BY <1>1, <2>1, <2>2, OwnApart
<1>3. ASSUME NEW j \in At(u), todo[u][j].op \in Writes PROVE Target(todo[u][j]) \notin W
  <2> SUFFICES ASSUME Target(todo[u][j]) \in W PROVE FALSE
    OBVIOUS
  <2>1. CASE Target(todo[u][j]) \in Sp(t)
    <3>1. todo[u][j].op # "free" /\ Target(todo[u][j]) \in Own(u)
      BY <1>3, <2>1, WritesOwn, SpKinds
    <3> QED
      BY <2>1, <3>1, OwnApart, OwnSlots
  <2>2. CASE \E k \in At(t) : Given(todo[t], k) /\ Target(todo[t][k]) = Target(todo[u][j])
    BY <1>3, <2>2, OneWriter DEF Given
  <2>3. CASE /\ Target(todo[u][j]) \in Own(t)
             /\ \E o \in Objects : Target(todo[u][j]) = Ref!member(o) /\ mCount[o] > 0
    <3>1. CASE todo[u][j].op = "free"
      <4>1. todo[u][j].obj \in Destroys(u)
        BY <3>1 DEF Destroys, Dooms
      <4>2. todo[u][j].obj \in Objects /\ mCount[todo[u][j].obj] > 0
        BY <2>3, <3>1, SlotKinds DEF Target
      <4> QED
        BY <4>1, <4>2 DEF Doomed
    <3>2. CASE todo[u][j].op # "free"
      BY <1>3, <2>3, <3>2, WritesOwn, OwnApart
    <3> QED
      BY <3>1, <3>2
  <2> QED
    BY <2>1, <2>2, <2>3
<1>4. ASSUME todo[u][1].op = "incStrong", NEW s \in Own(u) \cap Strong, m_ptr[s] # NULL
      PROVE  s \notin W
  <2> SUFFICES ASSUME s \in W PROVE FALSE
    OBVIOUS
  <2>1. Kept(s)
    BY <1>4, BeginsKeeps
  <2>2. s \in Sp(t) \/ s \in Own(t)
    BY <2>1 DEF Kept
  <2> QED
    BY <2>2, OwnSlots, OwnApart
<1>5. \A k \in At(u) : todo[u][k].op \in Writes => Target(todo[u][k]) \in Slots
  BY ListFacts, OperFields DEF Lists
<1>6. Sp(u) \cup {Ref!wp(u)} \subseteq Slots /\ Strong \subseteq Slots
  BY SlotSets
<1> QED
  BY <1>2, <1>3, <1>4, <1>5, <1>6 DEF Untouched

(* What the others have in hand goes on.                                   *)
Creators == \A o \in Objects : creator'[o] = creator[o] \/ creator[o] = NULL

LEMMA OwnStays ==
  ASSUME NEW u \in Users, Creators, \A s \in Sp(u) : m_ptr'[s] = m_ptr[s]
  PROVE  Own(u) \subseteq Own(u)'
<1>1. \A p \in Objects : creator[p] = u => creator'[p] = u
  BY PointersAssumption DEF Creators
<1> QED
  BY <1>1 DEF Own, Sp

LEMMA LendsStays ==
  ASSUME NEW u \in Users, Creators, \A s \in Sp(u) : m_ptr'[s] = m_ptr[s], NEW d
  PROVE  Lends(u, d, m_ptr, creator) \subseteq Lends(u, d, m_ptr', creator')
<1>1. \A p \in Objects : creator[p] = u => creator'[p] = u
  BY PointersAssumption DEF Creators
<1>2. \A p \in Objects : (\E s \in Sp(u) \ {d} : m_ptr[s] = p) => (\E s \in Sp(u) \ {d} : m_ptr'[s] = p)
  OBVIOUS
<1> QED
  BY <1>1, <1>2 DEF Lends, Sp, Ref!sp, Ref!member

LEMMA LendsSlots ==
  ASSUME NEW t \in Users, NEW d, NEW a \in Lends(t, d, m_ptr, creator)
  PROVE  /\ a \in Own(t) /\ a \in Strong
         /\ a \in Sp(t) \/ \E o \in Objects : /\ a = Ref!member(o) /\ creator[o] = t
                                              /\ \E r \in Sp(t) \ {d} : m_ptr[r] = o
<1>1. CASE a \in Sp(t)
  BY <1>1, OwnSlots, SlotSets
<1>2. CASE \E o \in Objects : /\ a = Ref!member(o) /\ creator[o] = t
                             /\ \E r \in Sp(t) \ {d} : m_ptr[r] = o
  BY <1>2, SlotSets DEF Own
<1> QED
  BY <1>1, <1>2 DEF Lends

(* It is a slot of the thread that nobody has given up, of an object that  *)
(* lives, while the thread has nothing to write but d.                     *)
LEMMA LendsKept ==
  ASSUME Lists, Counted, Doomed, NEW t \in Users, NEW d, NEW a \in Lends(t, d, m_ptr, creator),
         \A k \in At(t) : todo[t][k].op \in {"set", "take"} => todo[t][k].slot = d
  PROVE  /\ a # d => Kept(a)
         /\ a \in Sp(t) \/ \E o \in Objects : a = Ref!member(o) /\ mCount[o] > 0
<1>1. CASE a \in Sp(t)
  BY <1>1, SpKept
<1>2. CASE a \notin Sp(t)
  <2>1. PICK o \in Objects, r \in Sp(t) \ {d} : a = Ref!member(o) /\ m_ptr[r] = o
    BY <1>2, LendsSlots
  <2>2. mCount[o] > 0
    <3>1. Kept(r) /\ r \in Strong
      BY SpKept, SlotSets
    <3> QED
      BY <2>1, <3>1, KeptIsCounted DEF Lists
  <2>3. ASSUME NEW v \in Users, NEW k \in At(v), Given(todo[v], k), Target(todo[v][k]) = a PROVE a = d
    <3>1. todo[v][k].op \in Writes /\ todo[v][k] \in Oper
      BY <2>3, ListFacts DEF Given, Lists
    <3>2. todo[v][k].op # "free"
      <4> SUFFICES ASSUME todo[v][k].op = "free" PROVE FALSE
        OBVIOUS
      <4>1. todo[v][k].obj = o
        BY <2>1, <2>3, SlotKinds DEF Target
      <4>2. o \in Destroys(v)
        BY <4>1 DEF Destroys, Dooms
      <4> QED
        BY <2>2, <4>2 DEF Doomed
    <3>3. todo[v][k].op \in {"set", "take"} /\ todo[v][k].slot = a /\ a \in Own(v)
      BY <2>3, <3>1, <3>2, WritesOwn DEF Writes
    <3>4. v = t
      BY <3>3, OwnApart, LendsSlots
    <3> QED
      BY <3>3, <3>4
  <2> QED
    BY <2>1, <2>2, <2>3 DEF Kept
<1> QED
  BY <1>1, <1>2

LEMMA OthersGoOn ==
  ASSUME Lists, NEW u \in Users, todo'[u] = todo[u], Untouched(u), Creators
  PROVE  InOrder(u)' /\ Relies(u)'
<1>1. CASE todo[u] = <<>>
  BY <1>1 DEF InOrder, Relies, At
<1>2. CASE todo[u] # <<>>
  <2>1. At(u)' = At(u)
    BY DEF At
  <2>2. Own(u) \subseteq Own(u)'
    BY <1>2, OwnStays DEF Untouched
  <2>5. \A d : Lends(u, d, m_ptr, creator) \subseteq Lends(u, d, m_ptr', creator')
    BY <1>2, LendsStays DEF Untouched
  <2>3. InOrder(u)'
    <3>1. Moving(u) => Moving(u)'
      BY <1>2 DEF Moving, Untouched, Sp
    <3> QED
      BY <2>1, <3>1 DEF InOrder, Lists
  <2>4. Relies(u)'
    <3> DEFINE q == todo[u]
               n == Len(todo[u])
    <3> SUFFICES ASSUME NEW k \in At(u)
                 PROVE
        /\ q[k].op = "decStrong" => Target(q[k + 1]) \in Strong /\ m_ptr'[Target(q[k + 1])] = q[k].obj
        /\ q[k].op = "decWeak" => /\ q[k + 1].op = "set" /\ q[k + 1].slot = Ref!wp(u)
                                  /\ m_ptr'[Ref!wp(u)] = q[k].obj
        /\ q[k].op = "incStrong" => q[n].op = "set" /\ q[n].slot \in Strong /\ q[n].obj = q[k].obj
        /\ q[k].op = "incWeak" => q[n].op = "set" /\ q[n].slot = Ref!wp(u) /\ q[n].obj = q[k].obj
        /\ q[k].op \in {"incStrong", "incWeak"} =>
             \/ n = 3 /\ q[2].op \in {"decStrong", "decWeak"}
             \/ n = 2 /\ m_ptr'[q[2].slot] = NULL
        /\ q[k].op \in {"set", "take"} => q[k].slot \in Own(u)'
        /\ q[k].op = "take" => q[k].slot \in Strong /\ q[k].from \in Lends(u, q[k].slot, m_ptr', creator')
        /\ q[k].op = "attemptIncStrong" => /\ n = 1 /\ q[k].slot \in Sp(u) /\ m_ptr'[q[k].slot] = NULL
                                           /\ m_ptr'[Ref!wp(u)] = q[k].obj
      BY <2>1 DEF Relies, Lends, Sp, Target, Ref!wp
    <3>1. n \in Nat /\ k \in Nat /\ 1 <= k /\ k <= n
      BY ListFacts DEF Lists
    <3>2. Relies(u)
      BY DEF Lists
    <3>3. ASSUME q[k].op = "decStrong" PROVE m_ptr'[Target(q[k + 1])] = m_ptr[Target(q[k + 1])]
      <4>1. k < n
        BY <3>1, <3>3 DEF Lists, InOrder
      <4>2. k + 1 \in At(u) /\ k + 1 > 1
        BY <3>1, <4>1 DEF At
      <4>3. q[k + 1].op \in Writes
        <5>1. \/ q[k + 1].op \in Writes
              \/ k + 1 = 2 /\ q[1].op = "incStrong" /\ q[2].op = "decStrong"
              \/ k + 1 = 2 /\ q[1].op = "incWeak" /\ q[2].op = "decWeak"
          BY <4>2 DEF Lists, InOrder
        <5> QED
          BY <3>1, <3>3, <5>1
      <4> QED
        BY <1>2, <4>2, <4>3 DEF Untouched
    <3>4. m_ptr'[Ref!wp(u)] = m_ptr[Ref!wp(u)] /\ \A s \in Sp(u) : m_ptr'[s] = m_ptr[s]
      BY <1>2 DEF Untouched
    <3>5. ASSUME q[k].op \in {"incStrong", "incWeak"}, n = 2 PROVE m_ptr'[q[2].slot] = m_ptr[q[2].slot]
      <4>1. 2 \in At(u) /\ q[2].op = "set"
        BY <3>2, <3>5 DEF At, Relies
      <4> QED
        BY <1>2, <4>1 DEF Untouched, Writes, Target
    <3> QED
      BY <2>2, <2>5, <3>2, <3>3, <3>4, <3>5 DEF Relies
  <2> QED
    BY <2>3, <2>4
<1> QED
  BY <1>1, <1>2

-----------------------------------------------------------------------------
(* What a step may do to one object *)

(* t's step is about the object x, if it is about one: the others are left *)
(* as they were, and no other thread has just made x or is deleting it.    *)
Others(t, x) ==
  /\ \A o \in Objects \ {x} :
       /\ mCount'[o] = mCount[o] /\ life'[o] = life[o]
       /\ (Begins(t, o)' <=> Begins(t, o)) /\ (o \in Destroys(t)' <=> o \in Destroys(t))
  /\ \A u \in Users \ {t} : ~Fresh(u, x) /\ x \notin Destroys(u)

(* x lives while it has a reference, and is deleted when it has none.      *)
Itself(t, x) ==
  x \in Objects =>
    /\ mCount[x] > 0 => life[x] = "live"
    /\ life[x] = "live" /\ mCount[x] = 0 => Begins(t, x) \/ x \in Destroys(t)
    /\ x \in Destroys(t) => mCount[x] = 0 /\ life[x] = "live"

LEMMA OtherLists ==
  ASSUME NEW t \in Users, OnlyList(t), NEW u \in Users \ {t}
  PROVE  Destroys(u)' = Destroys(u) /\ (OnceEach(u)' <=> OnceEach(u)) /\ \A o : Begins(u, o)' <=> Begins(u, o)
  BY DEF OnlyList, Destroys, OnceEach, Begins, At

LEMMA DoomsObjects ==
  ASSUME NEW q \in Seq(Oper), NEW k \in 1 .. Len(q), Dooms(q[k])
  PROVE  q[k].obj \in Objects
<1>1. q[k] \in Oper
  BY ElementOfSeq, LenProperties
<1> QED
  BY <1>1, OperFields DEF Dooms, Counting

LEMMA FreshStays ==
  ASSUME RefInv, NEW t \in Users, NEW x, OnlyList(t), Others(t, x),
         NEW u \in Users \ {t}, NEW o \in Objects, Fresh(u, o)
  PROVE  Fresh(u, o)'
<1>1. o # x
  BY DEF Others
<1>2. mCount'[o] = 0 /\ life'[o] = "live" /\ Begins(u, o)'
  BY <1>1, OtherLists DEF Others, Fresh
<1>3. o \notin Destroys(t)' /\ ~Begins(t, o)'
  BY <1>1 DEF Others, Fresh
<1>4. ASSUME NEW v \in Users PROVE o \notin Destroys(v)' /\ (Begins(v, o)' => v = u)
  <2>1. CASE v = t
    BY <1>3, <2>1
  <2>2. CASE v # t
    BY <2>2, OtherLists DEF Fresh
  <2> QED
    BY <2>1, <2>2
<1> QED
  BY <1>2, <1>4 DEF Fresh

LEMMA DoomedStays ==
  ASSUME RefInv, NEW t \in Users, NEW x, OnlyList(t), RefTypes', Others(t, x), OnceEach(t)', Itself(t, x)'
  PROVE  Doomed'
<1>1. ASSUME NEW u \in Users PROVE OnceEach(u)'
  BY OtherLists DEF RefInv, Doomed
<1>2. ASSUME NEW u \in Users, NEW o \in Destroys(u)'
      PROVE  mCount'[o] = 0 /\ life'[o] = "live" /\ \A v \in Users : o \in Destroys(v)' => v = u
  <2>1. o \in Objects
    <3>1. PICK k \in 1 .. Len(todo'[u]) : Dooms(todo'[u][k]) /\ o = todo'[u][k].obj
      BY DEF Destroys, At, Dooms
    <3>2. todo'[u] \in Seq(Oper)
      BY DEF RefTypes, OnlyList
    <3> QED
      BY <3>1, <3>2, DoomsObjects
  <2>2. CASE o = x
    <3>1. \A v \in Users \ {t} : o \notin Destroys(v)'
      BY <2>2, OtherLists DEF Others
    <3>2. u = t
      BY <3>1
    <3> QED
      BY <2>1, <2>2, <3>1, <3>2 DEF Itself
  <2>3. CASE o # x
    <3>1. \A v \in Users : o \in Destroys(v)' <=> o \in Destroys(v)
      BY <2>1, <2>3, OtherLists DEF Others
    <3>2. mCount'[o] = mCount[o] /\ life'[o] = life[o]
      BY <2>1, <2>3 DEF Others
    <3> QED
      BY <3>1, <3>2 DEF RefInv, Doomed
  <2> QED
    BY <2>2, <2>3
<1> QED
  BY <1>1, <1>2 DEF Doomed

LEMMA LivingStays ==
  ASSUME RefInv, NEW t \in Users, NEW x, OnlyList(t), Others(t, x), Itself(t, x)'
  PROVE  Living'
<1> SUFFICES ASSUME NEW o \in Objects
             PROVE  /\ mCount'[o] > 0 => life'[o] = "live"
                    /\ life'[o] = "live" /\ mCount'[o] = 0 => \E u \in Users : Begins(u, o)' \/ o \in Destroys(u)'
  BY DEF Living
<1>1. CASE o = x
  BY <1>1 DEF Itself
<1>2. CASE o # x
  <2>1. mCount'[o] = mCount[o] /\ life'[o] = life[o]
    BY <1>2 DEF Others
  <2>2. \A u \in Users : (Begins(u, o)' <=> Begins(u, o)) /\ (o \in Destroys(u)' <=> o \in Destroys(u))
    BY <1>2, OtherLists DEF Others
  <2> QED
    BY <2>1, <2>2 DEF RefInv, Living
<1> QED
  BY <1>1, <1>2

(* Together: what is left to show of a step is about t's list and x.       *)
LEMMA StepKeeps ==
  ASSUME RefInv, NEW t \in Users, NEW x, OnlyList(t), RefTypes', Creators,
         InOrder(t)', Relies(t)', Source(t)', OnceEach(t)',
         \A u \in Users \ {t} : Untouched(u),
         Others(t, x), Itself(t, x)', Counted', ~wrong'
  PROVE  RefInv'
<1>1. Lists
  BY DEF RefInv, Lists
<1>2. ASSUME NEW u \in Users \ {t} PROVE InOrder(u)' /\ Relies(u)' /\ Source(u)'
  <2>1. todo'[u] = todo[u] /\ Untouched(u)
    BY DEF OnlyList
  <2>2. InOrder(u)' /\ Relies(u)'
    BY <1>1, <2>1, OthersGoOn
  <2>3. Source(u)'
    <3> SUFFICES ASSUME NEW o \in Objects, Begins(u, o)'
                 PROVE  Fresh(u, o)' \/ \E s \in Own(u)' \cap Strong : m_ptr'[s] = o
      BY DEF Source, Strong, Ref!Strong, Ref!Slots, Ref!sp, Ref!wp, Ref!member
    <3>1. Begins(u, o)
      BY OtherLists
    <3>2. CASE Fresh(u, o)
      BY <3>2, FreshStays
    <3>3. CASE \E s \in Own(u) \cap Strong : m_ptr[s] = o
      <4>1. PICK s \in Own(u) \cap Strong : m_ptr[s] = o
        BY <3>3
      <4>2. m_ptr'[s] = m_ptr[s]
        BY <2>1, <3>1, <4>1, PointersAssumption DEF Untouched, Begins
      <4>3. s \in Own(u)'
        BY <2>1, <3>1, OwnStays DEF Untouched, Begins
      <4> QED
        BY <4>1, <4>2, <4>3
    <3> QED
      BY <3>1, <3>2, <3>3 DEF RefInv, Source
  <2> QED
    BY <2>2, <2>3
<1>3. Doomed' /\ Living'
  BY DoomedStays, LivingStays
<1> QED
  BY <1>2, <1>3 DEF RefInv

-----------------------------------------------------------------------------
(* The thread that steps *)

LEMMA NothingLeft ==
  ASSUME NEW t \in Users, todo'[t] = <<>>
  PROVE  /\ InOrder(t)' /\ Relies(t)' /\ Source(t)' /\ OnceEach(t)' /\ Destroys(t)' = {}
         /\ \A o : ~Begins(t, o)'
         /\ \A s : ~GivenBy(t, s)'
         /\ \A S : Coming(t, S)' = NULL
<1>1. At(t)' = {}
  BY DEF At
<1>2. \A o : ~Begins(t, o)'
  BY DEF Begins
<1>3. Source(t)'
  BY <1>2 DEF Source
<1> QED
  BY <1>1, <1>2, <1>3 DEF InOrder, Relies, OnceEach, Destroys, GivenBy, Coming

(* Once the counting is done only writes follow.                           *)
LEMMA RestWrites ==
  ASSUME Lists, NEW t \in Users, todo[t] # <<>>, todo[t][1].op \notin {"incStrong", "incWeak", "set"},
         NEW k \in At(t), k > 1
  PROVE  /\ todo[t][k].op \in Writes
         /\ k < Len(todo[t]) => todo[t][k].op = "free"
         /\ k = Len(todo[t]) => todo[t][k].op \in {"set", "take"}
<1>1. todo[t][k].op \in Writes
  BY DEF Lists, InOrder
<1>2. k < Len(todo[t]) => todo[t][k].op # "take" /\ todo[t][k].op # "set"
  BY DEF Lists, InOrder, Moving
<1>3. k = Len(todo[t]) => todo[t][k].op \in {"set", "take", "attemptIncStrong"}
  BY DEF Lists, InOrder
<1> QED
  BY <1>1, <1>2, <1>3 DEF Writes

(* The last operation of a list that is not a move.                        *)
LEMMA LastAlone ==
  ASSUME Lists, NEW t \in Users, todo[t] # <<>>, todo[t][1].op \in {"set", "take", "attemptIncStrong"}, ~Moving(t)
  PROVE  Len(todo[t]) = 1 /\ At(t) = {1}
<1> DEFINE n == Len(todo[t])
<1>1. n \in Nat /\ n >= 1 /\ 1 \in At(t)
  BY ListFacts DEF Lists
<1>2. 1 < n => Moving(t)
  BY <1>1 DEF Lists, InOrder
<1> HIDE DEF n
<1>3. n = 1
  BY <1>1, <1>2
<1> QED
  BY <1>3 DEF n, At

(* What is left after the first operation is in order.                     *)
LEMMA PopInOrder ==
  ASSUME Lists, NEW t \in Users, Pop(t), todo[t][1].op # "set"
  PROVE  InOrder(t)'
<1>1. /\ Len(todo'[t]) = Len(todo[t]) - 1 /\ Len(todo[t]) \in Nat \ {0}
      /\ At(t)' = 1 .. Len(todo[t]) - 1
      /\ \A k \in At(t)' : todo'[t][k] = todo[t][k + 1] /\ k + 1 \in At(t)
  BY PopFacts DEF Lists
<1> DEFINE q == todo[t]
           r == todo'[t]
<1> SUFFICES ASSUME NEW k \in At(t)'
             PROVE  /\ k > 1 => r[k].op \in Writes
                    /\ k = Len(r) => r[k].op \in {"set", "take", "attemptIncStrong"}
                    /\ k < Len(r) => r[k].op \notin {"take", "attemptIncStrong", "set"}
  BY DEF InOrder
<1>2. k \in Nat /\ k >= 1 /\ r[k] = q[k + 1] /\ k + 1 \in At(t)
  BY <1>1
<1>3. k > 1 => q[k + 1].op \in Writes
  BY <1>2 DEF Lists, InOrder
<1>4. k + 1 = Len(q) => q[k + 1].op \in {"set", "take", "attemptIncStrong"}
  BY <1>2 DEF Lists, InOrder
<1>5. k + 1 < Len(q) => q[k + 1].op \notin {"take", "attemptIncStrong"} /\ (q[k + 1].op = "set" => Moving(t))
  BY <1>2 DEF Lists, InOrder
<1>6. ~Moving(t)
  BY DEF Moving
<1> QED
  BY <1>1, <1>2, <1>3, <1>4, <1>5, <1>6

LEMMA PopRelies ==
  ASSUME Lists, NEW t \in Users, Pop(t), todo[t][1].op # "set", Own(t) \subseteq Own(t)',
         \A d : Lends(t, d, m_ptr, creator) \subseteq Lends(t, d, m_ptr', creator'),
         todo[t][1].op \in {"incStrong", "incWeak"} => m_ptr' = m_ptr
  PROVE  Relies(t)' /\ \A o : ~Begins(t, o)'
<1>1. /\ Len(todo'[t]) = Len(todo[t]) - 1 /\ Len(todo[t]) \in Nat \ {0}
      /\ At(t)' = 1 .. Len(todo[t]) - 1
      /\ \A k \in At(t)' : todo'[t][k] = todo[t][k + 1] /\ k + 1 \in At(t)
  BY PopFacts DEF Lists
<1> DEFINE q == todo[t]
           r == todo'[t]
           n == Len(todo'[t])
<1>2. ASSUME NEW k \in At(t)'
      PROVE  /\ r[k].op \notin {"incStrong", "incWeak", "attemptIncStrong"}
             /\ r[k].op = "decStrong" =>
                  /\ Target(r[k + 1]) \in Strong /\ m_ptr'[Target(r[k + 1])] = r[k].obj
             /\ r[k].op = "decWeak" => /\ r[k + 1].op = "set" /\ r[k + 1].slot = Ref!wp(t)
                                       /\ m_ptr'[Ref!wp(t)] = r[k].obj
             /\ r[k].op \in {"set", "take"} => r[k].slot \in Own(t)'
             /\ r[k].op = "take" => r[k].slot \in Strong /\ r[k].from \in Lends(t, r[k].slot, m_ptr', creator')
  <2>1. k \in Nat /\ k >= 1 /\ r[k] = q[k + 1] /\ k + 1 \in At(t) /\ k <= n
    BY <1>1
  <2>2. \/ q[k + 1].op \in Writes
        \/ k = 1 /\ q[1].op = "incStrong" /\ q[k + 1].op = "decStrong"
        \/ k = 1 /\ q[1].op = "incWeak" /\ q[k + 1].op = "decWeak"
    BY <2>1 DEF Lists, InOrder
  <2>3. q[k + 1].op \in {"set", "take"} => q[k + 1].slot \in Own(t)
    BY <2>1 DEF Lists, Relies
  <2>4. q[k + 1].op = "take" => q[k + 1].slot \in Strong /\ q[k + 1].from \in Lends(t, q[k + 1].slot, m_ptr, creator)
    BY <2>1 DEF Lists, Relies
  <2>5. CASE q[k + 1].op \in {"decStrong", "decWeak"}
    <3>1. m_ptr' = m_ptr
      BY <2>2, <2>5 DEF Writes
    <3>2. k < n
      BY <1>1, <2>1, <2>5 DEF Lists, InOrder
    <3>3. r[k + 1] = q[k + 2]
      <4>1. k + 1 \in At(t)' /\ k + 1 + 1 = k + 2
        BY <1>1, <2>1, <3>2
      <4>2. r[k + 1] = q[k + 1 + 1]
        BY <1>1, <4>1
      <4> QED
        BY <4>1, <4>2
    <3>4. /\ q[k + 1].op = "decStrong" =>
               /\ Target(q[k + 1 + 1]) \in Strong /\ m_ptr[Target(q[k + 1 + 1])] = q[k + 1].obj
          /\ q[k + 1].op = "decWeak" => /\ q[k + 1 + 1].op = "set" /\ q[k + 1 + 1].slot = Ref!wp(t)
                                        /\ m_ptr[Ref!wp(t)] = q[k + 1].obj
      BY <2>1 DEF Lists, Relies
    <3>5. k + 1 + 1 = k + 2
      BY <2>1
    <3> QED
      BY <2>1, <2>5, <3>1, <3>3, <3>4, <3>5
  <2> QED
    BY <2>1, <2>2, <2>3, <2>4, <2>5 DEF Writes
<1>3. Relies(t)'
  BY <1>2 DEF Relies, Target, Lends, Sp, Strong, Ref!Strong, Ref!Slots, Ref!sp, Ref!wp, Ref!member
<1>4. ASSUME NEW o, Begins(t, o)' PROVE FALSE
  <2>1. todo'[t] # <<>> /\ todo'[t][1].op = "incStrong"
    BY <1>4 DEF Begins
  <2>2. todo'[t] \in Seq(Oper)
    BY PopFacts DEF Lists, OnlyList
  <2>3. 1 \in At(t)'
    BY <1>1, <2>1, <2>2, EmptyList
  <2> QED
    BY <1>2, <2>1, <2>3
<1> QED
  BY <1>3, <1>4

(* What it is deleting.                                                    *)
LEMMA PopDestroys ==
  ASSUME RefTypes, NEW t \in Users, Pop(t), OnceEach(t)
  PROVE  /\ OnceEach(t)'
         /\ \A o : o \in Destroys(t) <=> o \in Destroys(t)' \/ (Dooms(todo[t][1]) /\ o = todo[t][1].obj)
         /\ Dooms(todo[t][1]) => todo[t][1].obj \notin Destroys(t)'
<1>1. /\ Len(todo[t]) \in Nat \ {0} /\ 1 \in At(t)
      /\ At(t)' = 1 .. Len(todo[t]) - 1
      /\ \A k \in At(t)' : todo'[t][k] = todo[t][k + 1] /\ k + 1 \in At(t)
  BY PopFacts
<1>2. \A k \in At(t)' : k \in Nat /\ k >= 1 /\ k + 1 # 1
  BY <1>1
<1>3. \A k \in At(t) : k = 1 \/ (k - 1 \in At(t)' /\ (k - 1) + 1 = k)
  BY <1>1 DEF At
<1>4. OnceEach(t)'
  <2> SUFFICES ASSUME NEW j \in At(t)', NEW k \in At(t)', Dooms(todo'[t][j]), Dooms(todo'[t][k]),
                      todo'[t][j].obj = todo'[t][k].obj
               PROVE  j = k
    BY DEF OnceEach, Dooms
  <2>1. j + 1 = k + 1
    BY <1>1 DEF OnceEach
  <2> QED
    BY <1>2, <2>1
<1>5. ASSUME NEW k \in At(t)', Dooms(todo'[t][k]), Dooms(todo[t][1]) PROVE todo'[t][k].obj # todo[t][1].obj
  BY <1>1, <1>2, <1>5 DEF OnceEach
<1>6. ASSUME NEW o, o \in Destroys(t)' PROVE o \in Destroys(t)
  <2>1. PICK k \in At(t)' : Dooms(todo'[t][k]) /\ o = todo'[t][k].obj
    BY <1>6 DEF Destroys, Dooms
  <2> QED
    BY <1>1, <2>1 DEF Destroys
<1>7. ASSUME NEW o, o \in Destroys(t) PROVE o \in Destroys(t)' \/ (Dooms(todo[t][1]) /\ o = todo[t][1].obj)
  <2>1. PICK k \in At(t) : Dooms(todo[t][k]) /\ o = todo[t][k].obj
    BY <1>7 DEF Destroys
  <2>2. CASE k = 1
    BY <2>1, <2>2
  <2>3. CASE k # 1
    <3>1. k - 1 \in At(t)' /\ todo'[t][k - 1] = todo[t][k]
      BY <1>1, <1>3, <2>3
    <3> QED
      BY <2>1, <3>1 DEF Destroys, Dooms
  <2> QED
    BY <2>2, <2>3
<1>8. Dooms(todo[t][1]) => todo[t][1].obj \in Destroys(t)
  BY <1>1 DEF Destroys
<1>9. Dooms(todo[t][1]) => todo[t][1].obj \notin Destroys(t)'
  BY <1>5 DEF Destroys, Dooms
<1> QED
  BY <1>4, <1>6, <1>7, <1>8, <1>9

LEMMA ReplaceDestroys ==
  ASSUME RefTypes, NEW t \in Users, NEW a, Replace(t, a), OnceEach(t), Dooms(a),
         IF Dooms(todo[t][1]) THEN a.obj = todo[t][1].obj ELSE a.obj \notin Destroys(t)
  PROVE  /\ OnceEach(t)'
         /\ \A o : o \in Destroys(t)' <=> o \in Destroys(t) \/ o = a.obj
<1>1. /\ At(t)' = At(t) /\ 1 \in At(t) /\ todo'[t][1] = a
      /\ \A k \in At(t) : k > 1 => todo'[t][k] = todo[t][k]
  BY ReplaceFacts
<1>2. \A k \in At(t) : k = 1 \/ k > 1
  BY DEF At
<1>3. ASSUME NEW k \in At(t), k > 1, Dooms(todo[t][k]) PROVE todo[t][k].obj # a.obj
  <2>1. CASE Dooms(todo[t][1])
    BY <1>1, <1>3, <2>1 DEF OnceEach
  <2>2. CASE ~Dooms(todo[t][1])
    BY <1>3, <2>2 DEF Destroys
  <2> QED
    BY <2>1, <2>2
<1>4. OnceEach(t)'
  <2> SUFFICES ASSUME NEW j \in At(t), NEW k \in At(t), Dooms(todo'[t][j]), Dooms(todo'[t][k]),
                      todo'[t][j].obj = todo'[t][k].obj
               PROVE  j = k
    BY <1>1 DEF OnceEach, Dooms
  <2>1. CASE j > 1 /\ k > 1
    BY <1>1, <2>1 DEF OnceEach
  <2>2. CASE j = 1 /\ k > 1
    BY <1>1, <1>3, <2>2
  <2>3. CASE j > 1 /\ k = 1
    BY <1>1, <1>3, <2>3
  <2> QED
    BY <1>2, <2>1, <2>2, <2>3
<1>5. ASSUME NEW o, o \in Destroys(t)' PROVE o \in Destroys(t) \/ o = a.obj
  <2>1. PICK k \in At(t) : Dooms(todo'[t][k]) /\ o = todo'[t][k].obj
    BY <1>1, <1>5 DEF Destroys, Dooms
  <2> QED
    BY <1>1, <1>2, <2>1 DEF Destroys
<1>6. ASSUME NEW o, o \in Destroys(t) PROVE o \in Destroys(t)' \/ o = a.obj
  <2>1. PICK k \in At(t) : Dooms(todo[t][k]) /\ o = todo[t][k].obj
    BY <1>6 DEF Destroys
  <2>2. CASE k = 1
    BY <2>1, <2>2
  <2>3. CASE k > 1
    <3>1. k \in At(t)' /\ todo'[t][k] = todo[t][k]
      BY <1>1, <2>3
    <3> QED
      BY <2>1, <3>1 DEF Destroys, Dooms
  <2> QED
    BY <1>2, <2>2, <2>3
<1>7. a.obj \in Destroys(t)'
  BY <1>1 DEF Destroys, Dooms
<1> QED
  BY <1>4, <1>5, <1>6, <1>7

LEMMA ExpandDestroys ==
  ASSUME RefTypes, NEW t \in Users, NEW a, NEW c, Expand(t, a, c), OnceEach(t), ~Dooms(a), Dooms(c),
         Dooms(todo[t][1]), c.obj = todo[t][1].obj
  PROVE  OnceEach(t)' /\ \A o : o \in Destroys(t)' <=> o \in Destroys(t)
<1>1. /\ Len(todo[t]) \in Nat \ {0} /\ At(t)' = 1 .. Len(todo[t]) + 1 /\ 1 \in At(t)
      /\ todo'[t][1] = a /\ todo'[t][2] = c
      /\ \A k \in At(t)' : k > 2 => todo'[t][k] = todo[t][k - 1] /\ k - 1 \in At(t)
  BY ExpandFacts
<1>2. /\ \A k \in At(t)' : k \in Nat /\ (k = 1 \/ k = 2 \/ (k > 2 /\ k - 1 > 1))
      /\ \A k \in At(t) : k = 1 \/ (k + 1 \in At(t)' /\ k + 1 > 2 /\ (k + 1) - 1 = k)
      /\ 2 \in At(t)'
  BY <1>1 DEF At
<1>3. ASSUME NEW k \in At(t)', Dooms(todo'[t][k])
      PROVE  k = 2 \/ (k > 2 /\ todo'[t][k] = todo[t][k - 1] /\ k - 1 \in At(t) /\ k - 1 # 1)
  BY <1>1, <1>2, <1>3
<1>4. OnceEach(t)'
  <2> SUFFICES ASSUME NEW j \in At(t)', NEW k \in At(t)', Dooms(todo'[t][j]), Dooms(todo'[t][k]),
                      todo'[t][j].obj = todo'[t][k].obj
               PROVE  j = k
    BY DEF OnceEach, Dooms
  <2>1. CASE j > 2 /\ k > 2
    <3>1. j - 1 = k - 1
      BY <1>1, <2>1 DEF OnceEach
    <3> QED
      BY <1>2, <3>1
  <2>2. CASE j = 2 /\ k > 2
    BY <1>1, <1>3, <2>2 DEF OnceEach
  <2>3. CASE j > 2 /\ k = 2
    BY <1>1, <1>3, <2>3 DEF OnceEach
  <2> QED
    BY <1>3, <2>1, <2>2, <2>3
<1>5. ASSUME NEW o, o \in Destroys(t)' PROVE o \in Destroys(t)
  <2>1. PICK k \in At(t)' : Dooms(todo'[t][k]) /\ o = todo'[t][k].obj
    BY <1>5 DEF Destroys, Dooms
  <2> QED
    BY <1>1, <1>3, <2>1 DEF Destroys
<1>6. ASSUME NEW o, o \in Destroys(t) PROVE o \in Destroys(t)'
  <2>1. PICK k \in At(t) : Dooms(todo[t][k]) /\ o = todo[t][k].obj
    BY <1>6 DEF Destroys
  <2>2. CASE k = 1
    BY <1>1, <1>2, <2>1, <2>2 DEF Destroys, Dooms
  <2>3. CASE k # 1
    <3>1. k + 1 \in At(t)' /\ todo'[t][k + 1] = todo[t][k]
      BY <1>1, <1>2, <2>3
    <3> QED
      BY <2>1, <3>1 DEF Destroys, Dooms
  <2> QED
    BY <2>2, <2>3
<1> QED
  BY <1>4, <1>5, <1>6

(* The deletion goes on, with the same writes to come.                     *)
LEMMA ReplaceOrder ==
  ASSUME Lists, NEW t \in Users, NEW a, Replace(t, a), a.op \in {"delete", "free"},
         todo[t][1].op \in {"decStrong", "delete"}, m_ptr' = m_ptr, creator' = creator
  PROVE  InOrder(t)' /\ Relies(t)' /\ (\A o : ~Begins(t, o)') /\ Len(todo[t]) > 1
<1>1. /\ At(t)' = At(t) /\ 1 \in At(t) /\ todo'[t][1] = a /\ Len(todo'[t]) = Len(todo[t])
      /\ \A k \in At(t) : k > 1 => todo'[t][k] = todo[t][k]
      /\ Len(todo[t]) \in Nat \ {0}
  BY ReplaceFacts DEF Lists
<1>2. todo[t] # <<>>
  BY DEF Replace
<1>3. Len(todo[t]) # 1 /\ Len(todo[t]) > 1
  <2> DEFINE n == Len(todo[t])
  <2>1. n # 1 /\ n \in Nat \ {0}
    BY <1>1 DEF Lists, InOrder
  <2> HIDE DEF n
  <2>2. n > 1
    BY <2>1
  <2> QED
    BY <2>1, <2>2 DEF n
<1>4. \A k \in At(t) : k \in Nat /\ (k = 1 \/ k > 1)
  BY DEF At
<1>5. ASSUME NEW k \in At(t), k > 1
      PROVE  /\ todo'[t][k].op \in Writes
             /\ k < Len(todo[t]) => todo'[t][k].op = "free"
             /\ k = Len(todo[t]) => todo'[t][k].op \in {"set", "take"}
  BY <1>1, <1>2, <1>5, RestWrites
<1>6. InOrder(t)'
  <2> SUFFICES ASSUME NEW k \in At(t)
               PROVE  /\ k > 1 => todo'[t][k].op \in Writes
                      /\ k = Len(todo[t]) => todo'[t][k].op \in {"set", "take", "attemptIncStrong"}
                      /\ k < Len(todo[t]) => todo'[t][k].op \notin {"take", "attemptIncStrong", "set"}
    BY <1>1 DEF InOrder
  <2> QED
    BY <1>1, <1>3, <1>4, <1>5
<1>7. Own(t)' = Own(t) /\ \A d : Lends(t, d, m_ptr', creator') = Lends(t, d, m_ptr, creator)
  BY DEF Own, Sp
<1>8. ASSUME NEW k \in At(t)
      PROVE  /\ todo'[t][k].op \notin {"decStrong", "decWeak", "incStrong", "incWeak", "attemptIncStrong"}
             /\ todo'[t][k].op \in {"set", "take"} => todo'[t][k].slot \in Own(t)
             /\ todo'[t][k].op = "take" => todo'[t][k].slot \in Strong /\ todo'[t][k].from \in Lends(t, todo'[t][k].slot, m_ptr, creator)
  <2>1. CASE k = 1
    BY <1>1, <2>1
  <2>2. CASE k > 1
    <3>1. todo'[t][k] = todo[t][k] /\ todo'[t][k].op \in Writes
      BY <1>1, <1>5, <2>2
    <3>2. Relies(t)
      BY DEF Lists
    <3> QED
      BY <3>1, <3>2 DEF Writes, Relies
  <2> QED
    BY <1>4, <2>1, <2>2
<1>9. Relies(t)'
  BY <1>1, <1>7, <1>8 DEF Relies, Lends, Sp, Strong, Ref!Strong, Ref!Slots, Ref!sp, Ref!wp, Ref!member
<1>10. \A o : ~Begins(t, o)'
  BY <1>1 DEF Begins
<1> QED
  BY <1>1, <1>3, <1>6, <1>9, <1>10

LEMMA ExpandOrder ==
  ASSUME Lists, NEW t \in Users, NEW a, NEW c, Expand(t, a, c), a.op = "decStrong", c.op = "free",
         todo[t][1].op = "delete", c.obj \in Objects, m_ptr[Ref!member(c.obj)] = a.obj, m_ptr' = m_ptr, creator' = creator
  PROVE  InOrder(t)' /\ Relies(t)' /\ (\A o : ~Begins(t, o)') /\ Len(todo[t]) > 1
<1>1. /\ Len(todo[t]) \in Nat \ {0} /\ At(t)' = 1 .. Len(todo[t]) + 1 /\ 1 \in At(t)
      /\ todo'[t][1] = a /\ todo'[t][2] = c /\ Len(todo'[t]) = Len(todo[t]) + 1
      /\ \A k \in At(t)' : k > 2 => todo'[t][k] = todo[t][k - 1] /\ k - 1 \in At(t)
  BY ExpandFacts DEF Lists
<1>2. todo[t] # <<>>
  BY DEF Expand
<1>3. Len(todo[t]) # 1 /\ Len(todo[t]) > 1
  <2> DEFINE n == Len(todo[t])
  <2>1. n # 1 /\ n \in Nat \ {0}
    BY <1>1 DEF Lists, InOrder
  <2> HIDE DEF n
  <2>2. n > 1
    BY <2>1
  <2> QED
    BY <2>1, <2>2 DEF n
<1>4. \A k \in At(t)' : k \in Nat /\ (k = 1 \/ k = 2 \/ (k > 2 /\ k - 1 > 1))
  BY <1>1
<1>5. ASSUME NEW k \in At(t)', k > 2
      PROVE  /\ todo'[t][k].op \in Writes
             /\ k < Len(todo'[t]) => todo'[t][k].op = "free"
             /\ k = Len(todo'[t]) => todo'[t][k].op \in {"set", "take"}
  <2>1. k - 1 \in At(t) /\ k - 1 > 1 /\ todo'[t][k] = todo[t][k - 1] /\ k \in Nat
    BY <1>1, <1>4, <1>5
  <2>2. /\ todo[t][k - 1].op \in Writes
        /\ k - 1 < Len(todo[t]) => todo[t][k - 1].op = "free"
        /\ k - 1 = Len(todo[t]) => todo[t][k - 1].op \in {"set", "take"}
    BY <1>2, <2>1, RestWrites
  <2> QED
    BY <1>1, <2>1, <2>2
<1>6. InOrder(t)'
  <2> SUFFICES ASSUME NEW k \in At(t)'
               PROVE  /\ k > 1 => todo'[t][k].op \in Writes
                      /\ k = Len(todo'[t]) => todo'[t][k].op \in {"set", "take", "attemptIncStrong"}
                      /\ k < Len(todo'[t]) => todo'[t][k].op \notin {"take", "attemptIncStrong", "set"}
    BY DEF InOrder
  <2>1. CASE k = 1
    <3>1. todo'[t][1] = a /\ 1 # Len(todo'[t])
      BY <1>1
    <3> QED
      BY <2>1, <3>1
  <2>2. CASE k = 2
    <3>1. c.op \in Writes /\ todo'[t][2] = c
      BY <1>1 DEF Writes
    <3>2. 2 # Len(todo'[t])
      BY <1>1, <1>3
    <3> QED
      BY <2>2, <3>1, <3>2
  <2>3. CASE k > 2
    BY <1>5, <2>3
  <2> QED
    BY <1>4, <2>1, <2>2, <2>3
<1>7. Own(t)' = Own(t) /\ \A d : Lends(t, d, m_ptr', creator') = Lends(t, d, m_ptr, creator)
  BY DEF Own, Sp
<1>8. ASSUME NEW k \in At(t)'
      PROVE  /\ todo'[t][k].op \notin {"decWeak", "incStrong", "incWeak", "attemptIncStrong"}
             /\ todo'[t][k].op = "decStrong" => k = 1
             /\ todo'[t][k].op \in {"set", "take"} => todo'[t][k].slot \in Own(t)
             /\ todo'[t][k].op = "take" => todo'[t][k].slot \in Strong /\ todo'[t][k].from \in Lends(t, todo'[t][k].slot, m_ptr, creator)
  <2>1. CASE k = 1
    BY <1>1, <2>1
  <2>2. CASE k = 2
    BY <1>1, <2>2
  <2>3. CASE k > 2
    <3>1. todo'[t][k] = todo[t][k - 1] /\ todo'[t][k].op \in Writes /\ k - 1 \in At(t)
      BY <1>1, <1>5, <2>3
    <3>2. Relies(t)
      BY DEF Lists
    <3> QED
      BY <3>1, <3>2 DEF Writes, Relies
  <2> QED
    BY <1>4, <2>1, <2>2, <2>3
<1>9. Target(todo'[t][1 + 1]) = Ref!member(c.obj) /\ Ref!member(c.obj) \in Strong
  <2>1. 1 + 1 = 2
    OBVIOUS
  <2> QED
    BY <1>1, <2>1, SlotSets DEF Target
<1>10. Relies(t)'
  <2>1. ASSUME NEW k \in At(t)', todo'[t][k].op = "decStrong"
        PROVE  Target(todo'[t][k + 1]) \in Strong /\ m_ptr[Target(todo'[t][k + 1])] = todo'[t][k].obj
    <3>1. k = 1
      BY <1>8, <2>1
    <3> QED
      BY <1>1, <1>9, <3>1
  <2> QED
    BY <1>7, <1>8, <2>1 DEF Relies, Target, Lends, Sp, Strong, Ref!Strong, Ref!Slots, Ref!sp, Ref!wp, Ref!member
<1>11. \A o : ~Begins(t, o)'
  BY <1>1 DEF Begins
<1> QED
  BY <1>1, <1>3, <1>6, <1>10, <1>11

(* A new list of one write.                                                *)
LEMMA OneWriteOrder ==
  ASSUME NEW t \in Users, todo'[t] \in Seq(Oper), Len(todo'[t]) = 1, todo'[t][1].op = "set",
         todo'[t][1].slot \in Own(t)'
  PROVE  InOrder(t)' /\ Relies(t)' /\ OnceEach(t)' /\ Destroys(t)' = {} /\ \A o : ~Begins(t, o)'
<1>1. At(t)' = {1}
  BY DEF At
<1>2. InOrder(t)'
  BY <1>1 DEF InOrder, Writes
<1>3. Relies(t)'
  BY <1>1 DEF Relies
<1> QED
  BY <1>1, <1>2, <1>3 DEF OnceEach, Destroys, Dooms, Begins

-----------------------------------------------------------------------------
(* What the thread that steps has given up *)

Releases == {"decStrong", "decWeak", "set"}

(* What it has given up once its first operation is done.                  *)
After(t, s) ==
  \E k \in At(t) : /\ k > 1 /\ todo[t][k].op \in Writes /\ Target(todo[t][k]) = s
                   /\ k > 2 => todo[t][k - 1].op \notin Releases

LEMMA PopGives ==
  ASSUME RefTypes, NEW t \in Users, Pop(t), NEW s
  PROVE  GivenBy(t, s)' <=> After(t, s)
<1>1. /\ Len(todo[t]) \in Nat \ {0} /\ At(t)' = 1 .. Len(todo[t]) - 1
      /\ \A k \in At(t)' : todo'[t][k] = todo[t][k + 1] /\ k + 1 \in At(t)
  BY PopFacts
<1>2. \A k \in At(t)' : k \in Nat /\ (k = 1 \/ k > 1) /\ (k > 1 => k - 1 \in At(t)' /\ (k - 1) + 1 = k) /\ (k + 1) - 1 = k
  BY <1>1
<1>3. \A k \in At(t) : k > 1 => k - 1 \in At(t)' /\ (k - 1) + 1 = k /\ (k > 2 <=> k - 1 > 1) /\ (k - 1) - 1 = k - 2
  BY <1>1 DEF At
<1>4. ASSUME GivenBy(t, s)' PROVE After(t, s)
  <2>1. PICK k \in At(t)' : Given(todo'[t], k) /\ Target(todo'[t][k]) = s
    BY <1>4 DEF GivenBy, Given, Target, Ref!member
  <2>2. todo'[t][k] = todo[t][k + 1] /\ k + 1 \in At(t) /\ k + 1 > 1
    BY <1>1, <1>2
  <2>3. k + 1 > 2 => k > 1
    BY <1>2
  <2>4. k > 1 => todo[t][k].op \notin Releases
    BY <1>1, <1>2, <2>1 DEF Given, Releases
  <2>5. todo[t][k + 1].op \in Writes /\ Target(todo[t][k + 1]) = s /\ (k + 1) - 1 = k
    BY <1>2, <2>1, <2>2 DEF Given
  <2> QED
    BY <2>2, <2>3, <2>4, <2>5 DEF After
<1>5. ASSUME After(t, s) PROVE GivenBy(t, s)'
  <2>1. PICK k \in At(t) : /\ k > 1 /\ todo[t][k].op \in Writes /\ Target(todo[t][k]) = s
                           /\ k > 2 => todo[t][k - 1].op \notin Releases
    BY <1>5 DEF After
  <2> DEFINE j == k - 1
  <2>2. j \in At(t)' /\ todo'[t][j] = todo[t][k]
    BY <1>1, <1>3, <2>1
  <2>3. j > 1 => k > 2 /\ todo'[t][j - 1] = todo[t][k - 1]
    BY <1>1, <1>2, <1>3, <2>1, <2>2
  <2> HIDE DEF j
  <2>4. Given(todo'[t], j)
    BY <2>1, <2>2, <2>3 DEF Given, Releases
  <2> QED
    BY <2>1, <2>2, <2>4 DEF GivenBy, Given, Target, Ref!member
<1> QED
  BY <1>4, <1>5

LEMMA ReplaceGives ==
  ASSUME RefTypes, NEW t \in Users, NEW a, Replace(t, a), a.op \notin Releases, NEW s
  PROVE  GivenBy(t, s)' <=> After(t, s) \/ (a.op \in Writes /\ Target(a) = s)
<1>1. /\ At(t)' = At(t) /\ 1 \in At(t) /\ todo'[t][1] = a /\ Len(todo[t]) \in Nat \ {0}
      /\ \A k \in At(t) : k > 1 => todo'[t][k] = todo[t][k]
  BY ReplaceFacts
<1>2. \A k \in At(t) : /\ k \in Nat /\ (k = 1 \/ k = 2 \/ k > 2)
                       /\ k > 2 => k - 1 \in At(t) /\ k - 1 > 1
                       /\ k = 2 => k - 1 = 1
  BY <1>1 DEF At
<1>3. ASSUME NEW k \in At(t), k > 1
      PROVE  Given(todo'[t], k) <=> todo[t][k].op \in Writes /\ (k > 2 => todo[t][k - 1].op \notin Releases)
  <2>1. todo'[t][k] = todo[t][k]
    BY <1>1, <1>3
  <2>2. CASE k = 2
    BY <1>1, <1>2, <2>1, <2>2 DEF Given, Releases
  <2>3. CASE k > 2
    <3>1. todo'[t][k - 1] = todo[t][k - 1]
      BY <1>1, <1>2, <2>3
    <3> QED
      BY <1>3, <2>1, <2>3, <3>1 DEF Given, Releases
  <2> QED
    BY <1>2, <1>3, <2>2, <2>3
<1>4. GivenBy(t, s)' <=> \E k \in At(t) : Given(todo'[t], k) /\ Target(todo'[t][k]) = s
  BY <1>1 DEF GivenBy, Given, Target, Ref!member
<1>5. Given(todo'[t], 1) <=> a.op \in Writes
  BY <1>1 DEF Given
<1>6. ASSUME GivenBy(t, s)' PROVE After(t, s) \/ (a.op \in Writes /\ Target(a) = s)
  <2>1. PICK k \in At(t) : Given(todo'[t], k) /\ Target(todo'[t][k]) = s
    BY <1>4, <1>6
  <2>2. CASE k = 1
    BY <1>1, <1>5, <2>1, <2>2
  <2>3. CASE k > 1
    BY <1>1, <1>3, <2>1, <2>3 DEF After
  <2> QED
    BY <1>2, <2>2, <2>3
<1>7. ASSUME After(t, s) PROVE GivenBy(t, s)'
  <2>1. PICK k \in At(t) : /\ k > 1 /\ todo[t][k].op \in Writes /\ Target(todo[t][k]) = s
                           /\ k > 2 => todo[t][k - 1].op \notin Releases
    BY <1>7 DEF After
  <2> QED
    BY <1>1, <1>3, <1>4, <2>1
<1>8. ASSUME a.op \in Writes /\ Target(a) = s PROVE GivenBy(t, s)'
  BY <1>1, <1>4, <1>5, <1>8
<1> QED
  BY <1>6, <1>7, <1>8

LEMMA ExpandGives ==
  ASSUME RefTypes, NEW t \in Users, NEW a, NEW c, Expand(t, a, c), a.op = "decStrong", c.op = "free", NEW s
  PROVE  GivenBy(t, s)' <=> After(t, s)
<1>1. /\ Len(todo[t]) \in Nat \ {0} /\ At(t)' = 1 .. Len(todo[t]) + 1
      /\ todo'[t][1] = a /\ todo'[t][2] = c
      /\ \A k \in At(t)' : k > 2 => todo'[t][k] = todo[t][k - 1] /\ k - 1 \in At(t)
  BY ExpandFacts
<1>2. \A k \in At(t)' : /\ k \in Nat /\ (k = 1 \/ k = 2 \/ k = 3 \/ (k > 3 /\ k - 1 > 2 /\ k - 1 \in At(t)'))
                        /\ k = 3 => k - 1 = 2
                        /\ k = 2 => k - 1 = 1
                        /\ k > 2 => k - 1 > 1
  BY <1>1
<1>3. \A k \in At(t) : k > 1 => k + 1 \in At(t)' /\ k + 1 > 2 /\ (k + 1) - 1 = k
  BY <1>1 DEF At
<1>4. ASSUME NEW k \in At(t)', k > 2
      PROVE  Given(todo'[t], k)
               <=> todo[t][k - 1].op \in Writes /\ (k - 1 > 2 => todo[t][(k - 1) - 1].op \notin Releases)
  <2>1. todo'[t][k] = todo[t][k - 1]
    BY <1>1, <1>4
  <2>2. CASE k = 3
    <3>1. todo'[t][k - 1].op = "free" /\ ~(k - 1 > 2) /\ k > 1
      BY <1>1, <2>2
    <3> QED
      BY <1>4, <2>1, <3>1 DEF Given
  <2>3. CASE k > 3
    <3>1. todo'[t][k - 1] = todo[t][(k - 1) - 1] /\ k - 1 > 2 /\ k > 1
      BY <1>1, <1>2, <2>3
    <3> QED
      BY <1>4, <2>1, <3>1 DEF Given, Releases
  <2> QED
    BY <1>2, <1>4, <2>2, <2>3
<1>5. GivenBy(t, s)' <=> \E k \in At(t)' : Given(todo'[t], k) /\ Target(todo'[t][k]) = s
  BY DEF GivenBy, Given, Target, Ref!member
<1>6. ASSUME NEW k \in At(t)', Given(todo'[t], k) PROVE k > 2
  <2>1. k # 1
    BY <1>1, <1>6 DEF Given, Writes
  <2>2. k # 2
    <3> SUFFICES ASSUME k = 2 PROVE FALSE
      OBVIOUS
    <3>1. todo'[t][k - 1].op = "decStrong" /\ k > 1
      BY <1>1, <1>2
    <3> QED
      BY <1>6, <3>1 DEF Given
  <2> QED
    BY <1>2, <2>1, <2>2
<1>7. ASSUME GivenBy(t, s)' PROVE After(t, s)
  <2>1. PICK k \in At(t)' : Given(todo'[t], k) /\ Target(todo'[t][k]) = s
    BY <1>5, <1>7
  <2>2. k > 2
    BY <1>6, <2>1
  <2>3. todo'[t][k] = todo[t][k - 1] /\ k - 1 \in At(t) /\ k - 1 > 1
    BY <1>1, <1>2, <2>2
  <2> QED
    BY <1>4, <2>1, <2>2, <2>3 DEF After
<1>8. ASSUME After(t, s) PROVE GivenBy(t, s)'
  <2>1. PICK k \in At(t) : /\ k > 1 /\ todo[t][k].op \in Writes /\ Target(todo[t][k]) = s
                           /\ k > 2 => todo[t][k - 1].op \notin Releases
    BY <1>8 DEF After
  <2>2. k + 1 \in At(t)' /\ k + 1 > 2 /\ (k + 1) - 1 = k
    BY <1>3, <2>1
  <2>3. Given(todo'[t], k + 1)
    BY <1>4, <2>1, <2>2
  <2>4. todo'[t][k + 1] = todo[t][k]
    BY <1>1, <2>2
  <2> QED
    BY <1>5, <2>1, <2>2, <2>3, <2>4
<1> QED
  BY <1>7, <1>8

(* What it had given up before.                                            *)
LEMMA GivesBefore ==
  ASSUME RefTypes, NEW t \in Users, todo[t] # <<>>, todo[t][1].op \notin Releases, NEW s
  PROVE  GivenBy(t, s) <=> After(t, s) \/ (todo[t][1].op \in Writes /\ Target(todo[t][1]) = s)
<1>1. 1 \in At(t) /\ \A k \in At(t) : k \in Nat /\ (k = 1 \/ k > 1)
  BY ListFacts
<1>2. ASSUME NEW k \in At(t), k > 1
      PROVE  Given(todo[t], k) <=> todo[t][k].op \in Writes /\ (k > 2 => todo[t][k - 1].op \notin Releases)
  <2>1. k > 2 \/ (k = 2 /\ k - 1 = 1 /\ ~(k > 2))
    BY <1>1, <1>2
  <2> QED
    BY <1>2, <2>1 DEF Given, Releases
<1>3. Given(todo[t], 1) <=> todo[t][1].op \in Writes
  BY DEF Given
<1>4. ASSUME GivenBy(t, s) PROVE After(t, s) \/ (todo[t][1].op \in Writes /\ Target(todo[t][1]) = s)
  <2>1. PICK k \in At(t) : Given(todo[t], k) /\ Target(todo[t][k]) = s
    BY <1>4 DEF GivenBy
  <2>2. CASE k = 1
    BY <1>3, <2>1, <2>2
  <2>3. CASE k > 1
    BY <1>2, <2>1, <2>3 DEF After
  <2> QED
    BY <1>1, <2>2, <2>3
<1>5. ASSUME After(t, s) PROVE GivenBy(t, s)
  BY <1>2, <1>5 DEF After, GivenBy
<1>6. ASSUME todo[t][1].op \in Writes, Target(todo[t][1]) = s PROVE GivenBy(t, s)
  BY <1>1, <1>3, <1>6 DEF GivenBy
<1> QED
  BY <1>4, <1>5, <1>6

LEMMA GivesRelease ==
  ASSUME Lists, Counted, Doomed, NEW t \in Users, todo[t] # <<>>, todo[t][1].op \in {"decStrong", "decWeak"}
  PROVE  /\ 2 \in At(t) /\ todo[t][2].op \in Writes
         /\ \A s : After(t, s) <=> GivenBy(t, s) \/ s = Target(todo[t][2])
         /\ Kept(Target(todo[t][2]))
<1> DEFINE n == Len(todo[t])
<1>1. 1 \in At(t) /\ At(t) = 1 .. n /\ n \in Nat /\ n >= 1 /\ \A k \in At(t) : k \in Nat /\ (k = 1 \/ k > 1)
  BY ListFacts DEF Lists, At
<1>2. n # 1
  BY <1>1 DEF Lists, InOrder
<1> HIDE DEF n
<1>3. 2 \in At(t) /\ 2 > 1
  BY <1>1, <1>2
<1>4. todo[t][2].op \in Writes
  BY <1>3, RestWrites
<1>5. ~Given(todo[t], 1)
  BY DEF Given, Writes
<1>6. ~Given(todo[t], 2)
  <2>1. 2 - 1 = 1 /\ 2 > 1
    OBVIOUS
  <2> QED
    BY <2>1 DEF Given
<1>7. ASSUME NEW k \in At(t), k > 2
      PROVE  Given(todo[t], k) <=> todo[t][k].op \in Writes /\ todo[t][k - 1].op \notin Releases
  <2>1. k > 1
    BY <1>1, <1>7
  <2> QED
    BY <1>7, <2>1 DEF Given, Releases
<1>8. \A k \in At(t) : (k = 1 \/ k = 2 \/ k > 2) /\ (k > 2 => k > 1)
  BY <1>1
<1>9. ASSUME NEW s, After(t, s) PROVE GivenBy(t, s) \/ s = Target(todo[t][2])
  <2>1. PICK k \in At(t) : /\ k > 1 /\ todo[t][k].op \in Writes /\ Target(todo[t][k]) = s
                           /\ k > 2 => todo[t][k - 1].op \notin Releases
    BY <1>9 DEF After
  <2>2. CASE k = 2
    BY <2>1, <2>2
  <2>3. CASE k > 2
    BY <1>7, <2>1, <2>3 DEF GivenBy
  <2> QED
    BY <1>8, <2>1, <2>2, <2>3
<1>10. ASSUME NEW s, GivenBy(t, s) PROVE After(t, s)
  <2>1. PICK k \in At(t) : Given(todo[t], k) /\ Target(todo[t][k]) = s
    BY <1>10 DEF GivenBy
  <2>2. k > 2 /\ k > 1
    BY <1>5, <1>6, <1>8, <2>1
  <2> QED
    BY <1>7, <2>1, <2>2 DEF After
<1>11. After(t, Target(todo[t][2]))
  <2>1. ~(2 > 2)
    OBVIOUS
  <2> QED
    BY <1>3, <1>4, <2>1 DEF After
<1>12. Kept(Target(todo[t][2]))
  <2> SUFFICES ASSUME NEW u \in Users, NEW k \in At(u), Given(todo[u], k), Target(todo[u][k]) = Target(todo[t][2])
               PROVE  FALSE
    BY DEF Kept
  <2>1. t = u /\ 2 = k
    BY <1>3, <1>4, OneWriter DEF Given
  <2> QED
    BY <1>6, <2>1
<1> QED
  BY <1>3, <1>4, <1>9, <1>10, <1>11, <1>12

LEMMA GivesLast ==
  ASSUME Lists, NEW t \in Users, todo[t] # <<>>, todo[t][1].op \in {"set", "take", "attemptIncStrong"}, ~Moving(t)
  PROVE  \A s : ~After(t, s) /\ (GivenBy(t, s) <=> todo[t][1].op \in Writes /\ Target(todo[t][1]) = s)
<1>1. At(t) = {1}
  BY LastAlone
<1>2. Given(todo[t], 1) <=> todo[t][1].op \in Writes
  BY DEF Given
<1> QED
  BY <1>1, <1>2 DEF After, GivenBy

LEMMA GivesMove ==
  ASSUME Lists, NEW t \in Users, Moving(t)
  PROVE  \A s : (After(t, s) <=> s = todo[t][2].slot) /\ (GivenBy(t, s) <=> s = todo[t][1].slot)
<1>1. At(t) = {1, 2} /\ 2 > 1 /\ ~(1 > 1) /\ ~(2 > 2) /\ ~(1 > 2) /\ 2 - 1 = 1
  BY DEF Moving, At
<1>2. /\ todo[t][1].op = "set" /\ todo[t][2].op = "set"
      /\ Target(todo[t][1]) = todo[t][1].slot /\ Target(todo[t][2]) = todo[t][2].slot
  BY DEF Moving, Target
<1>3. Given(todo[t], 1) /\ ~Given(todo[t], 2)
  BY <1>1, <1>2 DEF Given, Writes
<1> QED
  BY <1>1, <1>2, <1>3 DEF After, GivenBy, Writes

(* A slot is kept if the thread that steps and the others keep it.         *)
LEMMA KeptStep ==
  ASSUME NEW t \in Users, OnlyList(t), NEW s
  PROVE  Kept(s)' <=> ~GivenBy(t, s)' /\ \A u \in Users \ {t} : ~GivenBy(u, s)
<1>1. Kept(s)' <=> \A u \in Users : ~GivenBy(u, s)'
  BY DEF Kept, GivenBy
<1> QED
  BY <1>1, OthersGive

LEMMA HeldSame ==
  ASSUME NEW t \in Users, OnlyList(t), NEW s, GivenBy(t, s)' <=> GivenBy(t, s),
         m_ptr'[s] = m_ptr[s] \/ GivenBy(t, s)
  PROVE  Held(s)' = Held(s)
  BY KeptStep, KeptIs DEF Held

-----------------------------------------------------------------------------
(* What a call has counted for a slot *)

Last(t) == todo[t][Len(todo[t])]
Arrives(t, S) == IF Last(t).op = "set" /\ Last(t).slot \in S THEN Last(t).obj ELSE NULL

LEMMA ComingIs ==
  ASSUME NEW t, NEW S
  PROVE  Coming(t, S) = IF todo[t] # <<>> /\ todo[t][1].op \notin {"incStrong", "incWeak"}
                        THEN Arrives(t, S) ELSE NULL
  BY DEF Coming, Arrives, Last

LEMMA PopComing ==
  ASSUME Lists, NEW t \in Users, Pop(t), Len(todo[t]) > 1, NEW S
  PROVE  Coming(t, S)' = Arrives(t, S)
<1>1. /\ Len(todo'[t]) = Len(todo[t]) - 1 /\ Len(todo[t]) \in Nat \ {0}
      /\ At(t)' = 1 .. Len(todo[t]) - 1
      /\ \A k \in At(t)' : todo'[t][k] = todo[t][k + 1] /\ k + 1 \in At(t)
      /\ todo'[t] \in Seq(Oper)
  BY PopFacts DEF Lists, OnlyList
<1>2. 1 \in At(t)' /\ Len(todo'[t]) \in At(t)' /\ Len(todo'[t]) + 1 = Len(todo[t]) /\ Len(todo'[t]) # 0 /\ 1 + 1 = 2
  BY <1>1
<1>3. todo'[t] # <<>>
  BY <1>1, <1>2, EmptyList
<1>4. todo'[t][Len(todo'[t])] = Last(t)
  BY <1>1, <1>2 DEF Last
<1>5. todo'[t][1].op \notin {"incStrong", "incWeak"}
  <2>1. todo'[t][1] = todo[t][2] /\ 2 \in At(t)
    BY <1>1, <1>2
  <2>2. \/ todo[t][2].op \in Writes \/ todo[t][2].op = "decStrong" \/ todo[t][2].op = "decWeak"
    BY <2>1 DEF Lists, InOrder
  <2> QED
    BY <2>1, <2>2 DEF Writes
<1> QED
  BY <1>3, <1>4, <1>5 DEF Coming, Arrives

LEMMA ReplaceComing ==
  ASSUME RefTypes, NEW t \in Users, NEW a, Replace(t, a), a.op \notin {"incStrong", "incWeak"},
         Len(todo[t]) > 1, NEW S
  PROVE  Coming(t, S)' = Arrives(t, S)
<1>1. /\ Len(todo'[t]) = Len(todo[t]) /\ Len(todo[t]) \in Nat \ {0} /\ todo'[t][1] = a
      /\ \A k \in At(t) : k > 1 => todo'[t][k] = todo[t][k]
      /\ todo'[t] \in Seq(Oper)
  BY ReplaceFacts DEF OnlyList
<1>2. Len(todo[t]) \in At(t) /\ Len(todo'[t]) # 0
  BY <1>1 DEF At
<1>3. todo'[t] # <<>>
  BY <1>1, <1>2, EmptyList
<1>4. todo'[t][Len(todo'[t])] = Last(t)
  BY <1>1, <1>2 DEF Last
<1> QED
  BY <1>1, <1>3, <1>4 DEF Coming, Arrives

LEMMA ExpandComing ==
  ASSUME RefTypes, NEW t \in Users, NEW a, NEW c, Expand(t, a, c), a.op \notin {"incStrong", "incWeak"},
         Len(todo[t]) > 1, NEW S
  PROVE  Coming(t, S)' = Arrives(t, S)
<1>1. /\ Len(todo[t]) \in Nat \ {0} /\ At(t)' = 1 .. Len(todo[t]) + 1 /\ Len(todo'[t]) = Len(todo[t]) + 1
      /\ todo'[t][1] = a
      /\ \A k \in At(t)' : k > 2 => todo'[t][k] = todo[t][k - 1] /\ k - 1 \in At(t)
      /\ todo'[t] \in Seq(Oper)
  BY ExpandFacts DEF OnlyList
<1>2. Len(todo'[t]) \in At(t)' /\ Len(todo'[t]) > 2 /\ Len(todo'[t]) - 1 = Len(todo[t]) /\ Len(todo'[t]) # 0
  BY <1>1
<1>3. todo'[t] # <<>>
  BY <1>1, <1>2, EmptyList
<1>4. todo'[t][Len(todo'[t])] = Last(t)
  BY <1>1, <1>2 DEF Last
<1> QED
  BY <1>1, <1>3, <1>4 DEF Coming, Arrives

-----------------------------------------------------------------------------
(* The steps *)

(* The first operation of a thread that is in a call.                      *)
LEMMA FirstOp ==
  ASSUME RefTypes, NEW t \in Users, NEW f, Ref!HeadOp(t, f)
  PROVE  /\ todo[t] # <<>> /\ Head(todo[t]) = todo[t][1] /\ 1 \in At(t)
         /\ todo[t][1] \in Oper /\ todo[t][1].op = f
<1>1. todo[t] # <<>> /\ Head(todo[t]).op = f
  BY DEF Ref!HeadOp
<1>2. 1 \in At(t) /\ todo[t][1] \in Oper
  BY <1>1, ListFacts
<1>3. Head(todo[t]) = todo[t][1]
  BY <1>1, HeadTailProperties DEF RefTypes
<1> QED
  BY <1>1, <1>2, <1>3

LEMMA InvParts ==
  ASSUME RefInv
  PROVE  Lists /\ RefTypes /\ Counted /\ Doomed /\ Living /\ ~wrong /\ \A t \in Users : OnceEach(t) /\ Source(t)
  BY DEF RefInv, Lists, Doomed

LEMMA CountedAgain ==
  ASSUME RefInv, RefTypes',
         \A o \in Objects :
           /\ Cardinality(Holders(o, Strong))' = Cardinality(Holders(o, Strong)) + (mCount'[o] - mCount[o])
           /\ Cardinality(Holders(o, Weak))' = Cardinality(Holders(o, Weak)) + (mWeak'[o] - mWeak[o])
  PROVE  Counted'
<1> SUFFICES ASSUME NEW o \in Objects
             PROVE  mCount'[o] = Cardinality(Holders(o, Strong))' /\ mWeak'[o] = Cardinality(Holders(o, Weak))'
  BY DEF Counted
<1>1. mCount[o] \in Int /\ mWeak[o] \in Int /\ mCount'[o] \in Int /\ mWeak'[o] \in Int
  BY DEF RefInv, RefTypes
<1>2. mCount[o] = Cardinality(Holders(o, Strong)) /\ mWeak[o] = Cardinality(Holders(o, Weak))
  BY DEF RefInv, Counted
<1> QED
  BY <1>1, <1>2

(* What a thread begins to count lives, and is its own business.           *)
LEMMA SourceLives ==
  ASSUME RefInv, NEW t \in Users, NEW x \in Objects, Begins(t, x)
  PROVE  life[x] = "live" /\ \A u \in Users : x \notin Destroys(u) /\ (Fresh(u, x) => u = t)
<1>1. CASE Fresh(t, x)
  BY <1>1 DEF Fresh
<1>2. CASE \E s \in Own(t) \cap Strong : m_ptr[s] = x
  <2>1. PICK s \in Own(t) \cap Strong : m_ptr[s] = x
    BY <1>2
  <2>2. m_ptr[s] # NULL
    BY <2>1, PointersAssumption
  <2>3. todo[t] # <<>> /\ todo[t][1].op = "incStrong"
    BY DEF Begins
  <2>4. mCount[x] > 0
    BY <2>1, <2>2, <2>3, InvParts, BeginsKeeps, KeptIsCounted
  <2>5. mCount[x] # 0
    BY <2>4, InvParts DEF RefTypes
  <2> QED
    BY <2>4, <2>5, InvParts DEF Living, Doomed, Fresh
<1> QED
  BY <1>1, <1>2, InvParts DEF Source

LEMMA IncStrongKeeps ==
  ASSUME RefInv, NEW t \in Users, Ref!incStrong(t)
  PROVE  RefInv'
<1> DEFINE q == todo[t]
<1>0. Lists /\ RefTypes /\ Counted /\ Doomed /\ Living /\ ~wrong /\ OnceEach(t)
  BY InvParts
<1>1. todo[t] # <<>> /\ Head(todo[t]) = todo[t][1] /\ 1 \in At(t) /\ q[1] \in Oper /\ q[1].op = "incStrong"
  BY <1>0, FirstOp DEF Ref!incStrong
<1>2. PICK x \in Objects : x = q[1].obj
  BY <1>1, OperFields DEF Counting
<1>3. /\ mCount' = [mCount EXCEPT ![x] = @ + 1] /\ wrong' = (wrong \/ life[x] # "live")
      /\ life' = life /\ creator' = creator /\ mWeak' = mWeak /\ m_ptr' = m_ptr
  BY <1>1, <1>2 DEF Ref!incStrong
<1>4. Pop(t)
  BY <1>1 DEF Ref!incStrong, Ref!Then, Pop
<1>5. Begins(t, x)
  BY <1>1, <1>2 DEF Begins
<1>6. life[x] = "live" /\ \A u \in Users : x \notin Destroys(u) /\ (Fresh(u, x) => u = t)
  BY <1>2, <1>5, SourceLives
<1>7. OnlyList(t) /\ RefTypes'
  BY <1>0, <1>2, <1>3, <1>4, PopFacts DEF OnlyList, RefTypes
<1>8. Creators /\ \A u \in Users \ {t} : Untouched(u)
  BY <1>3 DEF Creators, Untouched
<1>9. Own(t)' = Own(t) /\ \A d : Lends(t, d, m_ptr', creator') = Lends(t, d, m_ptr, creator)
  BY <1>3 DEF Own, Sp
<1>10. InOrder(t)' /\ Relies(t)' /\ Source(t)' /\ \A o : ~Begins(t, o)'
  BY <1>0, <1>1, <1>3, <1>4, <1>9, PopInOrder, PopRelies DEF Source
<1>11. OnceEach(t)' /\ \A o : o \in Destroys(t)' <=> o \in Destroys(t)
  BY <1>0, <1>1, <1>4, PopDestroys DEF Dooms
<1>12. \A o : Begins(t, o) => o = x
  BY <1>2 DEF Begins
<1>13. mCount'[x] = mCount[x] + 1 /\ mCount[x] \in Nat /\ \A o \in Objects \ {x} : mCount'[o] = mCount[o]
  BY <1>0, <1>2, <1>3, HoldersFinite, SlotSets DEF RefTypes, Counted
<1>14. Others(t, x) /\ Itself(t, x)'
  BY <1>3, <1>6, <1>10, <1>11, <1>12, <1>13 DEF Others, Itself
<1>15. Counted'
  <2> DEFINE n == Len(q)
  <2>1. /\ n = 3 \/ n = 2
        /\ Last(t).op = "set" /\ Last(t).slot \in Strong /\ Last(t).obj = x
    BY <1>0, <1>1, <1>2 DEF Lists, Relies, Last
  <2> HIDE DEF n
  <2>2. n > 1
    BY <2>1
  <2> USE DEF n
  <2>3. \A s : Held(s)' = Held(s)
    BY <1>0, <1>1, <1>3, <1>4, <1>7, PopGives, GivesBefore, HeldSame DEF Writes, Releases
  <2>4. \A S : Coming(t, S) = NULL /\ Coming(t, S)' = Arrives(t, S)
    BY <1>0, <1>1, <1>4, <2>2, ComingIs, PopComing
  <2>5. Arrives(t, Strong) = x /\ Arrives(t, Weak) = NULL
    BY <2>1 DEF Arrives, Weak
  <2>6. \A u \in Users \ {t} : \A S : Coming(u, S)' = Coming(u, S)
    BY <1>7, OthersGive
  <2>7. ASSUME NEW o \in Objects
        PROVE  Cardinality(Holders(o, Strong))' = Cardinality(Holders(o, Strong)) + (IF o = x THEN 1 ELSE 0)
    BY <1>2, <2>3, <2>4, <2>5, <2>6, TokenAdded, SlotSets
  <2>8. ASSUME NEW o \in Objects PROVE Holders(o, Weak)' = Holders(o, Weak)
    <3>1. Same(Weak)
      BY <2>3, <2>4, <2>5, <2>6 DEF Same
    <3> QED
      BY <3>1, SameHolders
  <2>9. \A o \in Objects : Cardinality(Holders(o, Strong)) \in Int /\ Cardinality(Holders(o, Weak)) \in Int
    BY HoldersFinite, SlotSets
  <2>10. ASSUME NEW o \in Objects
         PROVE  mCount'[o] - mCount[o] = (IF o = x THEN 1 ELSE 0) /\ mWeak'[o] - mWeak[o] = 0
    BY <1>0, <1>3, <1>13 DEF RefTypes
  <2> QED
    BY <1>7, <2>7, <2>8, <2>9, <2>10, CountedAgain
<1>16. ~wrong'
  BY <1>0, <1>3, <1>6
<1> QED
  BY <1>7, <1>8, <1>10, <1>11, <1>14, <1>15, <1>16, StepKeeps

LEMMA NoOne ==
  ASSUME RefTypes
  PROVE  \A u \in Users : ~Fresh(u, NULL) /\ NULL \notin Destroys(u)
<1>1. NULL \notin Objects
  BY PointersAssumption
<1>2. ASSUME NEW u \in Users, Fresh(u, NULL) PROVE FALSE
  <2>1. todo[u] # <<>> /\ todo[u][1].op = "incStrong" /\ todo[u][1].obj = NULL
    BY <1>2 DEF Fresh, Begins
  <2>2. todo[u][1] \in Oper
    BY <2>1, ListFacts
  <2> QED
    BY <1>1, <2>1, <2>2, OperFields DEF Counting
<1>3. ASSUME NEW u \in Users, NULL \in Destroys(u) PROVE FALSE
  <2>1. PICK k \in 1 .. Len(todo[u]) : Dooms(todo[u][k]) /\ NULL = todo[u][k].obj
    BY <1>3 DEF Destroys, At
  <2>2. todo[u] \in Seq(Oper)
    BY DEF RefTypes
  <2> QED
    BY <1>1, <2>1, <2>2, DoomsObjects
<1> QED
  BY <1>2, <1>3

(* The counts as they are, or one more or one less.                        *)
LEMMA IntCounts ==
  ASSUME RefInv, NEW o \in Objects
  PROVE  /\ mCount[o] \in Nat /\ mWeak[o] \in Nat
         /\ Cardinality(Holders(o, Strong)) \in Nat /\ Cardinality(Holders(o, Weak)) \in Nat
  BY InvParts, HoldersFinite, SlotSets DEF Counted

LEMMA IncWeakKeeps ==
  ASSUME RefInv, NEW t \in Users, Ref!incWeak(t)
  PROVE  RefInv'
<1> DEFINE q == todo[t]
<1>0. Lists /\ RefTypes /\ Counted /\ Doomed /\ Living /\ ~wrong /\ OnceEach(t)
  BY InvParts
<1>1. todo[t] # <<>> /\ Head(todo[t]) = todo[t][1] /\ 1 \in At(t) /\ q[1] \in Oper /\ q[1].op = "incWeak"
  BY <1>0, FirstOp DEF Ref!incWeak
<1>2. PICK y \in Objects : y = q[1].obj
  BY <1>1, OperFields DEF Counting
<1>3. /\ mWeak' = [mWeak EXCEPT ![y] = @ + 1]
      /\ life' = life /\ creator' = creator /\ mCount' = mCount /\ m_ptr' = m_ptr /\ wrong' = wrong
  BY <1>1, <1>2 DEF Ref!incWeak
<1>4. Pop(t)
  BY <1>1 DEF Ref!incWeak, Ref!Then, Pop
<1>5. \A o : ~Begins(t, o)
  BY <1>1 DEF Begins
<1>7. OnlyList(t) /\ RefTypes'
  BY <1>0, <1>2, <1>3, <1>4, PopFacts DEF OnlyList, RefTypes
<1>8. Creators /\ \A u \in Users \ {t} : Untouched(u)
  BY <1>3 DEF Creators, Untouched
<1>9. Own(t)' = Own(t) /\ \A d : Lends(t, d, m_ptr', creator') = Lends(t, d, m_ptr, creator)
  BY <1>3 DEF Own, Sp
<1>10. InOrder(t)' /\ Relies(t)' /\ Source(t)' /\ \A o : ~Begins(t, o)'
  BY <1>0, <1>1, <1>3, <1>4, <1>9, PopInOrder, PopRelies DEF Source
<1>11. OnceEach(t)' /\ \A o : o \in Destroys(t)' <=> o \in Destroys(t)
  BY <1>0, <1>1, <1>4, PopDestroys DEF Dooms
<1>14. Others(t, NULL) /\ Itself(t, NULL)'
  BY <1>0, <1>3, <1>5, <1>10, <1>11, NoOne, PointersAssumption DEF Others, Itself
<1>15. Counted'
  <2> DEFINE n == Len(q)
  <2>1. /\ n = 3 \/ n = 2
        /\ Last(t).op = "set" /\ Last(t).slot = Ref!wp(t) /\ Last(t).obj = y
    BY <1>0, <1>1, <1>2 DEF Lists, Relies, Last
  <2> HIDE DEF n
  <2>2. n > 1
    BY <2>1
  <2> USE DEF n
  <2>3. \A s : Held(s)' = Held(s)
    BY <1>0, <1>1, <1>3, <1>4, <1>7, PopGives, GivesBefore, HeldSame DEF Writes, Releases
  <2>4. \A S : Coming(t, S) = NULL /\ Coming(t, S)' = Arrives(t, S)
    BY <1>0, <1>1, <1>4, <2>2, ComingIs, PopComing
  <2>5. Arrives(t, Weak) = y /\ Arrives(t, Strong) = NULL
    BY <2>1, SlotSets DEF Arrives, Weak
  <2>6. \A u \in Users \ {t} : \A S : Coming(u, S)' = Coming(u, S)
    BY <1>7, OthersGive
  <2>7. ASSUME NEW o \in Objects
        PROVE  Cardinality(Holders(o, Weak))' = Cardinality(Holders(o, Weak)) + (IF o = y THEN 1 ELSE 0)
    BY <1>2, <2>3, <2>4, <2>5, <2>6, TokenAdded, SlotSets
  <2>8. ASSUME NEW o \in Objects PROVE Holders(o, Strong)' = Holders(o, Strong)
    <3>1. Same(Strong)
      BY <2>3, <2>4, <2>5, <2>6 DEF Same
    <3> QED
      BY <3>1, SameHolders
  <2>10. ASSUME NEW o \in Objects
         PROVE  mWeak'[o] - mWeak[o] = (IF o = y THEN 1 ELSE 0) /\ mCount'[o] - mCount[o] = 0
    BY <1>0, <1>3 DEF RefTypes
  <2> QED
    BY <1>7, <2>7, <2>8, <2>10, CountedAgain, IntCounts
<1> QED
  BY <1>0, <1>3, <1>7, <1>8, <1>10, <1>11, <1>14, <1>15, StepKeeps

(* A slot is about to be written: its reference is given up first.         *)
LEMMA ReleaseHeld ==
  ASSUME Lists, Counted, Doomed, NEW t \in Users, OnlyList(t), m_ptr' = m_ptr, todo[t] # <<>>,
         todo[t][1].op \in {"decStrong", "decWeak"}, \A s : GivenBy(t, s)' <=> After(t, s),
         NEW d, d = Target(todo[t][2])
  PROVE  /\ Held(d) = m_ptr[d] /\ Held(d)' = NULL
         /\ \A s : s # d => Held(s)' = Held(s)
<1>1. Kept(d) /\ \A s : After(t, s) <=> GivenBy(t, s) \/ s = d
  BY GivesRelease
<1>2. Held(d) = m_ptr[d]
  BY <1>1 DEF Held
<1>3. ~Kept(d)'
  BY <1>1, KeptStep
<1>4. ASSUME NEW s, s # d PROVE Held(s)' = Held(s)
  BY <1>1, <1>4, HeldSame
<1>5. Held(d)' = NULL
  BY <1>3 DEF Held
<1> QED
  BY <1>2, <1>4, <1>5

LEMMA DecWeakKeeps ==
  ASSUME RefInv, NEW t \in Users, Ref!decWeak(t)
  PROVE  RefInv'
<1> DEFINE q == todo[t]
<1>0. Lists /\ RefTypes /\ Counted /\ Doomed /\ Living /\ ~wrong /\ OnceEach(t)
  BY InvParts
<1>1. todo[t] # <<>> /\ Head(todo[t]) = todo[t][1] /\ 1 \in At(t) /\ q[1] \in Oper /\ q[1].op = "decWeak"
  BY <1>0, FirstOp DEF Ref!decWeak
<1>2. PICK y \in Objects : y = q[1].obj
  BY <1>1, OperFields DEF Counting
<1>3. /\ mWeak' = [mWeak EXCEPT ![y] = @ - 1]
      /\ life' = life /\ creator' = creator /\ mCount' = mCount /\ m_ptr' = m_ptr /\ wrong' = wrong
  BY <1>1, <1>2 DEF Ref!decWeak
<1>4. Pop(t)
  BY <1>1 DEF Ref!decWeak, Ref!Then, Pop
<1>5. \A o : ~Begins(t, o)
  BY <1>1 DEF Begins
<1>7. OnlyList(t) /\ RefTypes'
  BY <1>0, <1>2, <1>3, <1>4, PopFacts DEF OnlyList, RefTypes
<1>8. Creators /\ \A u \in Users \ {t} : Untouched(u)
  BY <1>3 DEF Creators, Untouched
<1>9. Own(t)' = Own(t) /\ \A d : Lends(t, d, m_ptr', creator') = Lends(t, d, m_ptr, creator)
  BY <1>3 DEF Own, Sp
<1>10. InOrder(t)' /\ Relies(t)' /\ Source(t)' /\ \A o : ~Begins(t, o)'
  BY <1>0, <1>1, <1>3, <1>4, <1>9, PopInOrder, PopRelies DEF Source
<1>11. OnceEach(t)' /\ \A o : o \in Destroys(t)' <=> o \in Destroys(t)
  BY <1>0, <1>1, <1>4, PopDestroys DEF Dooms
<1>14. Others(t, NULL) /\ Itself(t, NULL)'
  BY <1>0, <1>3, <1>5, <1>10, <1>11, NoOne, PointersAssumption DEF Others, Itself
<1>15. Counted'
  <2>1. /\ q[2].op = "set" /\ q[2].slot = Ref!wp(t) /\ m_ptr[Ref!wp(t)] = y /\ 2 \in At(t)
    <3>1. 1 + 1 = 2
      OBVIOUS
    <3> QED
      BY <1>0, <1>1, <1>2, <3>1, GivesRelease DEF Lists, Relies
  <2>2. Len(q) > 1
    BY <2>1, <1>0, ListFacts
  <2>3. \A s : GivenBy(t, s)' <=> After(t, s)
    BY <1>0, <1>4, PopGives
  <2>4. Target(q[2]) = Ref!wp(t)
    BY <2>1 DEF Target
  <2>5. PICK d : d = Ref!wp(t)
    OBVIOUS
  <2>6. /\ Held(d) = y /\ Held(d)' = NULL
        /\ \A s : s # d => Held(s)' = Held(s)
    <3>1. /\ Held(d) = m_ptr[d] /\ Held(d)' = NULL
          /\ \A s : s # d => Held(s)' = Held(s)
      BY <1>0, <1>1, <1>3, <1>7, <2>3, <2>4, <2>5, ReleaseHeld
    <3> QED
      BY <2>1, <2>5, <3>1
  <2>7. \A u \in Users : \A S : Coming(u, S)' = Coming(u, S)
    <3>1. \A S : Coming(t, S)' = Coming(t, S)
      BY <1>0, <1>1, <1>4, <2>2, ComingIs, PopComing
    <3> QED
      BY <1>7, <3>1, OthersGive
  <2>8. ASSUME NEW o \in Objects
        PROVE  Cardinality(Holders(o, Weak))' = Cardinality(Holders(o, Weak)) - (IF o = y THEN 1 ELSE 0)
    <3>1. d \in Weak /\ Weak \in SUBSET Slots
      BY <2>5, SlotSets
    <3> QED
      BY <1>2, <2>6, <2>7, <3>1, SlotRemoved
  <2>9. ASSUME NEW o \in Objects PROVE Holders(o, Strong)' = Holders(o, Strong)
    <3>1. d \notin Strong
      BY <2>5, SlotSets DEF Weak
    <3>2. Same(Strong)
      BY <2>6, <2>7, <3>1 DEF Same
    <3> QED
      BY <3>2, SameHolders
  <2>10. ASSUME NEW o \in Objects
         PROVE  mWeak'[o] - mWeak[o] = -(IF o = y THEN 1 ELSE 0) /\ mCount'[o] - mCount[o] = 0
    BY <1>0, <1>3 DEF RefTypes
  <2> QED
    BY <1>7, <2>8, <2>9, <2>10, CountedAgain, IntCounts
<1> QED
  BY <1>0, <1>3, <1>7, <1>8, <1>10, <1>11, <1>14, <1>15, StepKeeps

(* The reference a release gives up.                                       *)
LEMMA ReleaseSlot ==
  ASSUME RefInv, NEW t \in Users, todo[t] # <<>>, todo[t][1].op = "decStrong"
  PROVE  /\ Target(todo[t][2]) \in Strong /\ m_ptr[Target(todo[t][2])] = todo[t][1].obj
         /\ todo[t][1].obj \in Objects /\ mCount[todo[t][1].obj] > 0 /\ Len(todo[t]) > 1
<1>0. Lists /\ RefTypes /\ Counted /\ Doomed
  BY InvParts
<1>1. 2 \in At(t) /\ Kept(Target(todo[t][2]))
  BY <1>0, GivesRelease
<1>2. 1 \in At(t) /\ todo[t][1] \in Oper /\ 1 + 1 = 2 /\ Len(todo[t]) > 1
  BY <1>0, <1>1, ListFacts
<1>3. Target(todo[t][2]) \in Strong /\ m_ptr[Target(todo[t][2])] = todo[t][1].obj
  BY <1>0, <1>2 DEF Lists, Relies
<1>4. todo[t][1].obj \in Objects
  BY <1>2, OperFields DEF Counting
<1> QED
  BY <1>0, <1>1, <1>2, <1>3, <1>4, KeptIsCounted

LEMMA DecStrongKeeps ==
  ASSUME RefInv, NEW t \in Users, Ref!decStrong(t)
  PROVE  RefInv'
<1> DEFINE q == todo[t]
<1>0. Lists /\ RefTypes /\ Counted /\ Doomed /\ Living /\ ~wrong /\ OnceEach(t)
  BY InvParts
<1>1. todo[t] # <<>> /\ Head(todo[t]) = todo[t][1] /\ 1 \in At(t) /\ q[1] \in Oper /\ q[1].op = "decStrong"
  BY <1>0, FirstOp DEF Ref!decStrong
<1>2. PICK x \in Objects : x = q[1].obj
  BY <1>1, OperFields DEF Counting
<1>3. /\ mCount' = [mCount EXCEPT ![x] = @ - 1] /\ wrong' = (wrong \/ life[x] # "live")
      /\ life' = life /\ creator' = creator /\ mWeak' = mWeak /\ m_ptr' = m_ptr
  BY <1>1, <1>2 DEF Ref!decStrong
<1>4. PICK d \in Strong : d = Target(q[2]) /\ m_ptr[d] = x
  BY <1>1, <1>2, ReleaseSlot
<1>5. /\ mCount[x] \in Nat /\ mCount[x] > 0 /\ mCount'[x] = mCount[x] - 1 /\ Len(q) > 1
      /\ \A o \in Objects \ {x} : mCount'[o] = mCount[o]
  BY <1>0, <1>1, <1>2, <1>3, ReleaseSlot, IntCounts DEF RefTypes
<1>6. life[x] = "live" /\ \A u \in Users : ~Fresh(u, x) /\ x \notin Destroys(u)
  <2>1. mCount[x] # 0
    BY <1>5
  <2> QED
    BY <1>0, <1>5, <2>1 DEF Living, Doomed, Fresh
<1>7. Own(t)' = Own(t) /\ \A e : Lends(t, e, m_ptr', creator') = Lends(t, e, m_ptr, creator)
  BY <1>3 DEF Own, Sp
<1> DEFINE a == [op |-> "delete", obj |-> x]
<1>8. a \in Oper /\ a.op = "delete" /\ a.obj = x
  BY DEF Oper, Counting
<1>9. IF mCount[x] = 1 THEN Replace(t, a) ELSE Pop(t)
  BY <1>1, <1>2, <1>8 DEF Ref!decStrong, Ref!Then, Replace, Pop
<1> HIDE DEF a
<1>10. /\ OnlyList(t) /\ InOrder(t)' /\ Relies(t)' /\ OnceEach(t)'
       /\ \A o : ~Begins(t, o)'
       /\ \A o : o \in Destroys(t)' <=> o \in Destroys(t) \/ (mCount[x] = 1 /\ o = x)
       /\ \A s : GivenBy(t, s)' <=> After(t, s)
       /\ \A S : Coming(t, S)' = Arrives(t, S)
  <2>1. CASE mCount[x] = 1
    <3>1. Replace(t, a) /\ a.op \in {"delete", "free"} /\ Dooms(a) /\ ~Dooms(q[1]) /\ a.op \notin Releases
          /\ a.op \notin Writes
      BY <1>1, <1>8, <1>9, <2>1 DEF Dooms, Releases, Writes
    <3>2. OnlyList(t) /\ InOrder(t)' /\ Relies(t)' /\ \A o : ~Begins(t, o)'
      BY <1>0, <1>1, <1>3, <3>1, ReplaceFacts, ReplaceOrder
    <3>3. OnceEach(t)' /\ \A o : o \in Destroys(t)' <=> o \in Destroys(t) \/ o = x
      BY <1>0, <1>6, <1>8, <3>1, ReplaceDestroys
    <3>4. \A s : GivenBy(t, s)' <=> After(t, s)
      BY <1>0, <3>1, ReplaceGives
    <3>5. \A S : Coming(t, S)' = Arrives(t, S)
      BY <1>0, <1>5, <1>8, <3>1, ReplaceComing
    <3> QED
      BY <2>1, <3>2, <3>3, <3>4, <3>5
  <2>2. CASE mCount[x] # 1
    <3>1. Pop(t)
      BY <1>9, <2>2
    <3>2. OnlyList(t) /\ InOrder(t)' /\ Relies(t)' /\ \A o : ~Begins(t, o)'
      BY <1>0, <1>1, <1>3, <1>7, <3>1, PopFacts, PopInOrder, PopRelies
    <3>3. OnceEach(t)' /\ \A o : o \in Destroys(t)' <=> o \in Destroys(t)
      BY <1>0, <1>1, <3>1, PopDestroys DEF Dooms
    <3>4. \A s : GivenBy(t, s)' <=> After(t, s)
      BY <1>0, <3>1, PopGives
    <3>5. \A S : Coming(t, S)' = Arrives(t, S)
      BY <1>0, <1>5, <3>1, PopComing
    <3> QED
      BY <2>2, <3>2, <3>3, <3>4, <3>5
  <2> QED
    BY <2>1, <2>2
<1>11. Source(t)'
  BY <1>10 DEF Source
<1>12. RefTypes'
  BY <1>0, <1>2, <1>3, <1>10 DEF OnlyList, RefTypes
<1>13. Creators /\ \A u \in Users \ {t} : Untouched(u)
  BY <1>3 DEF Creators, Untouched
<1>14. Others(t, x) /\ Itself(t, x)'
  <2>1. \A o : ~Begins(t, o)
    BY <1>1 DEF Begins
  <2>2. Others(t, x)
    BY <1>3, <1>5, <1>6, <1>10, <2>1 DEF Others
  <2>3. mCount[x] = 1 <=> mCount'[x] = 0
    BY <1>5
  <2> QED
    BY <1>3, <1>6, <1>10, <2>2, <2>3 DEF Itself
<1>15. Counted'
  <2>1. /\ Held(d) = x /\ Held(d)' = NULL
        /\ \A s : s # d => Held(s)' = Held(s)
    BY <1>0, <1>1, <1>3, <1>4, <1>10, ReleaseHeld
  <2>2. \A u \in Users : \A S : Coming(u, S)' = Coming(u, S)
    <3>1. \A S : Coming(t, S)' = Coming(t, S)
      BY <1>1, <1>10, ComingIs
    <3> QED
      BY <1>10, <3>1, OthersGive
  <2>3. ASSUME NEW o \in Objects
        PROVE  Cardinality(Holders(o, Strong))' = Cardinality(Holders(o, Strong)) - (IF o = x THEN 1 ELSE 0)
    <3>1. Strong \in SUBSET Slots
      BY SlotSets
    <3> QED
      BY <2>1, <2>2, <3>1, SlotRemoved
  <2>4. ASSUME NEW o \in Objects PROVE Holders(o, Weak)' = Holders(o, Weak)
    <3>1. d \notin Weak
      BY <1>4 DEF Weak
    <3>2. Same(Weak)
      BY <2>1, <2>2, <3>1 DEF Same
    <3> QED
      BY <3>2, SameHolders
  <2>5. ASSUME NEW o \in Objects
        PROVE  mCount'[o] - mCount[o] = -(IF o = x THEN 1 ELSE 0) /\ mWeak'[o] - mWeak[o] = 0
    BY <1>0, <1>3 DEF RefTypes
  <2> QED
    BY <1>12, <2>3, <2>4, <2>5, CountedAgain, IntCounts
<1>16. ~wrong'
  BY <1>0, <1>3, <1>6
<1> QED
  BY <1>10, <1>11, <1>12, <1>13, <1>14, <1>15, <1>16, StepKeeps

(* No reference comes or goes.                                             *)
LEMMA CountedSame ==
  ASSUME RefInv, RefTypes', NEW t \in Users, OnlyList(t), mCount' = mCount, mWeak' = mWeak,
         \A s \in Slots : Held(s)' = Held(s), \A S : Coming(t, S)' = Coming(t, S)
  PROVE  Counted'
<1>1. \A u \in Users : \A S : Coming(u, S)' = Coming(u, S)
  BY OthersGive
<1>2. Same(Strong) /\ Same(Weak)
  BY <1>1, SlotSets DEF Same
<1>3. ASSUME NEW o \in Objects PROVE Holders(o, Strong)' = Holders(o, Strong) /\ Holders(o, Weak)' = Holders(o, Weak)
  BY <1>2, SameHolders
<1>4. \A o \in Objects : mCount'[o] - mCount[o] = 0 /\ mWeak'[o] - mWeak[o] = 0
  BY InvParts DEF RefTypes
<1> QED
  BY <1>3, <1>4, CountedAgain, IntCounts

LEMMA DeleteKeeps ==
  ASSUME RefInv, NEW t \in Users, Ref!Delete(t)
  PROVE  RefInv'
<1> DEFINE q == todo[t]
<1>0. Lists /\ RefTypes /\ Counted /\ Doomed /\ Living /\ ~wrong /\ OnceEach(t)
  BY InvParts
<1>1. todo[t] # <<>> /\ Head(todo[t]) = todo[t][1] /\ 1 \in At(t) /\ q[1] \in Oper /\ q[1].op = "delete"
  BY <1>0, FirstOp DEF Ref!Delete
<1>2. PICK x \in Objects : x = q[1].obj
  BY <1>1, OperFields DEF Counting
<1>3. /\ mCount' = mCount /\ wrong' = wrong
      /\ life' = life /\ creator' = creator /\ mWeak' = mWeak /\ m_ptr' = m_ptr
  BY DEF Ref!Delete
<1>4. Ref!member(x) \in Slots /\ m_ptr[Ref!member(x)] \in Objects \cup {NULL}
  BY <1>0, SlotSets DEF RefTypes, Pointers
<1>5. PICK y : y = m_ptr[Ref!member(x)]
  OBVIOUS
<1> DEFINE a == [op |-> "decStrong", obj |-> y]
           c == [op |-> "free", obj |-> x]
<1>6. /\ c \in Oper /\ c.op = "free" /\ c.obj = x /\ a.op = "decStrong" /\ a.obj = y
      /\ y # NULL => a \in Oper
  BY <1>4, <1>5 DEF Oper, Counting
<1>7. IF y = NULL THEN Replace(t, c) ELSE Expand(t, a, c)
  <2>1. todo' = [todo EXCEPT ![t] = (Ref!Op("decStrong", y) \o <<c>>) \o Tail(@)]
    BY <1>1, <1>2, <1>5 DEF Ref!Delete, Ref!Then
  <2>2. CASE y = NULL
    <3>1. Ref!Op("decStrong", y) \o <<c>> = <<c>>
      BY <2>2 DEF Ref!Op
    <3> QED
      BY <1>1, <1>6, <2>1, <2>2, <3>1 DEF Replace
  <2>3. CASE y # NULL
    <3>1. Ref!Op("decStrong", y) = <<a>>
      BY <2>3 DEF Ref!Op
    <3> QED
      BY <1>1, <1>6, <2>1, <2>3, <3>1 DEF Expand
  <2> QED
    BY <2>2, <2>3
<1> HIDE DEF a, c
<1>8. Dooms(q[1]) /\ Dooms(c) /\ ~Dooms(a)
  BY <1>1, <1>6 DEF Dooms
<1>9. \A s : GivenBy(t, s) <=> After(t, s)
  BY <1>0, <1>1, GivesBefore DEF Releases, Writes
<1>10. /\ OnlyList(t) /\ InOrder(t)' /\ Relies(t)' /\ OnceEach(t)'
       /\ \A o : ~Begins(t, o)'
       /\ \A o : o \in Destroys(t)' <=> o \in Destroys(t)
       /\ \A S : Coming(t, S)' = Arrives(t, S)
       /\ \A s \in Slots : Held(s)' = Held(s)
  <2>1. x \in Destroys(t)
    BY <1>1, <1>2, <1>8 DEF Destroys
  <2>2. CASE y = NULL
    <3>1. Replace(t, c) /\ c.op \in {"delete", "free"} /\ c.op \notin Releases
      BY <1>6, <1>7, <2>2 DEF Releases
    <3>2. OnlyList(t) /\ InOrder(t)' /\ Relies(t)' /\ (\A o : ~Begins(t, o)') /\ Len(q) > 1
      BY <1>0, <1>1, <1>3, <3>1, ReplaceFacts, ReplaceOrder
    <3>3. OnceEach(t)' /\ \A o : o \in Destroys(t)' <=> o \in Destroys(t) \/ o = x
      BY <1>0, <1>2, <1>6, <1>8, <3>1, ReplaceDestroys
    <3>4. \A s : GivenBy(t, s)' <=> After(t, s) \/ Ref!member(x) = s
      BY <1>0, <1>6, <3>1, ReplaceGives DEF Writes, Target
    <3>5. \A S : Coming(t, S)' = Arrives(t, S)
      BY <1>0, <1>6, <3>1, <3>2, ReplaceComing
    <3>6. ASSUME NEW s \in Slots PROVE Held(s)' = Held(s)
      <4>1. CASE s = Ref!member(x)
        <5>1. Held(s) = NULL
          BY <1>5, <2>2, <4>1 DEF Held
        <5>2. ~Kept(s)'
          BY <3>2, <3>4, <4>1, KeptStep
        <5> QED
          BY <5>1, <5>2 DEF Held
      <4>2. CASE s # Ref!member(x)
        BY <1>3, <1>9, <3>2, <3>4, <4>2, HeldSame
      <4> QED
        BY <4>1, <4>2
    <3> QED
      BY <2>1, <3>2, <3>3, <3>5, <3>6
  <2>3. CASE y # NULL
    <3>1. Expand(t, a, c)
      BY <1>7, <2>3
    <3>2. OnlyList(t) /\ InOrder(t)' /\ Relies(t)' /\ (\A o : ~Begins(t, o)') /\ Len(q) > 1
      BY <1>0, <1>1, <1>3, <1>5, <1>6, <3>1, ExpandFacts, ExpandOrder
    <3>3. OnceEach(t)' /\ \A o : o \in Destroys(t)' <=> o \in Destroys(t)
      BY <1>0, <1>2, <1>6, <1>8, <3>1, ExpandDestroys
    <3>4. \A s : GivenBy(t, s)' <=> After(t, s)
      BY <1>0, <1>6, <3>1, ExpandGives
    <3>5. \A S : Coming(t, S)' = Arrives(t, S)
      BY <1>0, <1>6, <3>1, <3>2, ExpandComing
    <3>6. ASSUME NEW s \in Slots PROVE Held(s)' = Held(s)
      BY <1>3, <1>9, <3>2, <3>4, HeldSame
    <3> QED
      BY <3>2, <3>3, <3>5, <3>6
  <2> QED
    BY <2>2, <2>3
<1>11. Source(t)' /\ \A o : ~Begins(t, o)
  BY <1>1, <1>10 DEF Source, Begins
<1>12. RefTypes'
  BY <1>0, <1>2, <1>3, <1>10 DEF OnlyList, RefTypes
<1>13. Creators /\ \A u \in Users \ {t} : Untouched(u)
  BY <1>3 DEF Creators, Untouched
<1>14. Others(t, NULL) /\ Itself(t, NULL)'
  BY <1>0, <1>3, <1>10, <1>11, NoOne, PointersAssumption DEF Others, Itself
<1>15. Counted'
  <2>1. \A S : Coming(t, S)' = Coming(t, S)
    BY <1>1, <1>10, ComingIs
  <2> QED
    BY <1>3, <1>10, <1>12, <2>1, CountedSame
<1> QED
  BY <1>0, <1>3, <1>10, <1>11, <1>12, <1>13, <1>14, <1>15, StepKeeps

LEMMA FreeKeeps ==
  ASSUME RefInv, NEW t \in Users, Ref!Free(t)
  PROVE  RefInv'
<1> DEFINE q == todo[t]
<1>0. Lists /\ RefTypes /\ Counted /\ Doomed /\ Living /\ ~wrong /\ OnceEach(t)
  BY InvParts
<1>1. todo[t] # <<>> /\ Head(todo[t]) = todo[t][1] /\ 1 \in At(t) /\ q[1] \in Oper /\ q[1].op = "free"
  BY <1>0, FirstOp DEF Ref!Free
<1>2. PICK x \in Objects : x = q[1].obj
  BY <1>1, OperFields DEF Counting
<1>3. PICK d \in Slots : d = Ref!member(x)
  BY SlotSets
<1>4. /\ life' = [life EXCEPT ![x] = "freed"] /\ wrong' = (wrong \/ life[x] # "live")
      /\ m_ptr' = [m_ptr EXCEPT ![d] = NULL]
      /\ creator' = creator /\ mWeak' = mWeak /\ mCount' = mCount
  BY <1>1, <1>2, <1>3 DEF Ref!Free
<1>5. Pop(t)
  BY <1>1 DEF Ref!Free, Ref!Then, Pop
<1>6. Dooms(q[1]) /\ x \in Destroys(t)
  BY <1>1, <1>2 DEF Dooms, Destroys
<1>7. life[x] = "live" /\ mCount[x] = 0 /\ \A u \in Users \ {t} : ~Fresh(u, x) /\ x \notin Destroys(u)
  BY <1>0, <1>6 DEF Doomed, Fresh
<1>8. OnlyList(t) /\ RefTypes'
  BY <1>0, <1>2, <1>3, <1>4, <1>5, PopFacts DEF OnlyList, RefTypes, Pointers
<1>9. Given(q, 1) /\ Target(q[1]) = d
  BY <1>1, <1>2, <1>3 DEF Given, Writes, Target
<1>10. m_ptr'[d] = NULL /\ \A s \in Slots \ {d} : m_ptr'[s] = m_ptr[s]
  BY <1>0, <1>4 DEF RefTypes
<1>11. Creators /\ \A u \in Users \ {t} : Untouched(u)
  <2>1. Creators
    BY <1>4 DEF Creators
  <2>2. PICK W : W = {d}
    OBVIOUS
  <2>3. /\ \A s \in Slots \ W : m_ptr'[s] = m_ptr[s]
        /\ \A s \in W : s \in Sp(t) \/ \E k \in At(t) : Given(todo[t], k) /\ Target(todo[t][k]) = s
    BY <1>1, <1>9, <1>10, <2>2
  <2>4. \A u \in Users \ {t} : Untouched(u)
    BY <1>0, <2>3, WritesApart
  <2> QED
    BY <2>1, <2>4
<1>12. Own(t) \subseteq Own(t)' /\ \A y : Lends(t, y, m_ptr, creator) \subseteq Lends(t, y, m_ptr', creator')
  <2>1. \A s \in Sp(t) : m_ptr'[s] = m_ptr[s]
    BY <1>3, <1>10, SpKinds, SlotSets
  <2> QED
    BY <1>11, <2>1, OwnStays, LendsStays
<1>13. InOrder(t)' /\ Relies(t)' /\ Source(t)' /\ \A o : ~Begins(t, o)'
  BY <1>0, <1>1, <1>5, <1>12, PopInOrder, PopRelies DEF Source
<1>14. OnceEach(t)' /\ x \notin Destroys(t)' /\ \A o : o \in Destroys(t) <=> o \in Destroys(t)' \/ o = x
  BY <1>0, <1>2, <1>5, <1>6, PopDestroys
<1>15. Others(t, x) /\ Itself(t, x)'
  <2>1. \A o : ~Begins(t, o)
    BY <1>1 DEF Begins
  <2>2. life'[x] = "freed" /\ mCount'[x] = 0 /\ \A o \in Objects \ {x} : life'[o] = life[o] /\ mCount'[o] = mCount[o]
    BY <1>0, <1>4, <1>7 DEF RefTypes
  <2> QED
    BY <1>7, <1>13, <1>14, <2>1, <2>2 DEF Others, Itself
<1>16. Counted'
  <2>1. \A s : (GivenBy(t, s) <=> After(t, s) \/ d = s) /\ (GivenBy(t, s)' <=> After(t, s))
    BY <1>0, <1>1, <1>5, <1>9, GivesBefore, PopGives DEF Releases, Writes
  <2>2. ASSUME NEW s \in Slots PROVE Held(s)' = Held(s)
    <3>1. CASE s = d
      <4>1. Held(s) = NULL
        BY <2>1, <3>1, KeptIs DEF Held
      <4>2. Held(s)' = NULL
        BY <1>10, <3>1 DEF Held
      <4> QED
        BY <4>1, <4>2
    <3>2. CASE s # d
      BY <1>8, <1>10, <2>1, <3>2, HeldSame
    <3> QED
      BY <3>1, <3>2
  <2> DEFINE n == Len(q)
  <2>3. n # 1 /\ n \in Nat \ {0}
    BY <1>0, <1>1, <1>5, PopFacts DEF Lists, InOrder
  <2> HIDE DEF n
  <2>4. n > 1
    BY <2>3
  <2> USE DEF n
  <2>5. \A S : Coming(t, S)' = Coming(t, S)
    BY <1>0, <1>1, <1>5, <2>4, ComingIs, PopComing
  <2> QED
    BY <1>4, <1>8, <2>2, <2>5, CountedSame
<1>17. ~wrong'
  BY <1>0, <1>4, <1>7
<1> QED
  BY <1>8, <1>11, <1>13, <1>14, <1>15, <1>16, <1>17, StepKeeps

(* A thread that writes a slot writes one that is there.                   *)
LEMMA NotFreed ==
  ASSUME RefInv, NEW t \in Users, NEW k \in At(t), todo[t][k].op \in {"set", "take"}
  PROVE  ~Ref!Freed(todo[t][k].slot)
<1>0. Lists /\ RefTypes /\ Counted /\ Living
  BY InvParts
<1>1. todo[t][k].slot \in Own(t)
  BY <1>0 DEF Lists, Relies
<1>2. CASE todo[t][k].slot \in Sp(t)
  BY <1>2, SlotTags DEF Ref!Freed, Sp
<1>3. CASE todo[t][k].slot = Ref!wp(t)
  BY <1>3, SlotTags DEF Ref!Freed
<1>4. CASE \E o \in Objects : todo[t][k].slot = Ref!member(o)
  <2>1. PICK o \in Objects : todo[t][k].slot = Ref!member(o)
    BY <1>4
  <2>2. mCount[o] > 0
    BY <1>0, <2>1, OwnMember
  <2>3. life[o] = "live"
    BY <1>0, <2>2 DEF Living
  <2>4. Ref!member(o)[2] = o
    BY DEF Ref!member
  <2> QED
    BY <2>1, <2>3, <2>4 DEF Ref!Freed
<1> QED
  BY <1>1, <1>2, <1>3, <1>4, OwnSlots

(* The last write of a call: it is done.                                   *)
LEMMA SetLastKeeps ==
  ASSUME RefInv, NEW t \in Users, Ref!set_pointer(t), ~Moving(t)
  PROVE  RefInv'
<1> DEFINE q == todo[t]
<1>0. Lists /\ RefTypes /\ Counted /\ Doomed /\ Living /\ ~wrong /\ OnceEach(t)
  BY InvParts
<1>1. todo[t] # <<>> /\ Head(todo[t]) = todo[t][1] /\ 1 \in At(t) /\ q[1] \in Oper /\ q[1].op = "set"
  BY <1>0, FirstOp DEF Ref!set_pointer
<1>2. PICK d \in Slots, y \in Pointers : d = q[1].slot /\ y = q[1].obj
  BY <1>1, OperFields
<1>3. /\ m_ptr' = [m_ptr EXCEPT ![d] = y] /\ wrong' = (wrong \/ Ref!Freed(d))
      /\ life' = life /\ creator' = creator /\ mWeak' = mWeak /\ mCount' = mCount
  BY <1>1, <1>2 DEF Ref!set_pointer
<1>4. Pop(t)
  BY <1>1 DEF Ref!set_pointer, Ref!Then, Pop
<1>5. OnlyList(t) /\ RefTypes'
  BY <1>0, <1>2, <1>3, <1>4, PopFacts DEF OnlyList, RefTypes
<1>6. Len(q) = 1 /\ At(t) = {1} /\ todo'[t] = <<>>
  <2>1. Len(q) = 1 /\ At(t) = {1}
    BY <1>0, <1>1, LastAlone
  <2>2. Len(todo'[t]) = Len(q) - 1 /\ todo'[t] \in Seq(Oper)
    BY <1>0, <1>4, PopFacts DEF OnlyList
  <2> QED
    BY <2>1, <2>2, EmptyList
<1>7. /\ InOrder(t)' /\ Relies(t)' /\ Source(t)' /\ OnceEach(t)' /\ Destroys(t)' = {}
      /\ \A o : ~Begins(t, o)'
      /\ \A s : ~GivenBy(t, s)'
      /\ \A S : Coming(t, S)' = NULL
  BY <1>6, NothingLeft
<1>8. Given(q, 1) /\ Target(q[1]) = d
  BY <1>1, <1>2 DEF Given, Writes, Target
<1>9. m_ptr'[d] = y /\ \A s \in Slots \ {d} : m_ptr'[s] = m_ptr[s]
  BY <1>0, <1>3 DEF RefTypes
<1>10. Creators /\ \A u \in Users \ {t} : Untouched(u)
  <2>1. Creators
    BY <1>3 DEF Creators
  <2>2. PICK W : W = {d}
    OBVIOUS
  <2>3. /\ \A s \in Slots \ W : m_ptr'[s] = m_ptr[s]
        /\ \A s \in W : s \in Sp(t) \/ \E k \in At(t) : Given(todo[t], k) /\ Target(todo[t][k]) = s
    BY <1>1, <1>8, <1>9, <2>2
  <2>4. \A u \in Users \ {t} : Untouched(u)
    BY <1>0, <2>3, WritesApart
  <2> QED
    BY <2>1, <2>4
<1>11. (\A o : ~Begins(t, o)) /\ Destroys(t) = {}
  BY <1>1, <1>6 DEF Begins, Destroys, Dooms
<1>12. Others(t, NULL) /\ Itself(t, NULL)'
  BY <1>0, <1>3, <1>7, <1>11, NoOne, PointersAssumption DEF Others, Itself
<1>13. Counted'
  <2>1. \A s : GivenBy(t, s) <=> s = d
    BY <1>0, <1>1, <1>8, GivesLast DEF Writes
  <2>2. \A s \in Slots \ {d} : Held(s)' = Held(s)
    BY <1>5, <1>7, <1>9, <2>1, HeldSame
  <2>3. Held(d) = NULL
    BY <2>1, KeptIs DEF Held
  <2>4. Held(d)' = y
    <3>1. ASSUME NEW u \in Users \ {t}, GivenBy(u, d) PROVE FALSE
      <4>1. PICK k \in At(u) : Given(todo[u], k) /\ Target(todo[u][k]) = d
        BY <3>1 DEF GivenBy
      <4>2. q[1].op \in Writes /\ todo[u][k].op \in Writes
        BY <1>1, <4>1 DEF Given, Writes
      <4>3. t = u
        BY <1>0, <1>1, <1>8, <4>1, <4>2, OneWriter
      <4> QED
        BY <4>3
    <3>2. Kept(d)'
      BY <1>5, <1>7, <3>1, KeptStep
    <3> QED
      BY <1>9, <3>2 DEF Held
  <2>5. \A u \in Users \ {t} : \A S : Coming(u, S)' = Coming(u, S)
    BY <1>5, OthersGive
  <2>6. \A S : Coming(t, S) = IF d \in S THEN y ELSE NULL
    BY <1>1, <1>2, <1>6, ComingIs DEF Arrives, Last
  <2>7. ASSUME NEW S, S \in SUBSET Slots, NEW o \in Objects
        PROVE  Cardinality(Holders(o, S))' = Cardinality(Holders(o, S))
    <3>1. \A s \in S \ {d} : Held(s)' = Held(s)
      BY <2>2, <2>7
    <3>2. CASE d \in S
      BY <1>7, <2>3, <2>4, <2>5, <2>6, <2>7, <3>1, <3>2, TokenToSlot
    <3>3. CASE d \notin S
      <4>1. Same(S)
        BY <1>7, <2>5, <2>6, <3>1, <3>3 DEF Same
      <4> QED
        BY <4>1, SameHolders
    <3> QED
      BY <3>2, <3>3
  <2>8. ASSUME NEW o \in Objects
        PROVE  /\ Cardinality(Holders(o, Strong))' = Cardinality(Holders(o, Strong))
               /\ Cardinality(Holders(o, Weak))' = Cardinality(Holders(o, Weak))
    BY <2>7, SlotSets
  <2>9. \A o \in Objects : mCount'[o] - mCount[o] = 0 /\ mWeak'[o] - mWeak[o] = 0
    BY <1>0, <1>3 DEF RefTypes
  <2> QED
    BY <1>5, <2>8, <2>9, CountedAgain, IntCounts
<1>14. ~wrong'
  BY <1>0, <1>1, <1>2, <1>3, NotFreed
<1> QED
  BY <1>5, <1>7, <1>10, <1>12, <1>13, <1>14, StepKeeps

LEMMA OneWriteGives ==
  ASSUME NEW t \in Users, todo'[t] \in Seq(Oper), Len(todo'[t]) = 1, todo'[t][1].op = "set"
  PROVE  /\ \A s : GivenBy(t, s)' <=> s = todo'[t][1].slot
         /\ \A S : Coming(t, S)' = IF todo'[t][1].slot \in S THEN todo'[t][1].obj ELSE NULL
<1>1. At(t)' = {1} /\ todo'[t] # <<>> /\ ~(1 > 1)
  BY EmptyList DEF At
<1>2. \A s : GivenBy(t, s)' <=> s = todo'[t][1].slot
  BY <1>1 DEF GivenBy, Given, Target, Writes
<1>3. \A S : Coming(t, S)' = IF todo'[t][1].slot \in S THEN todo'[t][1].obj ELSE NULL
  BY <1>1 DEF Coming
<1> QED
  BY <1>2, <1>3

(* The first write of a move constructor.                                  *)
LEMMA SetMoveKeeps ==
  ASSUME RefInv, NEW t \in Users, Ref!set_pointer(t), Moving(t)
  PROVE  RefInv'
<1> DEFINE q == todo[t]
<1>0. Lists /\ RefTypes /\ Counted /\ Doomed /\ Living /\ ~wrong /\ OnceEach(t)
  BY InvParts
<1>1. todo[t] # <<>> /\ Head(todo[t]) = todo[t][1] /\ 1 \in At(t) /\ q[1] \in Oper /\ q[1].op = "set"
  BY <1>0, FirstOp DEF Ref!set_pointer
<1>2. PICK d \in Sp(t), a \in Sp(t), y \in Pointers :
        d = q[1].slot /\ a = q[2].slot /\ a # d /\ y = q[1].obj /\ y = m_ptr[a] /\ q[2].obj = NULL /\ q[2].op = "set"
  BY <1>1, OperFields DEF Moving
<1>3. /\ m_ptr' = [m_ptr EXCEPT ![d] = y] /\ wrong' = (wrong \/ Ref!Freed(d))
      /\ life' = life /\ creator' = creator /\ mWeak' = mWeak /\ mCount' = mCount
  BY <1>1, <1>2 DEF Ref!set_pointer
<1>4. Pop(t)
  BY <1>1 DEF Ref!set_pointer, Ref!Then, Pop
<1>5. OnlyList(t) /\ RefTypes'
  BY <1>0, <1>2, <1>3, <1>4, PopFacts DEF OnlyList, RefTypes
<1>6. d \in Strong /\ a \in Strong /\ d \in Slots /\ a \in Slots /\ Strong \in SUBSET Slots
  BY SlotSets
<1>7. /\ todo'[t] \in Seq(Oper) /\ Len(todo'[t]) = 1 /\ todo'[t][1].op = "set"
      /\ todo'[t][1].slot = a /\ todo'[t][1].obj = NULL
  <2>1. Len(todo'[t]) = 1 /\ 1 \in At(t)'
    <3>1. Len(todo'[t]) = Len(todo[t]) - 1 /\ At(t)' = 1 .. Len(todo[t]) - 1
      BY <1>0, <1>4, PopFacts
    <3>2. Len(todo[t]) = 2
      BY DEF Moving
    <3> QED
      BY <3>1, <3>2
  <2>2. todo'[t][1] = q[2]
    <3>1. todo'[t][1] = q[1 + 1] /\ 1 + 1 = 2
      BY <1>0, <1>4, <2>1, PopFacts
    <3> QED
      BY <3>1
  <2> QED
    BY <1>2, <1>5, <2>1, <2>2 DEF OnlyList
<1>8. Sp(t) \subseteq Own(t)'
  BY DEF Own, Sp
<1>9. InOrder(t)' /\ Relies(t)' /\ OnceEach(t)' /\ Destroys(t)' = {} /\ \A o : ~Begins(t, o)'
  BY <1>7, <1>8, OneWriteOrder
<1>10. m_ptr'[d] = y /\ \A s \in Slots \ {d} : m_ptr'[s] = m_ptr[s]
  BY <1>0, <1>3, <1>6 DEF RefTypes
<1>11. Creators /\ \A u \in Users \ {t} : Untouched(u)
  <2>1. Creators
    BY <1>3 DEF Creators
  <2>2. PICK W : W = {d}
    OBVIOUS
  <2>3. /\ \A s \in Slots \ W : m_ptr'[s] = m_ptr[s]
        /\ \A s \in W : s \in Sp(t) \/ \E k \in At(t) : Given(todo[t], k) /\ Target(todo[t][k]) = s
    BY <1>2, <1>10, <2>2
  <2>4. \A u \in Users \ {t} : Untouched(u)
    BY <1>0, <2>3, WritesApart
  <2> QED
    BY <2>1, <2>4
<1>12. (\A o : ~Begins(t, o)) /\ Destroys(t) = {}
  <2>1. At(t) = {1, 2}
    BY DEF Moving, At
  <2> QED
    BY <1>1, <1>2, <2>1 DEF Begins, Destroys, Dooms
<1>13. Others(t, NULL) /\ Itself(t, NULL)' /\ Source(t)'
  BY <1>0, <1>3, <1>9, <1>12, NoOne, PointersAssumption DEF Others, Itself, Source
<1>14. Counted'
  <2>1. \A s : (GivenBy(t, s) <=> s = d) /\ (GivenBy(t, s)' <=> s = a)
    BY <1>0, <1>2, <1>7, GivesMove, OneWriteGives
  <2>2. \A s \in Slots \ {a, d} : Held(s)' = Held(s)
    BY <1>5, <1>10, <2>1, HeldSame
  <2>3. ASSUME NEW u \in Users \ {t}, NEW s \in Sp(t), GivenBy(u, s) PROVE FALSE
    <3>1. PICK k \in At(u) : Given(todo[u], k) /\ Target(todo[u][k]) = s
      BY <2>3 DEF GivenBy
    <3>2. todo[u][k].op \in Writes /\ \A o : s # Ref!member(o)
      BY <3>1, SpKinds DEF Given
    <3>3. s \in Own(u)
      BY <1>0, <3>1, <3>2, WritesOwn
    <3> QED
      BY <2>3, <3>3, OwnApart, OwnSlots
  <2>4. Kept(a) /\ ~Kept(d) /\ ~Kept(a)' /\ Kept(d)'
    BY <1>2, <1>5, <2>1, <2>3, KeptIs, KeptStep
  <2>5. Held(a) = y /\ Held(d) = NULL /\ Held(a)' = NULL /\ Held(d)' = y
    BY <1>2, <1>10, <2>4 DEF Held
  <2>6. \A u \in Users : \A S : Coming(u, S)' = Coming(u, S)
    <3>1. \A S : Coming(t, S)' = NULL
      BY <1>7, OneWriteGives
    <3>2. Last(t).obj = NULL
      BY <1>2 DEF Last, Moving
    <3>3. \A S : Coming(t, S) = NULL
      BY <3>2, ComingIs DEF Arrives
    <3> QED
      BY <1>5, <3>1, <3>3, OthersGive
  <2>7. ASSUME NEW o \in Objects
        PROVE  Cardinality(Holders(o, Strong))' = Cardinality(Holders(o, Strong))
    <3>1. \A s \in Strong \ {a, d} : Held(s)' = Held(s)
      BY <1>6, <2>2
    <3> QED
      BY <1>2, <1>6, <2>5, <2>6, <3>1, SlotToSlot
  <2>8. ASSUME NEW o \in Objects PROVE Holders(o, Weak)' = Holders(o, Weak)
    <3>1. Same(Weak)
      BY <1>6, <2>2, <2>6 DEF Same, Weak
    <3> QED
      BY <3>1, SameHolders
  <2>9. \A o \in Objects : mCount'[o] - mCount[o] = 0 /\ mWeak'[o] - mWeak[o] = 0
    BY <1>0, <1>3 DEF RefTypes
  <2> QED
    BY <1>5, <2>7, <2>8, <2>9, CountedAgain, IntCounts
<1>15. ~wrong'
  BY <1>0, <1>1, <1>2, <1>3, NotFreed
<1> QED
  BY <1>5, <1>9, <1>11, <1>13, <1>14, <1>15, StepKeeps

LEMMA TakeKeeps ==
  ASSUME RefInv, NEW t \in Users, Ref!Take(t)
  PROVE  RefInv'
<1> DEFINE q == todo[t]
<1>0. Lists /\ RefTypes /\ Counted /\ Doomed /\ Living /\ ~wrong /\ OnceEach(t)
  BY InvParts
<1>1. todo[t] # <<>> /\ Head(todo[t]) = todo[t][1] /\ 1 \in At(t) /\ q[1] \in Oper /\ q[1].op = "take"
  BY <1>0, FirstOp DEF Ref!Take
<1>2. PICK d \in Strong : d = q[1].slot /\ q[1].from \in Lends(t, d, m_ptr, creator)
  BY <1>0, <1>1 DEF Lists, Relies
<1>16. PICK a \in Lends(t, d, m_ptr, creator) : a = q[1].from
  BY <1>2
<1>3. /\ m_ptr' = [[m_ptr EXCEPT ![d] = m_ptr[a]] EXCEPT ![a] = NULL]
      /\ wrong' = (wrong \/ Ref!Freed(d) \/ Ref!Freed(a))
      /\ life' = life /\ creator' = creator /\ mWeak' = mWeak /\ mCount' = mCount
  BY <1>1, <1>2, <1>16 DEF Ref!Take
<1>4. Pop(t) /\ ~Moving(t)
  BY <1>1 DEF Ref!Take, Ref!Then, Pop, Moving
<1>5. a \in Strong /\ d \in Slots /\ a \in Slots /\ Strong \in SUBSET Slots /\ m_ptr[a] \in Pointers /\ NULL \in Pointers
  BY <1>0, SlotSets, LendsSlots DEF RefTypes, Pointers
<1>6. OnlyList(t) /\ RefTypes'
  BY <1>0, <1>3, <1>4, <1>5, PopFacts DEF OnlyList, RefTypes
<1>7. Len(q) = 1 /\ At(t) = {1} /\ todo'[t] = <<>>
  <2>1. Len(q) = 1 /\ At(t) = {1}
    BY <1>0, <1>1, <1>4, LastAlone
  <2>2. Len(todo'[t]) = Len(q) - 1 /\ todo'[t] \in Seq(Oper)
    BY <1>0, <1>4, PopFacts DEF OnlyList
  <2> QED
    BY <2>1, <2>2, EmptyList
<1>8. /\ InOrder(t)' /\ Relies(t)' /\ Source(t)' /\ OnceEach(t)' /\ Destroys(t)' = {}
      /\ \A o : ~Begins(t, o)'
      /\ \A s : ~GivenBy(t, s)'
      /\ \A S : Coming(t, S)' = NULL
  BY <1>7, NothingLeft
<1>9. Given(q, 1) /\ Target(q[1]) = d
  BY <1>1, <1>2 DEF Given, Writes, Target
<1>17. /\ a # d => Kept(a)
       /\ a \in Sp(t) \/ \E o \in Objects : a = Ref!member(o) /\ mCount[o] > 0
  <2>1. \A k \in At(t) : todo[t][k].op \in {"set", "take"} => todo[t][k].slot = d
    BY <1>2, <1>7
  <2> QED
    BY <1>0, <2>1, LendsKept
<1>10. m_ptr'[a] = NULL /\ (a # d => m_ptr'[d] = m_ptr[a]) /\ \A s \in Slots \ {a, d} : m_ptr'[s] = m_ptr[s]
  BY <1>0, <1>3, <1>5 DEF RefTypes
<1>11. Creators /\ \A u \in Users \ {t} : Untouched(u)
  <2>1. Creators
    BY <1>3 DEF Creators
  <2>2. PICK W : W = {a, d}
    OBVIOUS
  <2>3. /\ \A s \in Slots \ W : m_ptr'[s] = m_ptr[s]
        /\ \A s \in W : \/ s \in Sp(t)
                        \/ \E k \in At(t) : Given(todo[t], k) /\ Target(todo[t][k]) = s
                        \/ s \in Own(t) /\ \E o \in Objects : s = Ref!member(o) /\ mCount[o] > 0
    BY <1>1, <1>2, <1>9, <1>10, <1>17, <2>2, LendsSlots
  <2>4. \A u \in Users \ {t} : Untouched(u)
    BY <1>0, <2>3, WritesApart
  <2> QED
    BY <2>1, <2>4
<1>12. (\A o : ~Begins(t, o)) /\ Destroys(t) = {}
  BY <1>1, <1>7 DEF Begins, Destroys, Dooms
<1>13. Others(t, NULL) /\ Itself(t, NULL)'
  BY <1>0, <1>3, <1>8, <1>12, NoOne, PointersAssumption DEF Others, Itself
<1>14. Counted'
  <2>1. \A s : GivenBy(t, s) <=> s = d
    BY <1>0, <1>1, <1>4, <1>9, GivesLast DEF Writes
  <2>2. \A s \in Slots \ {a, d} : Held(s)' = Held(s)
    BY <1>6, <1>8, <1>10, <2>1, HeldSame
  <2>3. Held(d) = NULL /\ Held(a)' = NULL
    BY <1>10, <2>1, KeptIs DEF Held
  <2>4. \A u \in Users : \A S : Coming(u, S)' = Coming(u, S)
    <3>1. \A S : Coming(t, S) = NULL
      BY <1>1, <1>7, ComingIs DEF Arrives, Last
    <3> QED
      BY <1>6, <1>8, <3>1, OthersGive
  <2>5. ASSUME NEW o \in Objects
        PROVE  Cardinality(Holders(o, Strong))' = Cardinality(Holders(o, Strong))
    <3>1. CASE a = d
      <4>1. Same(Strong)
        BY <1>5, <2>2, <2>3, <2>4, <3>1 DEF Same
      <4> QED
        BY <4>1, SameHolders
    <3>2. CASE a # d
      <4>1. Held(a) = m_ptr[a]
        BY <1>17, <3>2 DEF Held
      <4>2. Held(d)' = m_ptr[a]
        <5>1. ASSUME NEW u \in Users \ {t}, GivenBy(u, d) PROVE FALSE
          <6>1. PICK k \in At(u) : Given(todo[u], k) /\ Target(todo[u][k]) = d
            BY <5>1 DEF GivenBy
          <6>2. q[1].op \in Writes /\ todo[u][k].op \in Writes
            BY <1>1, <6>1 DEF Given, Writes
          <6>3. t = u
            BY <1>0, <1>1, <1>9, <6>1, <6>2, OneWriter
          <6> QED
            BY <6>3
        <5>2. Kept(d)'
          BY <1>6, <1>8, <5>1, KeptStep
        <5> QED
          BY <1>10, <3>2, <5>2 DEF Held
      <4>3. PICK y : y = m_ptr[a]
        OBVIOUS
      <4>4. \A s \in Strong \ {a, d} : Held(s)' = Held(s)
        BY <1>5, <2>2
      <4> QED
        BY <1>2, <1>5, <2>3, <2>4, <3>2, <4>1, <4>2, <4>3, <4>4, SlotToSlot
    <3> QED
      BY <3>1, <3>2
  <2>6. ASSUME NEW o \in Objects PROVE Holders(o, Weak)' = Holders(o, Weak)
    <3>1. Same(Weak)
      BY <1>2, <1>5, <2>2, <2>4 DEF Same, Weak
    <3> QED
      BY <3>1, SameHolders
  <2>7. \A o \in Objects : mCount'[o] - mCount[o] = 0 /\ mWeak'[o] - mWeak[o] = 0
    BY <1>0, <1>3 DEF RefTypes
  <2> QED
    BY <1>6, <2>5, <2>6, <2>7, CountedAgain, IntCounts
<1>15. ~wrong'
  <2>1. ~Ref!Freed(d)
    BY <1>1, <1>2, NotFreed
  <2>2. ~Ref!Freed(a)
    <3>1. CASE a \in Sp(t)
      BY <3>1, SlotTags DEF Ref!Freed, Sp
    <3>2. CASE \E o \in Objects : a = Ref!member(o) /\ mCount[o] > 0
      <4>1. PICK o \in Objects : a = Ref!member(o) /\ life[o] = "live"
        BY <1>0, <3>2 DEF Living
      <4> QED
        BY <4>1 DEF Ref!Freed, Ref!member
    <3> QED
      BY <1>17, <3>1, <3>2
  <2> QED
    BY <1>0, <1>3, <2>1, <2>2
<1> QED
  BY <1>6, <1>8, <1>11, <1>13, <1>14, <1>15, StepKeeps

LEMMA KeptIsCountedWeak ==
  ASSUME RefTypes, Counted, NEW o \in Objects, NEW s \in Weak, m_ptr[s] = o, Kept(s)
  PROVE  mWeak[o] > 0
<1>1. s \in Holders(o, Weak)
  BY DEF Holders, Held
<1>2. IsFiniteSet(Holders(o, Weak)) /\ Cardinality(Holders(o, Weak)) \in Nat
  BY SlotSets, HoldersFinite
<1>3. Cardinality(Holders(o, Weak)) # 0
  BY <1>1, <1>2, FS_EmptySet
<1> QED
  BY <1>2, <1>3 DEF Counted

LEMMA AttemptKeeps ==
  ASSUME RefInv, NEW t \in Users, Ref!attemptIncStrong(t)
  PROVE  RefInv'
<1> DEFINE q == todo[t]
<1>0. Lists /\ RefTypes /\ Counted /\ Doomed /\ Living /\ ~wrong /\ OnceEach(t)
  BY InvParts
<1>1. todo[t] # <<>> /\ Head(todo[t]) = todo[t][1] /\ 1 \in At(t) /\ q[1] \in Oper /\ q[1].op = "attemptIncStrong"
  BY <1>0, FirstOp DEF Ref!attemptIncStrong
<1>2. PICK d \in Sp(t), x \in Objects : d = q[1].slot /\ x = q[1].obj /\ m_ptr[d] = NULL /\ m_ptr[Ref!wp(t)] = x
  BY <1>0, <1>1, OperFields DEF Lists, Relies
<1>3. Len(q) = 1 /\ At(t) = {1} /\ ~Moving(t)
  BY <1>0, <1>1, LastAlone DEF Moving
<1>4. /\ wrong' = (wrong \/ mWeak[x] = 0)
      /\ life' = life /\ creator' = creator /\ mWeak' = mWeak /\ m_ptr' = m_ptr
  BY <1>1, <1>2 DEF Ref!attemptIncStrong
<1>5. \A s : ~GivenBy(t, s)
  BY <1>0, <1>1, <1>3, GivesLast DEF Writes
<1>6. mWeak[x] > 0
  <2>1. Ref!wp(t) \in Weak
    BY SlotSets
  <2>2. ASSUME NEW u \in Users, GivenBy(u, Ref!wp(t)) PROVE FALSE
    <3>1. u # t
      BY <1>5, <2>2
    <3>2. PICK k \in At(u) : Given(todo[u], k) /\ Target(todo[u][k]) = Ref!wp(t)
      BY <2>2 DEF GivenBy
    <3>3. todo[u][k].op \in Writes /\ \A o : Ref!wp(t) # Ref!member(o)
      BY <3>2, SlotKinds DEF Given
    <3>4. Ref!wp(t) \in Own(u)
      BY <1>0, <3>2, <3>3, WritesOwn
    <3> QED
      BY <3>1, <3>4, OwnApart, OwnSlots
  <2>3. Kept(Ref!wp(t))
    BY <2>2, KeptIs
  <2> QED
    BY <1>0, <1>2, <2>1, <2>3, KeptIsCountedWeak
<1>7. ~wrong'
  <2>1. mWeak[x] # 0
    BY <1>6, IntCounts
  <2> QED
    BY <1>0, <1>4, <2>1
<1>8. (\A o : ~Begins(t, o)) /\ Destroys(t) = {}
  BY <1>1, <1>3 DEF Begins, Destroys, Dooms
<1>9. Creators /\ \A u \in Users \ {t} : Untouched(u)
  BY <1>4 DEF Creators, Untouched
<1>10. \A S : Coming(t, S) = NULL
  BY <1>1, <1>3, ComingIs DEF Arrives, Last
<1>11. CASE mCount[x] > 0
  <2> DEFINE a == [op |-> "set", slot |-> d, obj |-> x]
  <2>1. a \in Oper /\ a.op = "set" /\ a.slot = d /\ a.obj = x
    BY <1>2, SlotSets DEF Oper, Pointers
  <2>2. mCount' = [mCount EXCEPT ![x] = @ + 1] /\ Replace(t, a)
    BY <1>1, <1>2, <1>11, <2>1 DEF Ref!attemptIncStrong, Ref!Then, Ref!Set, Replace
  <2> HIDE DEF a
  <2>3. OnlyList(t) /\ Len(todo'[t]) = 1 /\ todo'[t][1] = a /\ todo'[t] \in Seq(Oper)
    BY <1>0, <1>3, <2>2, ReplaceFacts DEF OnlyList
  <2>4. RefTypes'
    BY <1>0, <1>4, <2>2, <2>3 DEF OnlyList, RefTypes
  <2>5. Sp(t) \subseteq Own(t)'
    BY DEF Own, Sp
  <2>6. InOrder(t)' /\ Relies(t)' /\ OnceEach(t)' /\ Destroys(t)' = {} /\ \A o : ~Begins(t, o)'
    BY <2>1, <2>3, <2>5, OneWriteOrder
  <2>7. /\ \A s : GivenBy(t, s)' <=> s = d
        /\ \A S : Coming(t, S)' = IF d \in S THEN x ELSE NULL
    BY <2>1, <2>3, OneWriteGives
  <2>8. mCount'[x] = mCount[x] + 1 /\ mCount[x] \in Nat /\ \A o \in Objects \ {x} : mCount'[o] = mCount[o]
    BY <1>0, <2>2, IntCounts DEF RefTypes
  <2>9. life[x] = "live" /\ \A u \in Users : ~Fresh(u, x) /\ x \notin Destroys(u)
    <3>1. mCount[x] # 0
      BY <1>11, <2>8
    <3> QED
      BY <1>0, <1>11, <3>1 DEF Living, Doomed, Fresh
  <2>10. Others(t, x) /\ Itself(t, x)' /\ Source(t)'
    BY <1>4, <1>8, <2>6, <2>8, <2>9 DEF Others, Itself, Source
  <2>11. Counted'
    <3>1. \A s : Held(s)' = Held(s)
      <4> TAKE s
      <4>1. CASE s = d
        <5>1. Held(s) = NULL
          BY <1>2, <4>1 DEF Held
        <5>2. Held(s)' = NULL
          BY <1>2, <1>4, <4>1 DEF Held
        <5> QED
          BY <5>1, <5>2
      <4>2. CASE s # d
        BY <1>4, <1>5, <2>3, <2>7, <4>2, HeldSame
      <4> QED
        BY <4>1, <4>2
    <3>2. \A u \in Users \ {t} : \A S : Coming(u, S)' = Coming(u, S)
      BY <2>3, OthersGive
    <3>3. d \in Strong /\ d \notin Weak /\ Strong \in SUBSET Slots
      BY SlotSets
    <3>4. ASSUME NEW o \in Objects
          PROVE  Cardinality(Holders(o, Strong))' = Cardinality(Holders(o, Strong)) + (IF o = x THEN 1 ELSE 0)
      <4>1. Coming(t, Strong) = NULL /\ Coming(t, Strong)' = x
        BY <1>10, <2>7, <3>3
      <4> QED
        BY <3>1, <3>2, <3>3, <4>1, TokenAdded
    <3>5. ASSUME NEW o \in Objects PROVE Holders(o, Weak)' = Holders(o, Weak)
      <4>1. Same(Weak)
        BY <1>10, <2>7, <3>1, <3>2, <3>3 DEF Same
      <4> QED
        BY <4>1, SameHolders
    <3>6. ASSUME NEW o \in Objects
          PROVE  mCount'[o] - mCount[o] = (IF o = x THEN 1 ELSE 0) /\ mWeak'[o] - mWeak[o] = 0
      BY <1>0, <1>4, <2>8 DEF RefTypes
    <3> QED
      BY <2>4, <3>4, <3>5, <3>6, CountedAgain, IntCounts
  <2> QED
    BY <1>7, <1>9, <2>3, <2>4, <2>6, <2>10, <2>11, StepKeeps
<1>12. CASE ~(mCount[x] > 0)
  <2>1. mCount' = mCount /\ Pop(t)
    BY <1>1, <1>2, <1>12 DEF Ref!attemptIncStrong, Ref!Then, Pop
  <2>2. OnlyList(t) /\ todo'[t] = <<>>
    <3>1. OnlyList(t) /\ Len(todo'[t]) = Len(q) - 1 /\ todo'[t] \in Seq(Oper)
      BY <1>0, <2>1, PopFacts DEF OnlyList
    <3> QED
      BY <1>3, <3>1, EmptyList
  <2>3. RefTypes'
    BY <1>0, <1>4, <2>1, <2>2 DEF OnlyList, RefTypes
  <2>4. /\ InOrder(t)' /\ Relies(t)' /\ Source(t)' /\ OnceEach(t)' /\ Destroys(t)' = {}
        /\ \A o : ~Begins(t, o)'
        /\ \A s : ~GivenBy(t, s)'
        /\ \A S : Coming(t, S)' = NULL
    BY <2>2, NothingLeft
  <2>5. Others(t, NULL) /\ Itself(t, NULL)'
    BY <1>0, <1>4, <1>8, <2>1, <2>4, NoOne, PointersAssumption DEF Others, Itself
  <2>6. Counted'
    <3>1. \A s \in Slots : Held(s)' = Held(s)
      BY <1>4, <1>5, <2>2, <2>4, HeldSame
    <3> QED
      BY <1>4, <1>10, <2>1, <2>2, <2>3, <2>4, <3>1, CountedSame
  <2> QED
    BY <1>7, <1>9, <2>2, <2>3, <2>4, <2>5, <2>6, StepKeeps
<1> QED
  BY <1>11, <1>12

-----------------------------------------------------------------------------
(* The calls *)

(* A thread between its calls has given up nothing.                        *)
LEMMA IdleFacts ==
  ASSUME NEW t \in Users, todo[t] = <<>>
  PROVE  /\ At(t) = {} /\ Destroys(t) = {} /\ \A o : ~Begins(t, o)
         /\ \A s : ~GivenBy(t, s)
         /\ \A S : Coming(t, S) = NULL
  BY DEF At, Destroys, Begins, GivenBy, Coming

LEMMA IdleKept ==
  ASSUME RefInv, NEW t \in Users, todo[t] = <<>>, NEW s \in Own(t)
  PROVE  Kept(s)
<1>0. Lists /\ RefTypes /\ Counted /\ Doomed
  BY InvParts
<1>1. At(t) = {}
  BY IdleFacts
<1>2. ASSUME NEW r \in Sp(t) PROVE Kept(r)
  BY <1>0, <1>1, SpKept
<1> SUFFICES ASSUME NEW u \in Users, NEW k \in At(u), Given(todo[u], k), Target(todo[u][k]) = s
             PROVE  FALSE
  BY DEF Kept
<1>3. todo[u][k].op \in Writes /\ u # t
  BY <1>1 DEF Given
<1>4. CASE todo[u][k].op # "free"
  BY <1>0, <1>3, <1>4, WritesOwn, OwnApart
<1>5. CASE todo[u][k].op = "free"
  <2>1. s = Ref!member(todo[u][k].obj)
    BY <1>5 DEF Target
  <2>2. PICK o \in Objects, r \in Sp(t) : s = Ref!member(o) /\ m_ptr[r] = o
    <3>1. s \notin Sp(t)
      BY <2>1, SpKinds
    <3>2. s # Ref!wp(t)
      BY <2>1, SlotKinds
    <3> QED
      BY <3>1, <3>2, OwnSlots
  <2>3. o \in Destroys(u)
    BY <1>5, <2>1, <2>2, SlotKinds DEF Destroys, Dooms
  <2>4. mCount[o] > 0
    BY <1>0, <1>2, <2>2, SlotSets, KeptIsCounted
  <2>5. mCount[o] = 0
    BY <1>0, <2>3 DEF Doomed
  <2> QED
    BY <2>4, <2>5
<1> QED
  BY <1>4, <1>5

LEMMA MineIsOwn ==
  ASSUME NEW t \in Users, NEW s \in Ref!Mine(t)
  PROVE  s \in Own(t) /\ s \in Strong /\ s \in Slots
<1>1. Ref!Mine(t) = Sp(t) \cup {Ref!member(o) : o \in {p \in Objects : creator[p] = t /\ \E i \in Locals[t] : m_ptr[Ref!sp(t, i)] = p}}
  BY DEF Ref!Mine, Sp
<1>2. CASE s \in Sp(t)
  BY <1>2, OwnSlots, SlotSets
<1>3. CASE s \in {Ref!member(o) : o \in {p \in Objects : creator[p] = t /\ \E i \in Locals[t] : m_ptr[Ref!sp(t, i)] = p}}
  <2>1. PICK o \in Objects, i \in Locals[t] : s = Ref!member(o) /\ creator[o] = t /\ m_ptr[Ref!sp(t, i)] = o
    BY <1>3
  <2>2. Ref!sp(t, i) \in Sp(t)
    BY DEF Sp
  <2> QED
    BY <2>1, <2>2, SlotSets DEF Own
<1> QED
  BY <1>1, <1>2, <1>3

LEMMA MoveReferencesKeeps ==
  ASSUME RefInv, NEW t \in Users, NEW i \in Locals[t], NEW j \in Locals[t], Ref!move_references(t, i, j)
  PROVE  RefInv'
<1>0. Lists /\ RefTypes /\ Counted /\ Doomed /\ Living /\ ~wrong
  BY InvParts
<1>1. PICK a \in Sp(t), d \in Sp(t) : a = Ref!sp(t, i) /\ d = Ref!sp(t, j)
  BY DEF Sp
<1>2. PICK y : y = m_ptr[a]
  OBVIOUS
<1>3. /\ todo[t] = <<>> /\ y # NULL /\ m_ptr[d] = NULL
      /\ m_ptr' = [m_ptr EXCEPT ![d] = y, ![a] = NULL]
      /\ life' = life /\ creator' = creator /\ mWeak' = mWeak /\ mCount' = mCount /\ todo' = todo /\ wrong' = wrong
  BY <1>1, <1>2 DEF Ref!move_references
<1>4. a # d
  BY <1>2, <1>3
<1>5. a \in Strong /\ d \in Strong /\ d \in Slots /\ a \in Slots /\ Strong \in SUBSET Slots /\ y \in Pointers /\ NULL \in Pointers
  BY <1>0, <1>2, SlotSets DEF RefTypes, Pointers
<1>6. m_ptr'[a] = NULL /\ m_ptr'[d] = y /\ \A s \in Slots \ {a, d} : m_ptr'[s] = m_ptr[s]
  BY <1>0, <1>3, <1>4, <1>5 DEF RefTypes
<1>7. OnlyList(t) /\ RefTypes' /\ Creators
  BY <1>0, <1>3, <1>5 DEF OnlyList, RefTypes, Creators
<1>8. /\ InOrder(t)' /\ Relies(t)' /\ Source(t)' /\ OnceEach(t)' /\ Destroys(t)' = {}
      /\ \A o : ~Begins(t, o)'
      /\ \A s : ~GivenBy(t, s)'
      /\ \A S : Coming(t, S)' = NULL
  BY <1>3, NothingLeft
<1>9. \A u \in Users \ {t} : Untouched(u)
  <2>1. PICK W : W = {a, d}
    OBVIOUS
  <2>2. /\ \A s \in Slots \ W : m_ptr'[s] = m_ptr[s]
        /\ \A s \in W : s \in Sp(t) \/ \E k \in At(t) : Given(todo[t], k) /\ Target(todo[t][k]) = s
    BY <1>1, <1>6, <2>1
  <2> QED
    BY <1>0, <2>2, WritesApart
<1>10. Others(t, NULL) /\ Itself(t, NULL)'
  BY <1>0, <1>3, <1>8, NoOne, IdleFacts, PointersAssumption DEF Others, Itself
<1>11. Counted'
  <2>1. Kept(a) /\ Kept(d)
    BY <1>3, IdleKept, OwnSlots
  <2>2. \A s : Kept(s)' <=> Kept(s)
    BY <1>3, <1>7, <1>8, KeptStep, KeptIs, IdleFacts
  <2>3. Held(a) = y /\ Held(d) = NULL /\ Held(a)' = NULL /\ Held(d)' = y
    BY <1>2, <1>3, <1>6, <2>1, <2>2 DEF Held
  <2>4. \A s \in Slots \ {a, d} : Held(s)' = Held(s)
    BY <1>6, <2>2 DEF Held
  <2>5. \A u \in Users : \A S : Coming(u, S)' = Coming(u, S)
    BY <1>3, <1>7, <1>8, IdleFacts, OthersGive
  <2>6. ASSUME NEW o \in Objects
        PROVE  Cardinality(Holders(o, Strong))' = Cardinality(Holders(o, Strong))
    <3>1. \A s \in Strong \ {a, d} : Held(s)' = Held(s)
      BY <1>5, <2>4
    <3> QED
      BY <1>4, <1>5, <2>3, <2>5, <3>1, SlotToSlot
  <2>7. ASSUME NEW o \in Objects PROVE Holders(o, Weak)' = Holders(o, Weak)
    <3>1. Same(Weak)
      BY <1>5, <2>4, <2>5 DEF Same, Weak
    <3> QED
      BY <3>1, SameHolders
  <2>8. \A o \in Objects : mCount'[o] - mCount[o] = 0 /\ mWeak'[o] - mWeak[o] = 0
    BY <1>0, <1>3 DEF RefTypes
  <2> QED
    BY <1>7, <2>6, <2>7, <2>8, CountedAgain, IntCounts
<1> QED
  BY <1>0, <1>3, <1>7, <1>8, <1>9, <1>10, <1>11, StepKeeps

LEMMA GiveKeeps ==
  ASSUME RefInv, NEW t \in Users, NEW u \in Users, NEW i \in Locals[t], NEW j \in Locals[u], Ref!Give(t, i, u, j)
  PROVE  RefInv'
<1>0. Lists /\ RefTypes /\ Counted /\ Doomed /\ Living /\ ~wrong
  BY InvParts
<1>1. PICK a \in Sp(t), d \in Sp(u) : a = Ref!sp(t, i) /\ d = Ref!sp(u, j)
  BY DEF Sp
<1>2. a \in Strong /\ d \in Strong /\ d \in Slots /\ a \in Slots /\ Strong \in SUBSET Slots
  BY SlotSets
<1>3. PICK x \in Objects : x = m_ptr[a]
  <2>1. m_ptr[a] # NULL
    BY <1>1 DEF Ref!Give
  <2> QED
    BY <1>0, <1>2, <2>1 DEF RefTypes, Pointers
<1>4. /\ todo[t] = <<>> /\ todo[u] = <<>> /\ m_ptr[d] = NULL
      /\ mCount' = [mCount EXCEPT ![x] = @ + 1] /\ m_ptr' = [m_ptr EXCEPT ![d] = x]
      /\ life' = life /\ creator' = creator /\ mWeak' = mWeak /\ todo' = todo /\ wrong' = wrong
  BY <1>1, <1>3 DEF Ref!Give
<1>5. m_ptr'[d] = x /\ \A s \in Slots \ {d} : m_ptr'[s] = m_ptr[s]
  BY <1>0, <1>2, <1>4 DEF RefTypes
<1>6. mCount[x] > 0 /\ mCount[x] \in Nat /\ mCount'[x] = mCount[x] + 1 /\ \A o \in Objects \ {x} : mCount'[o] = mCount[o]
  <2>1. Kept(a)
    BY <1>4, IdleKept, OwnSlots
  <2> QED
    BY <1>0, <1>2, <1>3, <1>4, <2>1, KeptIsCounted, IntCounts DEF RefTypes
<1>7. life[x] = "live" /\ \A v \in Users : ~Fresh(v, x) /\ x \notin Destroys(v)
  <2>1. mCount[x] # 0
    BY <1>6
  <2> QED
    BY <1>0, <1>6, <2>1 DEF Living, Doomed, Fresh
<1>8. OnlyList(u) /\ RefTypes' /\ Creators
  BY <1>0, <1>2, <1>3, <1>4 DEF OnlyList, RefTypes, Creators, Pointers
<1>9. /\ InOrder(u)' /\ Relies(u)' /\ Source(u)' /\ OnceEach(u)' /\ Destroys(u)' = {}
      /\ \A o : ~Begins(u, o)'
      /\ \A s : ~GivenBy(u, s)'
      /\ \A S : Coming(u, S)' = NULL
  BY <1>4, NothingLeft
<1>10. \A v \in Users \ {u} : Untouched(v)
  <2>1. PICK W : W = {d}
    OBVIOUS
  <2>2. /\ \A s \in Slots \ W : m_ptr'[s] = m_ptr[s]
        /\ \A s \in W : s \in Sp(u) \/ \E k \in At(u) : Given(todo[u], k) /\ Target(todo[u][k]) = s
    BY <1>1, <1>5, <2>1
  <2> QED
    BY <1>0, <2>2, WritesApart
<1>11. Others(u, x) /\ Itself(u, x)'
  BY <1>4, <1>6, <1>7, <1>9, IdleFacts DEF Others, Itself
<1>12. Counted'
  <2>1. Kept(d)
    BY <1>4, IdleKept, OwnSlots
  <2>2. \A s : Kept(s)' <=> Kept(s)
    BY <1>4, <1>8, <1>9, KeptStep, KeptIs, IdleFacts
  <2>3. Held(d) = NULL /\ Held(d)' = x
    BY <1>4, <1>5, <2>1, <2>2 DEF Held
  <2>4. \A s \in Slots \ {d} : Held(s)' = Held(s)
    BY <1>5, <2>2 DEF Held
  <2>5. \A v \in Users : \A S : Coming(v, S)' = Coming(v, S)
    BY <1>4, <1>8, <1>9, IdleFacts, OthersGive
  <2>6. ASSUME NEW o \in Objects
        PROVE  Cardinality(Holders(o, Strong))' = Cardinality(Holders(o, Strong)) + (IF o = x THEN 1 ELSE 0)
    <3>1. \A s \in Strong \ {d} : Held(s)' = Held(s)
      BY <1>2, <2>4
    <3> QED
      BY <1>2, <2>3, <2>5, <3>1, SlotAdded
  <2>7. ASSUME NEW o \in Objects PROVE Holders(o, Weak)' = Holders(o, Weak)
    <3>1. Same(Weak)
      BY <1>2, <2>4, <2>5 DEF Same, Weak
    <3> QED
      BY <3>1, SameHolders
  <2>8. ASSUME NEW o \in Objects
        PROVE  mCount'[o] - mCount[o] = (IF o = x THEN 1 ELSE 0) /\ mWeak'[o] - mWeak[o] = 0
    BY <1>0, <1>4, <1>6 DEF RefTypes
  <2> QED
    BY <1>8, <2>6, <2>7, <2>8, CountedAgain, IntCounts
<1> QED
  BY <1>0, <1>4, <1>8, <1>9, <1>10, <1>11, <1>12, StepKeeps

(* A thread with a new list has given up only slots without a pointer, and *)
(* counted nothing for them.                                               *)
Ready(t) ==
  /\ InOrder(t) /\ Relies(t) /\ OnceEach(t) /\ Destroys(t) = {}
  /\ \A s : GivenBy(t, s) => m_ptr[s] = NULL
  /\ \A S : Coming(t, S) = NULL

(* What the lists of all calls have in common.                             *)
LEMMA WriteList ==
  ASSUME NEW t \in Users, todo'[t] \in Seq(Oper), Len(todo'[t]) = 1,
         todo'[t][1].op \in {"set", "take"}, todo'[t][1].slot \in Own(t)', m_ptr'[todo'[t][1].slot] = NULL,
         todo'[t][1].op = "set" => todo'[t][1].obj = NULL,
         todo'[t][1].op = "take" => todo'[t][1].slot \in Strong /\ todo'[t][1].from \in Lends(t, todo'[t][1].slot, m_ptr', creator')
  PROVE  Ready(t)' /\ \A o : ~Begins(t, o)'
<1>1. At(t)' = {1} /\ todo'[t] # <<>> /\ ~(1 > 1)
  BY EmptyList DEF At
<1>2. InOrder(t)'
  BY <1>1 DEF InOrder, Writes
<1>3. Relies(t)'
  BY <1>1 DEF Relies, Lends, Sp, Strong, Ref!Strong, Ref!Slots, Ref!sp, Ref!wp, Ref!member
<1>4. OnceEach(t)' /\ Destroys(t)' = {} /\ \A o : ~Begins(t, o)'
  BY <1>1 DEF OnceEach, Destroys, Dooms, Begins
<1>5. ASSUME NEW s, GivenBy(t, s)' PROVE m_ptr'[s] = NULL
  BY <1>1, <1>5 DEF GivenBy, Given, Target
<1>6. ASSUME NEW S PROVE Coming(t, S)' = NULL
  BY <1>1 DEF Coming
<1> QED
  BY <1>2, <1>3, <1>4, <1>5, <1>6 DEF Ready

LEMMA AttemptList ==
  ASSUME NEW t \in Users, todo'[t] \in Seq(Oper), Len(todo'[t]) = 1,
         todo'[t][1].op = "attemptIncStrong", todo'[t][1].slot \in Sp(t), m_ptr'[todo'[t][1].slot] = NULL,
         m_ptr'[Ref!wp(t)] = todo'[t][1].obj
  PROVE  Ready(t)' /\ \A o : ~Begins(t, o)'
<1>1. At(t)' = {1} /\ todo'[t] # <<>> /\ ~(1 > 1)
  BY EmptyList DEF At
<1>2. InOrder(t)'
  BY <1>1 DEF InOrder, Writes
<1>3. Relies(t)'
  BY <1>1 DEF Relies, Sp
<1>4. OnceEach(t)' /\ Destroys(t)' = {} /\ \A o : ~Begins(t, o)'
  BY <1>1 DEF OnceEach, Destroys, Dooms, Begins
<1>5. ASSUME NEW s PROVE ~GivenBy(t, s)'
  BY <1>1 DEF GivenBy, Given, Writes
<1>6. ASSUME NEW S PROVE Coming(t, S)' = NULL
  BY <1>1 DEF Coming
<1> QED
  BY <1>2, <1>3, <1>4, <1>5, <1>6 DEF Ready

LEMMA ReleaseList ==
  ASSUME NEW t \in Users, todo'[t] \in Seq(Oper), Len(todo'[t]) = 2,
         todo'[t][1].op \in {"decStrong", "decWeak"}, m_ptr'[todo'[t][2].slot] = todo'[t][1].obj,
         todo'[t][2].op \in {"set", "take"}, todo'[t][2].slot \in Own(t)',
         todo'[t][2].op = "set" => todo'[t][2].obj = NULL,
         todo'[t][2].op = "take" => todo'[t][2].slot \in Strong /\ todo'[t][2].from \in Lends(t, todo'[t][2].slot, m_ptr', creator'),
         todo'[t][1].op = "decStrong" => todo'[t][2].slot \in Strong,
         todo'[t][1].op = "decWeak" => todo'[t][2].op = "set" /\ todo'[t][2].slot = Ref!wp(t)
  PROVE  Ready(t)' /\ \A o : ~Begins(t, o)'
<1>1. At(t)' = {1, 2} /\ todo'[t] # <<>> /\ ~(1 > 1) /\ 2 > 1 /\ 2 - 1 = 1 /\ 1 + 1 = 2 /\ 1 < 2 /\ ~(2 < 2)
  BY EmptyList DEF At
<1>2. InOrder(t)'
  BY <1>1 DEF InOrder, Writes
<1>3. Target(todo'[t][2]) = todo'[t][2].slot
  BY DEF Target
<1>4. Relies(t)'
  BY <1>1, <1>3 DEF Relies, Target, Lends, Sp, Strong, Ref!Strong, Ref!Slots, Ref!sp, Ref!wp, Ref!member
<1>5. OnceEach(t)' /\ Destroys(t)' = {} /\ \A o : ~Begins(t, o)'
  BY <1>1 DEF OnceEach, Destroys, Dooms, Begins
<1>6. ASSUME NEW s PROVE ~GivenBy(t, s)'
  BY <1>1 DEF GivenBy, Given, Writes
<1>7. ASSUME NEW S PROVE Coming(t, S)' = NULL
  BY <1>1 DEF Coming
<1> QED
  BY <1>2, <1>4, <1>5, <1>6, <1>7 DEF Ready

LEMMA CountList ==
  ASSUME NEW t \in Users, todo'[t] \in Seq(Oper), Len(todo'[t]) = 2,
         todo'[t][1].op \in {"incStrong", "incWeak"}, m_ptr'[todo'[t][2].slot] = NULL,
         todo'[t][2].op = "set", todo'[t][2].slot \in Own(t)', todo'[t][2].obj = todo'[t][1].obj,
         todo'[t][1].op = "incStrong" => todo'[t][2].slot \in Strong,
         todo'[t][1].op = "incWeak" => todo'[t][2].slot = Ref!wp(t)
  PROVE  Ready(t)'
<1>1. At(t)' = {1, 2} /\ todo'[t] # <<>> /\ ~(1 > 1) /\ 2 > 1 /\ 2 - 1 = 1 /\ 1 + 1 = 2 /\ 1 < 2 /\ ~(2 < 2)
  BY EmptyList DEF At
<1>2. InOrder(t)'
  BY <1>1 DEF InOrder, Writes
<1>3. Relies(t)'
  BY <1>1 DEF Relies, Strong, Ref!Strong, Ref!Slots, Ref!sp, Ref!wp, Ref!member
<1>4. OnceEach(t)' /\ Destroys(t)' = {}
  BY <1>1 DEF OnceEach, Destroys, Dooms
<1>5. ASSUME NEW s, GivenBy(t, s)' PROVE m_ptr'[s] = NULL
  BY <1>1, <1>5 DEF GivenBy, Given, Writes, Target
<1>6. ASSUME NEW S PROVE Coming(t, S)' = NULL
  BY <1>1 DEF Coming
<1> QED
  BY <1>2, <1>3, <1>4, <1>5, <1>6 DEF Ready

LEMMA CountReleaseList ==
  ASSUME NEW t \in Users, todo'[t] \in Seq(Oper), Len(todo'[t]) = 3,
         \/ /\ todo'[t][1].op = "incStrong" /\ todo'[t][2].op = "decStrong" /\ todo'[t][3].slot \in Strong
         \/ /\ todo'[t][1].op = "incWeak" /\ todo'[t][2].op = "decWeak" /\ todo'[t][3].slot = Ref!wp(t),
         m_ptr'[todo'[t][3].slot] = todo'[t][2].obj,
         todo'[t][3].op = "set", todo'[t][3].slot \in Own(t)', todo'[t][3].obj = todo'[t][1].obj
  PROVE  Ready(t)'
<1>1. /\ At(t)' = {1, 2, 3} /\ todo'[t] # <<>> /\ ~(1 > 1) /\ 2 > 1 /\ 3 > 1 /\ 2 - 1 = 1 /\ 1 + 1 = 2
      /\ 3 - 1 = 2 /\ 2 + 1 = 3 /\ 1 < 3 /\ 2 < 3 /\ ~(3 < 3)
  BY EmptyList DEF At
<1>2. InOrder(t)'
  BY <1>1 DEF InOrder, Writes
<1>3. Target(todo'[t][3]) = todo'[t][3].slot
  BY DEF Target
<1>4. Relies(t)'
  BY <1>1, <1>3 DEF Relies, Target, Strong, Ref!Strong, Ref!Slots, Ref!sp, Ref!wp, Ref!member
<1>5. OnceEach(t)' /\ Destroys(t)' = {}
  BY <1>1 DEF OnceEach, Destroys, Dooms
<1>6. ASSUME NEW s PROVE ~GivenBy(t, s)'
  BY <1>1 DEF GivenBy, Given, Writes
<1>7. ASSUME NEW S PROVE Coming(t, S)' = NULL
  BY <1>1 DEF Coming
<1> QED
  BY <1>2, <1>4, <1>5, <1>6, <1>7 DEF Ready

LEMMA MoveList ==
  ASSUME NEW t \in Users, todo'[t] \in Seq(Oper), Len(todo'[t]) = 2,
         todo'[t][1].op = "set", todo'[t][2].op = "set",
         todo'[t][1].slot \in Sp(t), todo'[t][2].slot \in Sp(t), todo'[t][1].slot # todo'[t][2].slot,
         todo'[t][1].obj = m_ptr'[todo'[t][2].slot], todo'[t][2].obj = NULL, m_ptr'[todo'[t][1].slot] = NULL
  PROVE  Ready(t)' /\ \A o : ~Begins(t, o)'
<1>1. At(t)' = {1, 2} /\ todo'[t] # <<>> /\ ~(1 > 1) /\ 2 > 1 /\ 2 - 1 = 1 /\ 1 < 2 /\ ~(2 < 2)
  BY EmptyList DEF At
<1>2. Moving(t)'
  BY DEF Moving, Sp
<1>3. InOrder(t)'
  BY <1>1, <1>2 DEF InOrder, Writes
<1>4. Sp(t) \subseteq Own(t)'
  BY DEF Own, Sp
<1>5. Relies(t)'
  BY <1>1, <1>4 DEF Relies
<1>6. OnceEach(t)' /\ Destroys(t)' = {} /\ \A o : ~Begins(t, o)'
  BY <1>1 DEF OnceEach, Destroys, Dooms, Begins
<1>7. ASSUME NEW s, GivenBy(t, s)' PROVE m_ptr'[s] = NULL
  BY <1>1, <1>7 DEF GivenBy, Given, Writes, Target
<1>8. ASSUME NEW S PROVE Coming(t, S)' = NULL
  BY <1>1 DEF Coming
<1> QED
  BY <1>3, <1>5, <1>6, <1>7, <1>8 DEF Ready

(* The thread begins a call.                                               *)
LEMMA CallKeeps ==
  ASSUME RefInv, NEW t \in Users, NEW x, todo[t] = <<>>, OnlyList(t), RefTypes', Creators,
         m_ptr' = m_ptr, mCount' = mCount, mWeak' = mWeak, wrong' = wrong,
         Ready(t)', Source(t)', \A o : Begins(t, o)' => o = x,
         \A o \in Objects \ {x} : life'[o] = life[o],
         \A u \in Users \ {t} : ~Fresh(u, x) /\ x \notin Destroys(u),
         x \in Objects => life'[x] = "live" /\ (mCount[x] = 0 => Begins(t, x)')
  PROVE  RefInv'
<1>0. RefTypes /\ ~wrong
  BY InvParts
<1>1. /\ InOrder(t)' /\ Relies(t)' /\ OnceEach(t)' /\ Destroys(t)' = {}
      /\ \A s : GivenBy(t, s)' => m_ptr'[s] = NULL
      /\ \A S : Coming(t, S)' = NULL
  BY DEF Ready
<1>2. \A u \in Users \ {t} : Untouched(u)
  BY DEF Untouched
<1>3. Others(t, x) /\ Itself(t, x)'
  BY <1>1, IdleFacts DEF Others, Itself
<1>4. \A s \in Slots : Held(s)' = Held(s)
  <2> TAKE s \in Slots
  <2>1. CASE GivenBy(t, s)'
    <3>1. m_ptr[s] = NULL
      BY <1>1, <2>1
    <3> QED
      BY <3>1 DEF Held
  <2>2. CASE ~GivenBy(t, s)'
    BY <2>2, IdleFacts, HeldSame
  <2> QED
    BY <2>1, <2>2
<1>5. \A S : Coming(t, S)' = Coming(t, S)
  BY <1>1, IdleFacts
<1>6. Counted'
  BY <1>4, <1>5, CountedSame
<1> QED
  BY <1>0, <1>1, <1>2, <1>3, <1>6, StepKeeps

(* The lists of the copies: count, release, write.                         *)
LEMMA OpList ==
  ASSUME NEW f \in Counting, NEW o \in Pointers, NEW a, a = Ref!Op(f, o)
  PROVE  /\ a \in Seq(Oper)
         /\ o = NULL => Len(a) = 0
         /\ o # NULL => Len(a) = 1 /\ a[1].op = f /\ a[1].obj = o
<1>1. CASE o = NULL
  BY <1>1 DEF Ref!Op
<1>2. CASE o # NULL
  <2> DEFINE c == [op |-> f, obj |-> o]
  <2>1. c \in Oper /\ c.op = f /\ c.obj = o
    BY <1>2 DEF Oper, Pointers
  <2>2. a = <<c>>
    BY <1>2 DEF Ref!Op
  <2> HIDE DEF c, Oper
  <2> QED
    BY <1>2, <2>1, <2>2
<1> QED
  BY <1>1, <1>2

LEMMA Joined ==
  ASSUME NEW a \in Seq(Oper), NEW b \in Seq(Oper), NEW r, r = a \o b
  PROVE  /\ r \in Seq(Oper) /\ Len(r) = Len(a) + Len(b) /\ Len(a) \in Nat /\ Len(b) \in Nat
         /\ \A k \in 1 .. Len(a) + Len(b) : r[k] = IF k <= Len(a) THEN a[k] ELSE b[k - Len(a)]
  BY ConcatProperties, LenProperties, Zenon

CopyList(r, f, g, o, p, w) ==
  /\ r \in Seq(Oper)
  /\ o = NULL /\ p = NULL => Len(r) = 1 /\ r[1] = w
  /\ o = NULL /\ p # NULL => Len(r) = 2 /\ r[1].op = g /\ r[1].obj = p /\ r[2] = w
  /\ o # NULL /\ p = NULL => Len(r) = 2 /\ r[1].op = f /\ r[1].obj = o /\ r[2] = w
  /\ o # NULL /\ p # NULL => /\ Len(r) = 3 /\ r[1].op = f /\ r[1].obj = o
                             /\ r[2].op = g /\ r[2].obj = p /\ r[3] = w

LEMMA ListCases ==
  ASSUME NEW f \in Counting, NEW g \in Counting, NEW o \in Pointers, NEW p \in Pointers, NEW w \in Oper,
         NEW r, r = (Ref!Op(f, o) \o Ref!Op(g, p)) \o <<w>>
  PROVE  CopyList(r, f, g, o, p, w)
<1> USE DEF CopyList
<1> DEFINE a == Ref!Op(f, o)
           b == Ref!Op(g, p)
           c == <<w>>
           d == a \o b
<1>1. /\ a \in Seq(Oper)
      /\ o = NULL => Len(a) = 0
      /\ o # NULL => Len(a) = 1 /\ a[1].op = f /\ a[1].obj = o
  BY OpList
<1>2. /\ b \in Seq(Oper)
      /\ p = NULL => Len(b) = 0
      /\ p # NULL => Len(b) = 1 /\ b[1].op = g /\ b[1].obj = p
  BY OpList
<1>3. c \in Seq(Oper) /\ Len(c) = 1 /\ c[1] = w
  OBVIOUS
<1>4. r = d \o c /\ d = a \o b
  OBVIOUS
<1> HIDE DEF a, b, c, d, Oper
<1>5. /\ d \in Seq(Oper) /\ Len(d) = Len(a) + Len(b) /\ Len(a) \in Nat /\ Len(b) \in Nat
      /\ \A k \in 1 .. Len(a) + Len(b) : d[k] = IF k <= Len(a) THEN a[k] ELSE b[k - Len(a)]
  BY <1>1, <1>2, <1>4, Joined
<1>6. /\ r \in Seq(Oper) /\ Len(r) = Len(d) + Len(c)
      /\ \A k \in 1 .. Len(d) + Len(c) : r[k] = IF k <= Len(d) THEN d[k] ELSE c[k - Len(d)]
  <2>1. d \in Seq(Oper) /\ c \in Seq(Oper) /\ r = d \o c
    BY <1>3, <1>4, <1>5
  <2> QED
    BY <2>1, Joined, Zenon
<1>7. CASE o = NULL /\ p = NULL
  <2>1. Len(d) = 0
    BY <1>1, <1>2, <1>5, <1>7
  <2> QED
    BY <1>3, <1>6, <1>7, <2>1
<1>8. CASE o = NULL /\ p # NULL
  <2>1. Len(a) = 0 /\ Len(d) = 1
    BY <1>1, <1>2, <1>5, <1>8
  <2>2. d[1] = b[1]
    BY <1>2, <1>5, <1>8, <2>1
  <2>3. Len(r) = 2 /\ r[1] = d[1] /\ r[2] = c[1]
    BY <1>3, <1>6, <2>1
  <2> QED
    BY <1>2, <1>3, <1>6, <1>8, <2>2, <2>3
<1>9. CASE o # NULL /\ p = NULL
  <2>1. Len(a) = 1 /\ Len(d) = 1
    BY <1>1, <1>2, <1>5, <1>9
  <2>2. d[1] = a[1]
    BY <1>2, <1>5, <1>9, <2>1
  <2>3. Len(r) = 2 /\ r[1] = d[1] /\ r[2] = c[1]
    BY <1>3, <1>6, <2>1
  <2> QED
    BY <1>1, <1>3, <1>6, <1>9, <2>2, <2>3
<1>10. CASE o # NULL /\ p # NULL
  <2>0. Len(a) = 1 /\ Len(b) = 1
    BY <1>1, <1>2, <1>10
  <2>1. Len(a) = 1 /\ Len(b) = 1 /\ Len(d) = 2
    BY <1>5, <2>0
  <2>2. d[1] = a[1] /\ d[2] = b[1]
    BY <1>5, <2>1
  <2>3. Len(r) = 3 /\ r[1] = d[1] /\ r[2] = d[2] /\ r[3] = c[1]
    BY <1>3, <1>6, <2>1
  <2> QED
    BY <1>1, <1>2, <1>3, <1>6, <1>10, <2>2, <2>3
<1> QED
  BY <1>7, <1>8, <1>9, <1>10

(* What a thread holds is alive and nobody else's business.                *)
LEMMA IdleHolds ==
  ASSUME RefInv, NEW t \in Users, todo[t] = <<>>, NEW s \in Own(t) \cap Strong, NEW x \in Objects, m_ptr[s] = x
  PROVE  mCount[x] > 0 /\ life[x] = "live" /\ \A u \in Users : ~Fresh(u, x) /\ x \notin Destroys(u)
<1>0. RefTypes /\ Counted /\ Doomed /\ Living
  BY InvParts
<1>1. mCount[x] > 0
  BY <1>0, IdleKept, KeptIsCounted
<1>2. mCount[x] # 0
  BY <1>1, IntCounts
<1> QED
  BY <1>0, <1>1, <1>2 DEF Living, Doomed, Fresh

(* A call leaves everything but its list as it was.                        *)
Enter(t) ==
  /\ life' = life /\ creator' = creator /\ mCount' = mCount /\ mWeak' = mWeak
  /\ m_ptr' = m_ptr /\ wrong' = wrong /\ OnlyList(t)

LEMMA EnterFacts ==
  ASSUME RefInv, NEW t \in Users, Enter(t)
  PROVE  RefTypes' /\ Creators /\ Own(t)' = Own(t)
  BY InvParts DEF Enter, RefTypes, Creators, Own, Sp, OnlyList

LEMMA EnterKeeps ==
  ASSUME RefInv, NEW t \in Users, todo[t] = <<>>, Enter(t), Ready(t)', \A o : ~Begins(t, o)'
  PROVE  RefInv'
<1>1. RefTypes /\ RefTypes' /\ Creators
  BY InvParts, EnterFacts
<1>2. Source(t)'
  BY DEF Source
<1>3. \A u \in Users : ~Fresh(u, NULL) /\ NULL \notin Destroys(u)
  BY <1>1, NoOne
<1>4. NULL \notin Objects
  BY PointersAssumption
<1> QED
  BY <1>1, <1>2, <1>3, <1>4, CallKeeps DEF Enter

LEMMA EnterCounts ==
  ASSUME RefInv, NEW t \in Users, todo[t] = <<>>, Enter(t), Ready(t)',
         NEW x \in Objects, NEW s \in Own(t) \cap Strong, m_ptr[s] = x, \A o : Begins(t, o)' => o = x
  PROVE  RefInv'
<1>1. RefTypes' /\ Creators /\ Own(t)' = Own(t)
  BY EnterFacts
<1>2. mCount[x] > 0 /\ life[x] = "live" /\ \A u \in Users : ~Fresh(u, x) /\ x \notin Destroys(u)
  BY IdleHolds
<1>3. Source(t)'
  <2> SUFFICES ASSUME NEW o \in Objects, Begins(t, o)'
               PROVE  \E r \in Own(t)' \cap Strong : m_ptr'[r] = o
    BY DEF Source, Strong, Ref!Strong, Ref!Slots, Ref!sp, Ref!wp, Ref!member
  <2> QED
    BY <1>1 DEF Enter
<1>4. mCount[x] # 0
  BY <1>2, IntCounts
<1> QED
  BY <1>1, <1>2, <1>3, <1>4, CallKeeps DEF Enter

LEMMA SetOper ==
  ASSUME NEW d \in Slots, NEW o \in Pointers
  PROVE  \E w \in Oper : Ref!Set(d, o) = <<w>> /\ w.op = "set" /\ w.slot = d /\ w.obj = o
<1> DEFINE w == [op |-> "set", slot |-> d, obj |-> o]
<1>1. w \in Oper /\ w.op = "set" /\ w.slot = d /\ w.obj = o
  BY DEF Oper
<1>2. Ref!Set(d, o) = <<w>>
  BY DEF Ref!Set
<1> HIDE DEF w
<1> QED
  BY <1>1, <1>2

(* A copy counts the new object, releases the old one and writes.          *)
LEMMA CopyKeeps ==
  ASSUME RefInv, NEW t \in Users, todo[t] = <<>>, Enter(t), NEW f, NEW g, NEW d \in Own(t), NEW o \in Pointers,
         \/ f = "incStrong" /\ g = "decStrong" /\ d \in Strong
         \/ f = "incWeak" /\ g = "decWeak" /\ d = Ref!wp(t),
         o # NULL => \E s \in Own(t) \cap Strong : m_ptr[s] = o,
         todo'[t] = (Ref!Op(f, o) \o Ref!Op(g, m_ptr[d])) \o Ref!Set(d, o)
  PROVE  RefInv'
<1>0. RefTypes
  BY InvParts
<1>1. d \in Slots /\ m_ptr[d] \in Pointers /\ f \in Counting /\ g \in Counting
  BY <1>0, OwnSlots DEF RefTypes, Counting
<1>2. Own(t)' = Own(t) /\ m_ptr' = m_ptr
  BY EnterFacts DEF Enter
<1>3. PICK p \in Pointers : p = m_ptr[d]
  BY <1>1
<1>4. PICK w \in Oper : Ref!Set(d, o) = <<w>> /\ w.op = "set" /\ w.slot = d /\ w.obj = o
  BY <1>1, SetOper
<1>5. todo'[t] = (Ref!Op(f, o) \o Ref!Op(g, p)) \o <<w>>
  BY <1>3, <1>4
<1>6. PICK r : r = todo'[t]
  OBVIOUS
<1>7. CopyList(r, f, g, o, p, w)
  <2>1. f \in Counting /\ g \in Counting /\ r = (Ref!Op(f, o) \o Ref!Op(g, p)) \o <<w>>
    BY <1>1, <1>5, <1>6
  <2> QED
    BY <2>1, ListCases, Zenon
<1> USE DEF CopyList
<1>8. d \in Own(t)' /\ m_ptr'[d] = p
  BY <1>2, <1>3
<1>9. CASE o = NULL
  <2>1. CASE p = NULL
    <3>1. Ready(t)' /\ \A x : ~Begins(t, x)'
      BY <1>4, <1>6, <1>7, <1>8, <1>9, <2>1, WriteList
    <3> QED
      BY <3>1, EnterKeeps
  <2>2. CASE p # NULL
    <3>1. Ready(t)' /\ \A x : ~Begins(t, x)'
      BY <1>4, <1>6, <1>7, <1>8, <1>9, <2>2, ReleaseList
    <3> QED
      BY <3>1, EnterKeeps
  <2> QED
    BY <2>1, <2>2
<1>10. CASE o # NULL
  <2>1. Ready(t)'
    <3>1. CASE p = NULL
      BY <1>4, <1>6, <1>7, <1>8, <1>10, <3>1, CountList
    <3>2. CASE p # NULL
      BY <1>4, <1>6, <1>7, <1>8, <1>10, <3>2, CountReleaseList
    <3> QED
      BY <3>1, <3>2
  <2>2. todo'[t][1].op = f /\ todo'[t][1].obj = o
    BY <1>6, <1>7, <1>10
  <2>3. \A x : Begins(t, x)' => f = "incStrong" /\ x = o
    BY <2>2 DEF Begins
  <2>4. o \in Objects
    BY <1>10 DEF Pointers
  <2>5. PICK s \in Own(t) \cap Strong : m_ptr[s] = o
    BY <1>10
  <2> QED
    BY <2>1, <2>3, <2>4, <2>5, EnterCounts
<1> QED
  BY <1>9, <1>10

(* The calls.                                                              *)
LEMMA CallEnters ==
  ASSUME RefTypes, NEW t \in Users, NEW ops \in Seq(Oper), Ref!Call(t, ops)
  PROVE  Enter(t) /\ todo'[t] = ops
<1> HIDE DEF Oper
<1> QED
  BY DEF Ref!Call, RefTypes, Enter, OnlyList

LEMMA CopyCall ==
  ASSUME RefInv, NEW t \in Users, todo[t] = <<>>, NEW f, NEW g, NEW d \in Own(t), NEW o \in Pointers,
         \/ f = "incStrong" /\ g = "decStrong" /\ d \in Strong
         \/ f = "incWeak" /\ g = "decWeak" /\ d = Ref!wp(t),
         o # NULL => \E s \in Own(t) \cap Strong : m_ptr[s] = o,
         NEW ops, ops = (Ref!Op(f, o) \o Ref!Op(g, m_ptr[d])) \o Ref!Set(d, o), Ref!Call(t, ops)
  PROVE  RefInv'
<1>0. RefTypes
  BY InvParts
<1>1. d \in Slots /\ m_ptr[d] \in Pointers /\ f \in Counting /\ g \in Counting
  BY <1>0, OwnSlots DEF RefTypes, Counting
<1>2. PICK p \in Pointers : p = m_ptr[d]
  BY <1>1
<1>3. PICK w \in Oper : Ref!Set(d, o) = <<w>>
  BY <1>1, SetOper
<1>4. ops = (Ref!Op(f, o) \o Ref!Op(g, p)) \o <<w>>
  BY <1>2, <1>3
<1>5. CopyList(ops, f, g, o, p, w)
  BY <1>1, <1>4, ListCases, Zenon
<1>6. ops \in Seq(Oper)
  BY <1>5 DEF CopyList
<1>7. Enter(t) /\ todo'[t] = ops
  BY <1>0, <1>6, CallEnters
<1>8. todo'[t] = (Ref!Op(f, o) \o Ref!Op(g, m_ptr[d])) \o Ref!Set(d, o)
  BY <1>7
<1> QED
  BY <1>7, <1>8, CopyKeeps

LEMMA NoOp ==
  ASSUME NEW f \in Counting, NEW g, NEW o \in Pointers
  PROVE  Ref!Op(f, o) \o Ref!Op(g, NULL) = Ref!Op(f, o) /\ Ref!Op(g, NULL) \o Ref!Op(f, o) = Ref!Op(f, o)
<1> DEFINE a == Ref!Op(f, o)
<1>1. a \in Seq(Oper)
  BY OpList
<1>2. Ref!Op(g, NULL) = <<>>
  BY DEF Ref!Op
<1> HIDE DEF a
<1>3. a \o <<>> = a /\ <<>> \o a = a
  BY <1>1, ConcatEmptySeq
<1> QED
  BY <1>2, <1>3 DEF a

LEMMA NullOp ==
  NULL \in Pointers /\ {"incStrong", "decStrong", "incWeak", "decWeak"} \subseteq Counting
  BY DEF Pointers, Counting

(* sp<T>::operator = of a pointer.                                         *)
LEMMA SpAssignKeeps ==
  ASSUME RefInv, NEW t \in Users, todo[t] = <<>>, NEW d \in Ref!Mine(t), NEW s \in Ref!Mine(t),
         Ref!Call(t, Ref!sp_assign(d, m_ptr[s]))
  PROVE  RefInv'
<1>1. d \in Own(t) /\ d \in Strong /\ s \in Own(t) \cap Strong /\ m_ptr[s] \in Pointers
  BY MineIsOwn, InvParts DEF RefTypes
<1>2. PICK o \in Pointers : o = m_ptr[s]
  BY <1>1
<1>3. PICK ops : ops = (Ref!Op("incStrong", o) \o Ref!Op("decStrong", m_ptr[d])) \o Ref!Set(d, o)
  OBVIOUS
<1>4. Ref!Call(t, ops)
  BY <1>2, <1>3 DEF Ref!sp_assign
<1> QED
  BY <1>1, <1>2, <1>3, <1>4, CopyCall

(* The destructor and clear: a copy of nothing.                            *)
LEMMA SpReleaseKeeps ==
  ASSUME RefInv, NEW t \in Users, todo[t] = <<>>, NEW d \in Ref!Mine(t),
         Ref!Call(t, Ref!Op("decStrong", m_ptr[d]) \o Ref!Set(d, NULL))
  PROVE  RefInv'
<1>1. d \in Own(t) /\ d \in Strong /\ m_ptr[d] \in Pointers
  BY MineIsOwn, InvParts DEF RefTypes
<1>2. PICK ops : ops = (Ref!Op("incStrong", NULL) \o Ref!Op("decStrong", m_ptr[d])) \o Ref!Set(d, NULL)
  OBVIOUS
<1>3. ops = Ref!Op("decStrong", m_ptr[d]) \o Ref!Set(d, NULL)
  BY <1>1, <1>2, NoOp, NullOp
<1>4. Ref!Call(t, ops)
  BY <1>3
<1> QED
  BY <1>1, <1>2, <1>4, CopyCall, NullOp

LEMMA WpReleaseKeeps ==
  ASSUME RefInv, NEW t \in Users, todo[t] = <<>>,
         Ref!Call(t, Ref!Op("decWeak", m_ptr[Ref!wp(t)]) \o Ref!Set(Ref!wp(t), NULL))
  PROVE  RefInv'
<1> DEFINE d == Ref!wp(t)
<1>1. d \in Own(t) /\ m_ptr[d] \in Pointers
  BY OwnSlots, InvParts DEF RefTypes
<1>2. PICK ops : ops = (Ref!Op("incWeak", NULL) \o Ref!Op("decWeak", m_ptr[d])) \o Ref!Set(d, NULL)
  OBVIOUS
<1>3. ops = Ref!Op("decWeak", m_ptr[d]) \o Ref!Set(d, NULL)
  BY <1>1, <1>2, NoOp, NullOp
<1>4. Ref!Call(t, ops)
  BY <1>3
<1> HIDE DEF d
<1>5. d = Ref!wp(t)
  BY DEF d
<1> QED
  BY <1>1, <1>2, <1>4, <1>5, CopyCall, NullOp

(* A weak pointer of a strong one.                                         *)
LEMMA WpCopyKeeps ==
  ASSUME RefInv, NEW t \in Users, todo[t] = <<>>, NEW i \in Locals[t],
         IF m_ptr[Ref!wp(t)] = NULL THEN Ref!Call(t, Ref!wp_ctor(Ref!wp(t), m_ptr[Ref!sp(t, i)]))
         ELSE Ref!Call(t, Ref!wp_assign(Ref!wp(t), m_ptr[Ref!sp(t, i)]))
  PROVE  RefInv'
<1> DEFINE d == Ref!wp(t)
           s == Ref!sp(t, i)
<1>0. s \in Sp(t)
  BY DEF Sp
<1>1. d \in Own(t) /\ m_ptr[d] \in Pointers /\ s \in Own(t) \cap Strong /\ m_ptr[s] \in Pointers
  BY <1>0, OwnSlots, SlotSets, InvParts DEF RefTypes
<1>2. PICK o \in Pointers : o = m_ptr[s]
  BY <1>1
<1>3. PICK ops : ops = (Ref!Op("incWeak", o) \o Ref!Op("decWeak", m_ptr[d])) \o Ref!Set(d, o)
  OBVIOUS
<1>4. m_ptr[d] = NULL => ops = Ref!Op("incWeak", o) \o Ref!Set(d, o)
  BY <1>3, NoOp, NullOp
<1>5. Ref!Call(t, ops)
  BY <1>2, <1>3, <1>4 DEF Ref!wp_ctor, Ref!wp_assign
<1>6. d = Ref!wp(t)
  OBVIOUS
<1> HIDE DEF d, s
<1> QED
  BY <1>1, <1>2, <1>3, <1>5, <1>6, CopyCall

(* Move assignment: releases, then takes.                                  *)
LEMMA TakeOper ==
  ASSUME NEW d \in Slots, NEW s \in Slots
  PROVE  \E w \in Oper : w = [op |-> "take", slot |-> d, from |-> s] /\ w.op = "take" /\ w.slot = d /\ w.from = s
<1> DEFINE w == [op |-> "take", slot |-> d, from |-> s]
<1>1. w \in Oper /\ w.op = "take" /\ w.slot = d /\ w.from = s
  BY DEF Oper
<1> HIDE DEF w
<1> QED
  BY <1>1 DEF w

LEMMA SourcesAreLent ==
  ASSUME NEW t \in Users, NEW d, NEW s \in Ref!Sources(t, d)
  PROVE  s \in Lends(t, d, m_ptr, creator)
<1>1. CASE s \in {Ref!sp(t, i) : i \in Locals[t]}
  BY <1>1 DEF Lends, Sp
<1>2. CASE s \in {Ref!member(o) : o \in {p \in Objects : /\ creator[p] = t
                                                        /\ \E i \in Locals[t] : Ref!sp(t, i) # d /\ m_ptr[Ref!sp(t, i)] = p}}
  <2>1. PICK o \in Objects, i \in Locals[t] :
          s = Ref!member(o) /\ creator[o] = t /\ Ref!sp(t, i) # d /\ m_ptr[Ref!sp(t, i)] = o
    BY <1>2
  <2>2. Ref!sp(t, i) \in Sp(t) \ {d}
    BY <2>1 DEF Sp
  <2> QED
    BY <2>1, <2>2 DEF Lends
<1> QED
  BY <1>1, <1>2 DEF Ref!Sources

LEMMA SpMoveKeeps ==
  ASSUME RefInv, NEW t \in Users, todo[t] = <<>>, NEW d \in Ref!Mine(t), NEW s \in Ref!Sources(t, d),
         Ref!Call(t, Ref!sp_move_assign(d, s))
  PROVE  RefInv'
<1>0. RefTypes
  BY InvParts
<1>1. s \in Lends(t, d, m_ptr, creator)
  BY SourcesAreLent
<1>2. d \in Own(t) /\ d \in Strong /\ d \in Slots /\ m_ptr[d] \in Pointers /\ s \in Slots
  BY <1>0, <1>1, LendsSlots, MineIsOwn, SlotSets DEF RefTypes
<1>3. PICK w \in Oper : w = [op |-> "take", slot |-> d, from |-> s] /\ w.op = "take" /\ w.slot = d /\ w.from = s
  BY <1>2, TakeOper
<1>4. PICK p \in Pointers : p = m_ptr[d]
  BY <1>2
<1>5. PICK r : r = (Ref!Op("incStrong", NULL) \o Ref!Op("decStrong", p)) \o <<w>>
  OBVIOUS
<1>6. CopyList(r, "incStrong", "decStrong", NULL, p, w)
  <2>1. "incStrong" \in Counting /\ "decStrong" \in Counting /\ NULL \in Pointers
    BY NullOp
  <2> QED
    BY <1>5, <2>1, ListCases
<1>7. r = Ref!Op("decStrong", p) \o <<w>>
  BY <1>5, NoOp, NullOp
<1>8. Ref!Call(t, r)
  BY <1>1, <1>3, <1>4, <1>7 DEF Ref!sp_move_assign
<1>9. r \in Seq(Oper)
  BY <1>6 DEF CopyList
<1>10. Enter(t) /\ todo'[t] = r
  BY <1>0, <1>8, <1>9, CallEnters
<1>11. d \in Own(t)' /\ m_ptr'[d] = p /\ s \in Lends(t, d, m_ptr', creator')
  <2>1. Lends(t, d, m_ptr', creator') = Lends(t, d, m_ptr, creator)
    BY <1>10 DEF Enter, Lends, Sp
  <2> QED
    BY <1>1, <1>2, <1>4, <1>10, <2>1, EnterFacts DEF Enter
<1>12. Ready(t)' /\ \A x : ~Begins(t, x)'
  <2>1. CASE p = NULL
    BY <1>2, <1>3, <1>6, <1>10, <1>11, <2>1, WriteList DEF CopyList
  <2>2. CASE p # NULL
    BY <1>2, <1>3, <1>6, <1>10, <1>11, <2>2, ReleaseList DEF CopyList
  <2> QED
    BY <2>1, <2>2
<1> QED
  BY <1>10, <1>12, EnterKeeps

(* The move constructor: two writes.                                       *)
LEMMA MoveCtorKeeps ==
  ASSUME RefInv, NEW t \in Users, todo[t] = <<>>, NEW d \in Sp(t), NEW s \in Sp(t),
         m_ptr[d] = NULL, m_ptr[s] # NULL, Ref!Call(t, Ref!sp_move_ctor(d, s))
  PROVE  RefInv'
<1>0. RefTypes
  BY InvParts
<1>1. d \in Slots /\ s \in Slots /\ m_ptr[s] \in Pointers /\ NULL \in Pointers
  BY <1>0, SlotSets, NullOp DEF RefTypes
<1>2. PICK p \in Pointers : p = m_ptr[s]
  BY <1>1
<1>3. PICK a \in Oper : Ref!Set(d, p) = <<a>> /\ a.op = "set" /\ a.slot = d /\ a.obj = p
  BY <1>1, SetOper
<1>4. PICK b \in Oper : Ref!Set(s, NULL) = <<b>> /\ b.op = "set" /\ b.slot = s /\ b.obj = NULL
  BY <1>1, SetOper
<1>5. PICK r : r = <<a>> \o <<b>>
  OBVIOUS
<1>6. r \in Seq(Oper) /\ Len(r) = 2 /\ r[1] = a /\ r[2] = b
  BY <1>5
<1>7. Ref!Call(t, r)
  BY <1>2, <1>3, <1>4, <1>5 DEF Ref!sp_move_ctor
<1>8. Enter(t) /\ todo'[t] = r
  BY <1>0, <1>6, <1>7, CallEnters
<1>9. m_ptr' = m_ptr /\ d # s
  BY <1>8 DEF Enter
<1>10. Ready(t)' /\ \A x : ~Begins(t, x)'
  BY <1>2, <1>3, <1>4, <1>6, <1>8, <1>9, MoveList
<1> QED
  BY <1>8, <1>10, EnterKeeps

LEMMA AttemptOper ==
  ASSUME NEW d \in Slots, NEW o \in Objects
  PROVE  \E w \in Oper : /\ w = [op |-> "attemptIncStrong", slot |-> d, obj |-> o]
                         /\ w.op = "attemptIncStrong" /\ w.slot = d /\ w.obj = o
<1> DEFINE w == [op |-> "attemptIncStrong", slot |-> d, obj |-> o]
<1>1. w \in Oper /\ w.op = "attemptIncStrong" /\ w.slot = d /\ w.obj = o
  BY DEF Oper
<1> HIDE DEF w
<1> QED
  BY <1>1 DEF w

LEMMA PromoteKeeps ==
  ASSUME RefInv, NEW t \in Users, todo[t] = <<>>, NEW i \in Locals[t], m_ptr[Ref!sp(t, i)] = NULL,
         Ref!Call(t, Ref!promote(Ref!sp(t, i), Ref!wp(t)))
  PROVE  RefInv'
<1>0. RefTypes
  BY InvParts
<1>1. PICK d \in Sp(t) : d = Ref!sp(t, i)
  BY DEF Sp
<1>2. d \in Slots /\ Ref!wp(t) \in Slots /\ m_ptr[Ref!wp(t)] \in Pointers
  BY <1>0, SlotSets DEF RefTypes
<1>3. m_ptr[Ref!wp(t)] # NULL
  BY DEF Ref!Call, Ref!promote
<1>4. PICK o \in Objects : o = m_ptr[Ref!wp(t)]
  BY <1>2, <1>3 DEF Pointers
<1>5. PICK w \in Oper : /\ w = [op |-> "attemptIncStrong", slot |-> d, obj |-> o]
                        /\ w.op = "attemptIncStrong" /\ w.slot = d /\ w.obj = o
  BY <1>2, AttemptOper
<1>6. PICK r : r = <<w>>
  OBVIOUS
<1>7. r \in Seq(Oper) /\ Len(r) = 1 /\ r[1] = w
  BY <1>6
<1>8. Ref!Call(t, r)
  BY <1>1, <1>3, <1>4, <1>5, <1>6 DEF Ref!promote
<1>9. Enter(t) /\ todo'[t] = r
  BY <1>0, <1>7, <1>8, CallEnters
<1>10. m_ptr' = m_ptr
  BY <1>9 DEF Enter
<1>11. Ready(t)' /\ \A x : ~Begins(t, x)'
  BY <1>1, <1>4, <1>5, <1>7, <1>9, <1>10, AttemptList
<1> QED
  BY <1>9, <1>11, EnterKeeps

LEMMA CallsKeep ==
  ASSUME RefInv, NEW t \in Users, Ref!Calls(t)
  PROVE  RefInv'
<1>1. todo[t] = <<>>
  BY DEF Ref!Calls
<1>2. ASSUME NEW d \in Ref!Mine(t), NEW s \in Ref!Mine(t), Ref!Call(t, Ref!sp_assign(d, m_ptr[s]))
      PROVE  RefInv'
  BY <1>1, <1>2, SpAssignKeeps
<1>3. ASSUME NEW d \in Ref!Mine(t), NEW s \in Ref!Sources(t, d), Ref!Call(t, Ref!sp_move_assign(d, s))
      PROVE  RefInv'
  BY <1>1, <1>3, SpMoveKeeps
<1>4. ASSUME NEW d \in Sp(t), NEW s \in Sp(t), m_ptr[d] = NULL, m_ptr[s] # NULL, Ref!Call(t, Ref!sp_move_ctor(d, s))
      PROVE  RefInv'
  BY <1>1, <1>4, MoveCtorKeeps
<1>5. ASSUME NEW d \in Ref!Mine(t), Ref!Call(t, Ref!sp_clear(d)) PROVE RefInv'
  <2>1. Ref!Call(t, Ref!Op("decStrong", m_ptr[d]) \o Ref!Set(d, NULL))
    BY <1>5 DEF Ref!sp_clear, Ref!Call
  <2> QED
    BY <1>1, <2>1, SpReleaseKeeps
<1>6. ASSUME NEW i \in Locals[t], Ref!Call(t, Ref!sp_dtor(Ref!sp(t, i))) PROVE RefInv'
  <2>1. PICK d : d = Ref!sp(t, i)
    OBVIOUS
  <2>2. d \in Ref!Mine(t)
    BY <2>1 DEF Ref!Mine
  <2>3. Ref!Call(t, Ref!Op("decStrong", m_ptr[d]) \o Ref!Set(d, NULL))
    BY <1>6, <2>1 DEF Ref!sp_dtor
  <2> QED
    BY <1>1, <2>2, <2>3, SpReleaseKeeps
<1>7. ASSUME NEW i \in Locals[t],
             IF m_ptr[Ref!wp(t)] = NULL THEN Ref!Call(t, Ref!wp_ctor(Ref!wp(t), m_ptr[Ref!sp(t, i)]))
             ELSE Ref!Call(t, Ref!wp_assign(Ref!wp(t), m_ptr[Ref!sp(t, i)]))
      PROVE  RefInv'
  BY <1>1, <1>7, WpCopyKeeps
<1>8. ASSUME Ref!Call(t, Ref!wp_clear(Ref!wp(t))) PROVE RefInv'
  <2>1. Ref!Call(t, Ref!Op("decWeak", m_ptr[Ref!wp(t)]) \o Ref!Set(Ref!wp(t), NULL))
    BY <1>8 DEF Ref!wp_clear, Ref!Call
  <2> QED
    BY <1>1, <2>1, WpReleaseKeeps
<1>9. ASSUME NEW i \in Locals[t], m_ptr[Ref!sp(t, i)] = NULL, Ref!Call(t, Ref!promote(Ref!sp(t, i), Ref!wp(t)))
      PROVE  RefInv'
  BY <1>1, <1>9, PromoteKeeps
<1> QED
  BY <1>2, <1>3, <1>4, <1>5, <1>6, <1>7, <1>8, <1>9, Zenon DEF Ref!Calls, Sp

(* new: an object nobody has.                                              *)
LEMMA NewObjectKeeps ==
  ASSUME RefInv, NEW t \in Users, NEW i \in Locals[t], NEW o \in Objects, Ref!NewObject(t, i, o)
  PROVE  RefInv'
<1>0. RefTypes /\ Doomed /\ Living /\ \A u \in Users : Source(u)
  BY InvParts DEF RefInv
<1>1. PICK d \in Sp(t) : d = Ref!sp(t, i)
  BY DEF Sp
<1>2. /\ todo[t] = <<>> /\ m_ptr[d] = NULL /\ life[o] = "none"
      /\ life' = [life EXCEPT ![o] = "live"] /\ creator' = [creator EXCEPT ![o] = t]
      /\ mCount' = mCount /\ mWeak' = mWeak /\ m_ptr' = m_ptr /\ wrong' = wrong
      /\ todo' = [todo EXCEPT ![t] = Ref!sp_ctor(d, o)]
  BY <1>1, PointersAssumption DEF Ref!NewObject
<1>3. d \in Slots /\ o \in Pointers /\ o # NULL /\ d \in Own(t)' /\ d \in Strong
  BY SlotSets, OwnSlots, PointersAssumption DEF Pointers, Own
<1>4. PICK w \in Oper : Ref!Set(d, o) = <<w>> /\ w.op = "set" /\ w.slot = d /\ w.obj = o
  BY <1>3, SetOper
<1>5. PICK r : r = (Ref!Op("incStrong", o) \o Ref!Op("decStrong", NULL)) \o <<w>>
  OBVIOUS
<1>6. CopyList(r, "incStrong", "decStrong", o, NULL, w)
  <2>1. "incStrong" \in Counting /\ "decStrong" \in Counting /\ NULL \in Pointers
    BY NullOp
  <2> QED
    BY <1>3, <1>5, <2>1, ListCases
<1>7. r = Ref!sp_ctor(d, o)
  BY <1>3, <1>4, <1>5, NoOp, NullOp DEF Ref!sp_ctor
<1>8. r \in Seq(Oper) /\ Len(r) = 2 /\ r[1].op = "incStrong" /\ r[1].obj = o /\ r[2] = w
  BY <1>3, <1>6 DEF CopyList
<1>9. OnlyList(t) /\ todo'[t] = r
  <2> HIDE DEF Oper
  <2> QED
    BY <1>0, <1>2, <1>7, <1>8 DEF RefTypes, OnlyList
<1>10. Ready(t)'
  BY <1>2, <1>3, <1>4, <1>8, <1>9, CountList
<1>11. Begins(t, o)' /\ \A x : Begins(t, x)' => x = o
  <2>1. Len(r) # 0
    BY <1>8
  <2>2. r # <<>>
    BY <1>8, <2>1, EmptyList, Zenon
  <2> QED
    BY <1>8, <1>9, <2>2 DEF Begins
<1>12. RefTypes' /\ Creators
  <2> HIDE DEF Oper
  <2>1. todo' \in [Users -> Seq(Oper)]
    BY <1>9 DEF OnlyList
  <2>2. life' \in [Objects -> {"none", "live", "freed"}] /\ DOMAIN creator' = Objects
        /\ \A p \in Objects : life'[p] = "none" => creator'[p] = NULL
    BY <1>0, <1>2 DEF RefTypes
  <2>3. Creators
    BY <1>0, <1>2 DEF RefTypes, Creators
  <2> QED
    BY <1>0, <1>2, <2>1, <2>2, <2>3 DEF RefTypes
<1>13. mCount[o] = 0
  <2>1. ~(mCount[o] > 0)
    BY <1>0, <1>2 DEF Living
  <2> QED
    BY <1>0, <2>1, IntCounts
<1>14. \A u \in Users : o \notin Destroys(u) /\ ~Begins(u, o)
  <2> TAKE u \in Users
  <2>1. o \notin Destroys(u)
    BY <1>0, <1>2 DEF Doomed
  <2>2. ~Begins(u, o)
    BY <1>0, <1>2, SourceLives
  <2> QED
    BY <2>1, <2>2
<1>15. \A u \in Users : o \notin Destroys(u)' /\ (Begins(u, o)' => u = t)
  <2> TAKE u \in Users
  <2>1. CASE u = t
    BY <1>10, <2>1 DEF Ready
  <2>2. CASE u # t
    BY <1>9, <1>14, <2>2 DEF OnlyList, Destroys, Begins, At
  <2> QED
    BY <2>1, <2>2
<1>16. Source(t)'
  <2>1. Fresh(t, o)'
    BY <1>0, <1>2, <1>11, <1>13, <1>15 DEF Fresh, RefTypes
  <2> QED
    BY <1>11, <2>1 DEF Source
<1>17. \A u \in Users \ {t} : ~Fresh(u, o) /\ o \notin Destroys(u)
  BY <1>14 DEF Fresh
<1>18. life'[o] = "live" /\ \A p \in Objects \ {o} : life'[p] = life[p]
  BY <1>0, <1>2 DEF RefTypes
<1> QED
  BY <1>2, <1>9, <1>10, <1>11, <1>12, <1>16, <1>17, <1>18, CallKeeps

-----------------------------------------------------------------------------
(* Strong and weak pointers: all steps *)

LEMMA RefInit ==
  ASSUME Ref!Init
  PROVE  RefInv
<1>1. RefTypes
  <2>1. /\ life = [o \in Objects |-> "none"] /\ creator = [o \in Objects |-> NULL]
        /\ mCount = [o \in Objects |-> 0] /\ mWeak = [o \in Objects |-> 0]
        /\ m_ptr = [s \in Slots |-> NULL] /\ todo = [t \in Users |-> <<>>]
    BY DEF Ref!Init, Slots
  <2> HIDE DEF Oper
  <2> QED
    BY <2>1 DEF RefTypes, Pointers
<1>2. /\ ~wrong /\ \A t \in Users : todo[t] = <<>>
      /\ \A o \in Objects : life[o] = "none" /\ mCount[o] = 0 /\ mWeak[o] = 0
      /\ \A s \in Slots : m_ptr[s] = NULL
  BY DEF Ref!Init, Slots
<1>3. ASSUME NEW t \in Users
      PROVE  /\ At(t) = {} /\ Destroys(t) = {} /\ \A o : ~Begins(t, o)
             /\ \A S : Coming(t, S) = NULL
  BY <1>2, IdleFacts
<1>4. \A t \in Users : InOrder(t) /\ Relies(t) /\ Source(t) /\ OnceEach(t)
  BY <1>3 DEF InOrder, Relies, Source, OnceEach
<1>5. Doomed
  BY <1>3, <1>4 DEF Doomed
<1>6. Living
  BY <1>2 DEF Living
<1>7. Counted
  <2> SUFFICES ASSUME NEW o \in Objects, NEW S \in {Strong, Weak} PROVE Cardinality(Holders(o, S)) = 0
    BY <1>2 DEF Counted
  <2>1. o # NULL
    BY PointersAssumption
  <2>2. \A s \in S : m_ptr[s] = NULL
    BY <1>2, SlotSets
  <2>3. \A s \in S : Held(s) = NULL
    BY <2>2 DEF Held
  <2>4. {s \in S : Held(s) = o} = {} /\ {u \in Users : Coming(u, S) = o} = {}
    BY <1>3, <2>1, <2>3
  <2>5. Holders(o, S) = {}
    BY <2>4 DEF Holders
  <2> QED
    BY <2>5, FS_EmptySet
<1> QED
  BY <1>1, <1>2, <1>4, <1>5, <1>6, <1>7 DEF RefInv

LEMMA RefNext ==
  ASSUME RefInv, Ref!Next
  PROVE  RefInv'
<1>1. PICK t \in Users :
        \/ Ref!Step(t) \/ Ref!Calls(t)
        \/ \E i \in Locals[t], o \in Objects : Ref!NewObject(t, i, o)
        \/ \E i, j \in Locals[t] : Ref!move_references(t, i, j)
        \/ \E i \in Locals[t], u \in Users : \E j \in Locals[u] : Ref!Give(t, i, u, j)
  BY DEF Ref!Next
<1>2. CASE Ref!Step(t)
  <2>1. CASE Ref!incStrong(t)
    BY <2>1, IncStrongKeeps
  <2>2. CASE Ref!decStrong(t)
    BY <2>2, DecStrongKeeps
  <2>3. CASE Ref!Delete(t)
    BY <2>3, DeleteKeeps
  <2>4. CASE Ref!Free(t)
    BY <2>4, FreeKeeps
  <2>5. CASE Ref!set_pointer(t)
    BY <2>5, SetLastKeeps, SetMoveKeeps
  <2>6. CASE Ref!Take(t)
    BY <2>6, TakeKeeps
  <2>7. CASE Ref!incWeak(t)
    BY <2>7, IncWeakKeeps
  <2>8. CASE Ref!decWeak(t)
    BY <2>8, DecWeakKeeps
  <2>9. CASE Ref!attemptIncStrong(t)
    BY <2>9, AttemptKeeps
  <2> QED
    BY <1>2, <2>1, <2>2, <2>3, <2>4, <2>5, <2>6, <2>7, <2>8, <2>9, Zenon DEF Ref!Step
<1>3. CASE Ref!Calls(t)
  BY <1>3, CallsKeep
<1>4. ASSUME NEW i \in Locals[t], NEW o \in Objects, Ref!NewObject(t, i, o) PROVE RefInv'
  BY <1>4, NewObjectKeeps
<1>5. ASSUME NEW i \in Locals[t], NEW j \in Locals[t], Ref!move_references(t, i, j) PROVE RefInv'
  BY <1>5, MoveReferencesKeeps
<1>6. ASSUME NEW i \in Locals[t], NEW u \in Users, NEW j \in Locals[u], Ref!Give(t, i, u, j) PROVE RefInv'
  BY <1>6, GiveKeeps
<1> QED
  BY <1>1, <1>2, <1>3, <1>4, <1>5, <1>6, Zenon

LEMMA RefStutters ==
  ASSUME RefInv, UNCHANGED refVars
  PROVE  RefInv'
<1>1. /\ life' = life /\ creator' = creator /\ mCount' = mCount /\ mWeak' = mWeak
      /\ m_ptr' = m_ptr /\ todo' = todo /\ wrong' = wrong
  BY DEF refVars
<1>2. RefTypes' /\ \A t \in Users : InOrder(t)' /\ Relies(t)'
  BY <1>1, InvParts DEF Lists, RefTypes, InOrder, Relies, Moving, Own, Lends, At, Sp
<1>3. \A t \in Users : /\ Destroys(t)' = Destroys(t) /\ OnceEach(t)' = OnceEach(t) /\ Own(t)' = Own(t)
                       /\ \A o : Begins(t, o)' = Begins(t, o)
  BY <1>1 DEF Destroys, OnceEach, Own, Begins, At, Sp
<1>4. Counted'
  <2>1. \A t \in Users : \A S : Coming(t, S)' = Coming(t, S)
    BY <1>1 DEF Coming
  <2>2. \A s : Held(s)' = Held(s)
    BY <1>1 DEF Held, Kept, At
  <2> QED
    BY <1>1, <2>1, <2>2, InvParts DEF Counted, Holders
<1>5. Doomed' /\ Living'
  BY <1>1, <1>3, InvParts DEF Doomed, Living
<1>6. \A t \in Users : Source(t)'
  BY <1>1, <1>3, InvParts DEF Source, Fresh
<1> QED
  BY <1>1, <1>2, <1>4, <1>5, <1>6, InvParts DEF RefInv

LEMMA SameSize == \A S : Ref!Cardinality(S) = Cardinality(S)
  BY DEF Ref!Cardinality, Cardinality

(* What the invariant says of the pointers.                                *)
LEMMA RefMeans ==
  ASSUME RefInv
  PROVE  Ref!NoUseAfterFree /\ Ref!PointersAreLive /\ Ref!CountsArePointers
<1>0. RefTypes /\ Counted /\ Living /\ ~wrong
  BY InvParts
<1>1. Ref!NoUseAfterFree
  BY <1>0 DEF Ref!NoUseAfterFree
<1>2. Ref!PointersAreLive
  <2> SUFFICES ASSUME NEW t \in Users, todo[t] = <<>>, NEW s \in Ref!Mine(t), m_ptr[s] # NULL
               PROVE  life[m_ptr[s]] = "live"
    BY DEF Ref!PointersAreLive
  <2>1. s \in Own(t) \cap Strong /\ m_ptr[s] \in Pointers
    BY <1>0, MineIsOwn DEF RefTypes
  <2>2. PICK x \in Objects : m_ptr[s] = x
    BY <2>1 DEF Pointers
  <2> QED
    BY <2>1, <2>2, IdleHolds
<1>3. Ref!CountsArePointers
  <2> SUFFICES ASSUME Ref!Quiet, NEW o \in Objects
               PROVE  /\ mCount[o] = Cardinality(Ref!PointsAt(o, Ref!Strong))
                      /\ mWeak[o] = Cardinality(Ref!PointsAt(o, Ref!Slots \ Ref!Strong))
                      /\ life[o] = "live" <=> mCount[o] > 0
    BY SameSize DEF Ref!CountsArePointers
  <2>1. \A t \in Users : todo[t] = <<>>
    BY DEF Ref!Quiet
  <2>2. ASSUME NEW t \in Users
        PROVE  /\ At(t) = {} /\ Destroys(t) = {} /\ ~Begins(t, o)
               /\ \A S : Coming(t, S) = NULL
    BY <2>1, IdleFacts
  <2>3. \A s : Held(s) = m_ptr[s]
    BY <2>2 DEF Held, Kept
  <2>4. o # NULL
    BY PointersAssumption
  <2>5. \A S : Holders(o, S) = Ref!PointsAt(o, S)
    BY <2>2, <2>3, <2>4 DEF Holders, Ref!PointsAt
  <2>6. mCount[o] \in Nat
    BY IntCounts
  <2>7. life[o] = "live" <=> mCount[o] > 0
    BY <1>0, <2>2, <2>6 DEF Living
  <2>8. /\ mCount[o] = Cardinality(Ref!PointsAt(o, Strong))
        /\ mWeak[o] = Cardinality(Ref!PointsAt(o, Weak))
    BY <1>0, <2>5 DEF Counted
  <2> QED
    BY <2>7, <2>8 DEF Strong, Weak, Slots
<1> QED
  BY <1>1, <1>2, <1>3

-----------------------------------------------------------------------------
(* What pointers compare *)

ThingType == [life : {"none", "live", "gone"}, at : Nat, refs : Nat]
SpType == [m_ptr : Nat, of : Nat]
WpType == [m_ptr : Nat, m_refs : Nat, of : Nat]

(* A strong pointer has the address of its object, which lives; a weak one *)
(* what its object had.                                                    *)
SpFits(T, s) ==
  \/ s.m_ptr = 0 /\ s.of = 0
  \/ s.m_ptr # 0 /\ s.of \in Things /\ T[s.of].life = "live" /\ T[s.of].at = s.m_ptr
WpFits(T, w) ==
  \/ w.m_ptr = 0 /\ w.of = 0
  \/ /\ w.m_ptr # 0 /\ w.of \in Things /\ T[w.of].life # "none"
     /\ T[w.of].at = w.m_ptr /\ T[w.of].refs = w.m_refs

(* Objects whose block is in use.                                          *)
Using(T, W, o) == T[o].life = "live" \/ \E w \in Wps : W[w].of = o

(* Addresses tell the living apart, and blocks those somebody knows.       *)
Apart(T, W) ==
  \A o, p \in Things :
    /\ T[o].life = "live" /\ T[p].life = "live" /\ T[o].at = T[p].at => o = p
    /\ Using(T, W, o) /\ Using(T, W, p) /\ T[o].refs = T[p].refs => o = p

OrdOK(T, S, W) ==
  /\ T \in [Things -> ThingType] /\ S \in [Sps -> SpType] /\ W \in [Wps -> WpType]
  /\ \A s \in Sps : SpFits(T, S[s])
  /\ \A w \in Wps : WpFits(T, W[w])
  /\ Apart(T, W)

OrdInv == OrdOK(thing, sps, wps)

LEMMA ThingNumbers == Things \subseteq Nat \ {0} /\ Addresses \subseteq Nat \ {0} /\ Blocks \subseteq Nat \ {0} /\ 0 \notin Things
  BY OrderAssumption

(* Objects without a strong pointer are deleted.                           *)
LEMMA BecomesKeeps ==
  ASSUME NEW S, NEW M, OrdOK(M, S, wps), Ord!Becomes(S, M)
  PROVE  OrdInv'
<1>1. sps' = S /\ wps' = wps
  BY DEF Ord!Becomes
<1>2. PICK T : T = thing'
  OBVIOUS
<1>3. /\ M \in [Things -> ThingType] /\ S \in [Sps -> SpType] /\ wps \in [Wps -> WpType]
      /\ \A s \in Sps : SpFits(M, S[s])
      /\ \A w \in Wps : WpFits(M, wps[w])
      /\ Apart(M, wps)
  BY DEF OrdOK
<1>4. T = [o \in Things |-> IF M[o].life = "live" /\ \A s \in Sps : S[s].of # o
                            THEN [M[o] EXCEPT !.life = "gone"] ELSE M[o]]
  BY <1>2 DEF Ord!Becomes
<1>5. ASSUME NEW o \in Things
      PROVE  /\ T[o] \in ThingType /\ T[o].at = M[o].at /\ T[o].refs = M[o].refs
             /\ T[o].life = "live" => M[o].life = "live"
             /\ T[o].life = "none" <=> M[o].life = "none"
             /\ \A s \in Sps : S[s].of = o => T[o].life = M[o].life
  BY <1>3, <1>4 DEF ThingType
<1>6. T \in [Things -> ThingType]
  BY <1>4, <1>5
<1>7. \A s \in Sps : SpFits(T, S[s])
  BY <1>3, <1>5 DEF SpFits
<1>8. \A w \in Wps : WpFits(T, wps[w])
  BY <1>3, <1>5 DEF WpFits
<1>9. \A o \in Things : Using(T, wps, o) => Using(M, wps, o)
  BY <1>5 DEF Using
<1>10. Apart(T, wps)
  BY <1>3, <1>5, <1>9 DEF Apart
<1>11. OrdOK(T, S, wps)
  BY <1>3, <1>6, <1>7, <1>8, <1>10 DEF OrdOK
<1> QED
  BY <1>1, <1>2, <1>11 DEF OrdInv

(* A strong pointer that fits is written.                                  *)
LEMMA SpWriteKeeps ==
  ASSUME OrdInv, NEW s \in Sps, NEW x \in SpType, SpFits(thing, x), Ord!Becomes([sps EXCEPT ![s] = x], thing)
  PROVE  OrdInv'
<1>1. PICK S : S = [sps EXCEPT ![s] = x]
  OBVIOUS
<1>2. OrdOK(thing, S, wps)
  BY <1>1 DEF OrdInv, OrdOK
<1> QED
  BY <1>1, <1>2, BecomesKeeps

(* A weak pointer is written.                                              *)
LEMMA WpWriteKeeps ==
  ASSUME OrdInv, NEW w \in Wps, NEW x \in WpType, WpFits(thing, x), x.of \in Things => Using(thing, wps, x.of),
         Ord!Weak(w, x)
  PROVE  OrdInv'
<1>1. thing' = thing /\ sps' = sps /\ wps' = [wps EXCEPT ![w] = x]
  BY DEF Ord!Weak
<1>2. PICK W : W = wps'
  OBVIOUS
<1>3. wps \in [Wps -> WpType] /\ W = [wps EXCEPT ![w] = x]
  BY <1>1, <1>2 DEF OrdInv, OrdOK
<1>4. W \in [Wps -> WpType] /\ W[w] = x /\ \A v \in Wps \ {w} : W[v] = wps[v]
  BY <1>3
<1>5. \A v \in Wps : WpFits(thing, W[v])
  BY <1>4 DEF OrdInv, OrdOK
<1>6. \A o \in Things : Using(thing, W, o) => Using(thing, wps, o)
  BY <1>4 DEF Using
<1>7. Apart(thing, W)
  BY <1>6 DEF Apart, OrdInv, OrdOK
<1>8. OrdOK(thing, sps, W)
  BY <1>4, <1>5, <1>7 DEF OrdInv, OrdOK
<1> QED
  BY <1>1, <1>2, <1>8 DEF OrdInv

LEMMA SpNewKeeps ==
  ASSUME OrdInv, NEW s \in Sps, NEW o \in Things, NEW a \in Addresses, NEW b \in Blocks, Ord!sp_new(s, o, a, b)
  PROVE  OrdInv'
<1>0. /\ thing \in [Things -> ThingType] /\ sps \in [Sps -> SpType] /\ wps \in [Wps -> WpType]
      /\ \A r \in Sps : SpFits(thing, sps[r])
      /\ \A w \in Wps : WpFits(thing, wps[w])
      /\ Apart(thing, wps)
  BY DEF OrdInv, OrdOK
<1>1. /\ thing[o].life = "none"
      /\ \A p \in Things : thing[p].life = "live" => thing[p].at # a /\ thing[p].refs # b
      /\ \A w \in Wps : wps[w].m_ptr # 0 => wps[w].m_refs # b
  BY DEF Ord!sp_new, Ord!Live, Ord!UsedBlocks, Ord!Held, Ord!None
<1>2. PICK S : S = [sps EXCEPT ![s] = [m_ptr |-> a, of |-> o]]
  OBVIOUS
<1>3. PICK T : T = [thing EXCEPT ![o] = [life |-> "live", at |-> a, refs |-> b]]
  OBVIOUS
<1>4. Ord!Becomes(S, T)
  BY <1>2, <1>3 DEF Ord!sp_new
<1>5. a \in Nat \ {0} /\ b \in Nat \ {0} /\ o \in Nat \ {0}
  BY ThingNumbers
<1>6. /\ T \in [Things -> ThingType] /\ T[o].life = "live" /\ T[o].at = a /\ T[o].refs = b
      /\ \A p \in Things \ {o} : T[p] = thing[p]
  BY <1>0, <1>3, <1>5 DEF ThingType
<1>7. /\ S \in [Sps -> SpType] /\ S[s].m_ptr = a /\ S[s].of = o
      /\ \A r \in Sps \ {s} : S[r] = sps[r]
  BY <1>0, <1>2, <1>5 DEF SpType
<1>8. \A r \in Sps : SpFits(T, S[r])
  <2> TAKE r \in Sps
  <2>1. CASE r = s
    BY <1>5, <1>6, <1>7, <2>1 DEF SpFits
  <2>2. CASE r # s
    <3>1. SpFits(thing, sps[r]) /\ sps[r].of # o
      BY <1>0, <1>1, ThingNumbers DEF SpFits
    <3> QED
      BY <1>6, <1>7, <2>2, <3>1 DEF SpFits
  <2> QED
    BY <2>1, <2>2
<1>9. \A w \in Wps : WpFits(T, wps[w]) /\ wps[w].of # o
  <2> TAKE w \in Wps
  <2>1. WpFits(thing, wps[w]) /\ wps[w].of # o
    BY <1>0, <1>1, ThingNumbers DEF WpFits
  <2> QED
    BY <1>6, <2>1 DEF WpFits
<1>10. Apart(T, wps)
  <2>1. \A p \in Things \ {o} : Using(T, wps, p) => Using(thing, wps, p) /\ thing[p].refs # b
    <3> SUFFICES ASSUME NEW p \in Things \ {o}, Using(T, wps, p)
                 PROVE  Using(thing, wps, p) /\ thing[p].refs # b
      OBVIOUS
    <3>1. CASE T[p].life = "live"
      BY <1>1, <1>6, <3>1 DEF Using
    <3>2. ASSUME NEW w \in Wps, wps[w].of = p PROVE Using(thing, wps, p) /\ thing[p].refs # b
      BY <1>0, <1>1, <3>2, ThingNumbers DEF Using, WpFits
    <3> QED
      BY <3>1, <3>2 DEF Using
  <2> SUFFICES ASSUME NEW p \in Things, NEW q \in Things
               PROVE  /\ T[p].life = "live" /\ T[q].life = "live" /\ T[p].at = T[q].at => p = q
                      /\ Using(T, wps, p) /\ Using(T, wps, q) /\ T[p].refs = T[q].refs => p = q
    BY DEF Apart
  <2>2. CASE p # o /\ q # o
    BY <1>0, <1>6, <2>1, <2>2 DEF Apart
  <2>3. CASE p = o /\ q # o
    BY <1>1, <1>6, <2>1, <2>3
  <2>4. CASE p # o /\ q = o
    BY <1>1, <1>6, <2>1, <2>4
  <2> QED
    BY <2>2, <2>3, <2>4
<1>11. OrdOK(T, S, wps)
  BY <1>0, <1>6, <1>7, <1>8, <1>9, <1>10 DEF OrdOK
<1> QED
  BY <1>4, <1>11, BecomesKeeps

LEMMA OrdInit ==
  ASSUME Ord!Init
  PROVE  OrdInv
<1>1. /\ thing = [o \in Things |-> [life |-> "none", at |-> 0, refs |-> 0]]
      /\ sps = [s \in Sps |-> [m_ptr |-> 0, of |-> 0]]
  BY DEF Ord!Init, Ord!sp_none, Ord!None
<1>2. /\ wps \in [Wps -> {[m_ptr |-> 0, m_refs |-> b, of |-> 0] : b \in Blocks}]
  BY DEF Ord!Init, Ord!wp_none, Ord!None
<1>3. \A w \in Wps : wps[w] \in WpType /\ wps[w].m_ptr = 0 /\ wps[w].of = 0
  BY <1>2, ThingNumbers DEF WpType
<1>4. wps \in [Wps -> WpType]
  BY <1>2, <1>3
<1>5. thing \in [Things -> ThingType] /\ sps \in [Sps -> SpType] /\ \A o \in Things : thing[o].life = "none"
  BY <1>1 DEF ThingType, SpType
<1>6. \A s \in Sps : SpFits(thing, sps[s])
  BY <1>1 DEF SpFits
<1>7. \A w \in Wps : WpFits(thing, wps[w])
  BY <1>3 DEF WpFits
<1>8. Apart(thing, wps)
  BY <1>3, <1>5, ThingNumbers DEF Apart, Using
<1> QED
  BY <1>4, <1>5, <1>6, <1>7, <1>8 DEF OrdInv, OrdOK

LEMMA OrdNext ==
  ASSUME OrdInv, Ord!Next
  PROVE  OrdInv'
<1>0. /\ thing \in [Things -> ThingType] /\ sps \in [Sps -> SpType] /\ wps \in [Wps -> WpType]
      /\ \A r \in Sps : SpFits(thing, sps[r])
      /\ \A w \in Wps : WpFits(thing, wps[w])
  BY DEF OrdInv, OrdOK
<1>1. ASSUME NEW s \in Sps, NEW o \in Things, NEW a \in Addresses, NEW b \in Blocks, Ord!sp_new(s, o, a, b)
      PROVE  OrdInv'
  BY <1>1, SpNewKeeps
<1>2. ASSUME NEW s \in Sps, NEW r \in Sps, Ord!sp_assign(s, r) PROVE OrdInv'
  <2>1. PICK x \in SpType : x = sps[r]
    BY <1>0
  <2>2. SpFits(thing, x) /\ Ord!Becomes([sps EXCEPT ![s] = x], thing)
    BY <1>0, <1>2, <2>1 DEF Ord!sp_assign
  <2> QED
    BY <2>2, SpWriteKeeps
<1>3. ASSUME NEW s \in Sps, Ord!sp_clear(s) PROVE OrdInv'
  <2>1. PICK x \in SpType : x = [m_ptr |-> 0, of |-> 0]
    BY DEF SpType
  <2>2. SpFits(thing, x) /\ Ord!Becomes([sps EXCEPT ![s] = x], thing)
    BY <1>3, <2>1 DEF Ord!sp_clear, Ord!sp_none, Ord!None, SpFits
  <2> QED
    BY <2>2, SpWriteKeeps
<1>4. ASSUME NEW s \in Sps, NEW w \in Wps, Ord!promote(s, w) PROVE OrdInv'
  <2>1. wps[w] \in WpType /\ WpFits(thing, wps[w])
    BY <1>0
  <2>2. PICK x \in SpType : x = [m_ptr |-> wps[w].m_ptr, of |-> wps[w].of]
    BY <2>1 DEF WpType, SpType
  <2>3. SpFits(thing, x)
    BY <1>4, <2>1, <2>2 DEF Ord!promote, Ord!Held, Ord!Live, Ord!None, SpFits, WpFits
  <2>4. Ord!Becomes([sps EXCEPT ![s] = x], thing)
    BY <1>4, <2>2 DEF Ord!promote
  <2> QED
    BY <2>3, <2>4, SpWriteKeeps
<1>5. ASSUME NEW s \in Sps, NEW refs \in Nat
      PROVE  /\ Ord!FromSp(s, refs) \in WpType /\ WpFits(thing, Ord!FromSp(s, refs))
             /\ Ord!FromSp(s, refs).of \in Things => Using(thing, wps, Ord!FromSp(s, refs).of)
  <2>1. SpFits(thing, sps[s]) /\ sps[s] \in SpType
    BY <1>0
  <2>2. CASE sps[s].m_ptr = 0
    <3>1. Ord!FromSp(s, refs) = [m_ptr |-> 0, m_refs |-> refs, of |-> 0]
      BY <2>2 DEF Ord!FromSp, Ord!wp_none, Ord!None
    <3> QED
      BY <3>1, ThingNumbers DEF WpType, WpFits
  <2>3. CASE sps[s].m_ptr # 0
    <3>1. Ord!FromSp(s, refs) = [m_ptr |-> sps[s].m_ptr, m_refs |-> thing[sps[s].of].refs, of |-> sps[s].of]
      BY <2>3 DEF Ord!FromSp, Ord!None
    <3>2. /\ sps[s].of \in Things /\ thing[sps[s].of].life = "live" /\ thing[sps[s].of].at = sps[s].m_ptr
          /\ sps[s].m_ptr \in Nat /\ sps[s].of \in Nat /\ thing[sps[s].of] \in ThingType
      BY <1>0, <2>1, <2>3 DEF SpFits, SpType
    <3>3. thing[sps[s].of].refs \in Nat
      BY <3>2 DEF ThingType
    <3>4. PICK x : x = Ord!FromSp(s, refs)
      OBVIOUS
    <3>5. x \in WpType /\ x.m_ptr = sps[s].m_ptr /\ x.m_refs = thing[sps[s].of].refs /\ x.of = sps[s].of
      BY <3>1, <3>2, <3>3, <3>4 DEF WpType
    <3>6. WpFits(thing, x) /\ Using(thing, wps, x.of)
      BY <2>3, <3>2, <3>5 DEF WpFits, Using
    <3> QED
      BY <3>4, <3>5, <3>6
  <2> QED
    BY <2>2, <2>3
<1>6. ASSUME NEW w \in Wps, NEW v \in Wps, Ord!Weak(w, wps[v]) PROVE OrdInv'
  <2>1. PICK x \in WpType : x = wps[v]
    BY <1>0
  <2>2. WpFits(thing, x) /\ Using(thing, wps, x.of) /\ Ord!Weak(w, x)
    BY <1>0, <1>6, <2>1 DEF Using
  <2> QED
    BY <2>2, WpWriteKeeps
<1>7. ASSUME NEW w \in Wps, NEW b \in Nat, Ord!Weak(w, [m_ptr |-> 0, m_refs |-> b, of |-> 0]) PROVE OrdInv'
  <2>1. PICK x \in WpType : x = [m_ptr |-> 0, m_refs |-> b, of |-> 0]
    BY DEF WpType
  <2>2. WpFits(thing, x) /\ ~(x.of \in Things) /\ Ord!Weak(w, x)
    BY <1>7, <2>1, ThingNumbers DEF WpFits
  <2> QED
    BY <2>2, WpWriteKeeps
<1>8. ASSUME NEW w \in Wps, NEW s \in Sps, NEW b \in Nat, Ord!Weak(w, Ord!FromSp(s, b)) PROVE OrdInv'
  <2>1. PICK x \in WpType : x = Ord!FromSp(s, b)
    BY <1>5
  <2>2. WpFits(thing, x) /\ (x.of \in Things => Using(thing, wps, x.of)) /\ Ord!Weak(w, x)
    BY <1>5, <1>8, <2>1
  <2> QED
    BY <2>2, WpWriteKeeps
<1>9. ASSUME NEW w \in Wps, NEW s \in Sps, Ord!wp_ctor_sp(w, s) \/ Ord!wp_assign_sp(w, s) PROVE OrdInv'
  BY <1>8, <1>9, ThingNumbers DEF Ord!wp_ctor_sp, Ord!wp_assign_sp, Ord!None
<1>10. ASSUME NEW w \in Wps, NEW v \in Wps, Ord!wp_ctor_wp(w, v) PROVE OrdInv'
  <2>1. PICK b \in Blocks \cup {wps[v].m_refs} : Ord!Weak(w, IF Ord!Held(wps[v]) THEN wps[v] ELSE Ord!wp_none(b))
    BY <1>10 DEF Ord!wp_ctor_wp
  <2>2. wps[v] \in WpType
    BY <1>0
  <2>3. b \in Nat
    BY <2>1, <2>2, ThingNumbers DEF WpType
  <2>4. CASE Ord!Held(wps[v])
    BY <1>6, <2>1, <2>4
  <2>5. CASE ~Ord!Held(wps[v])
    BY <1>7, <2>1, <2>3, <2>5 DEF Ord!wp_none, Ord!None
  <2> QED
    BY <2>4, <2>5
<1>11. ASSUME NEW w \in Wps, NEW v \in Wps, Ord!wp_assign_wp(w, v) PROVE OrdInv'
  BY <1>6, <1>11 DEF Ord!wp_assign_wp
<1>12. ASSUME NEW w \in Wps, NEW v \in Wps, Ord!set_object_and_refs(w, v) PROVE OrdInv'
  <2>1. wps[v] = [m_ptr |-> wps[v].m_ptr, m_refs |-> wps[v].m_refs, of |-> wps[v].of]
    BY <1>0 DEF WpType
  <2>2. Ord!Weak(w, wps[v])
    BY <1>12, <2>1 DEF Ord!set_object_and_refs
  <2> QED
    BY <1>6, <2>2
<1>13. ASSUME NEW w \in Wps, Ord!wp_clear(w) PROVE OrdInv'
  <2>1. PICK x \in WpType : x = wps[w]
    BY <1>0
  <2>2. PICK z : z = [x EXCEPT !.m_ptr = 0, !.of = 0]
    OBVIOUS
  <2>3. z \in WpType /\ z.m_ptr = 0 /\ z.of = 0
    BY <2>2 DEF WpType
  <2>4. WpFits(thing, z) /\ z.of \notin Things
    BY <2>3, ThingNumbers DEF WpFits
  <2>5. Ord!Weak(w, z)
    BY <1>13, <2>1, <2>2 DEF Ord!wp_clear, Ord!None
  <2> QED
    BY <2>3, <2>4, <2>5, WpWriteKeeps
<1> QED
  BY <1>1, <1>2, <1>3, <1>4, <1>9, <1>10, <1>11, <1>12, <1>13, Zenon DEF Ord!Next

LEMMA OrdMeans ==
  ASSUME OrdInv
  PROVE  Ord!KnowsObjects
<1>0. /\ thing \in [Things -> ThingType] /\ sps \in [Sps -> SpType] /\ wps \in [Wps -> WpType]
      /\ \A r \in Sps : SpFits(thing, sps[r])
      /\ \A w \in Wps : WpFits(thing, wps[w])
      /\ Apart(thing, wps)
  BY DEF OrdInv, OrdOK
<1>1. ASSUME NEW v \in Wps, NEW w \in Wps, Ord!Held(wps[v]), Ord!Held(wps[w])
      PROVE  LET x == wps[v]  y == wps[w]  same == x.of = y.of
             IN  /\ Ord!weak_equal(x, y) <=> same
                 /\ Ord!weak_differs(x, y) <=> ~same
                 /\ same => Ord!weak_equal_U(x, y)
                 /\ ~same /\ {x.of, y.of} \subseteq Ord!Live => Ord!weak_differs_U(x, y)
                 /\ ~same => (Ord!weak_less(x, y) <=> ~Ord!weak_greater(x, y))
                 /\ same => ~Ord!weak_less(x, y) /\ ~Ord!weak_greater(x, y)
  <2>1. PICK x \in WpType : x = wps[v]
    BY <1>0
  <2>2. PICK y \in WpType : y = wps[w]
    BY <1>0
  <2>3. /\ x.of \in Things /\ thing[x.of].at = x.m_ptr /\ thing[x.of].refs = x.m_refs
        /\ y.of \in Things /\ thing[y.of].at = y.m_ptr /\ thing[y.of].refs = y.m_refs
    BY <1>0, <1>1, <2>1, <2>2 DEF WpFits, Ord!Held, Ord!None
  <2>4. Using(thing, wps, x.of) /\ Using(thing, wps, y.of)
    BY <2>1, <2>2 DEF Using
  <2>5. x.of = y.of => x.m_ptr = y.m_ptr /\ x.m_refs = y.m_refs
    BY <2>3
  <2>6. x.m_refs = y.m_refs => x.of = y.of
    BY <1>0, <2>3, <2>4 DEF Apart
  <2>7. x.m_ptr \in Nat /\ x.m_refs \in Nat /\ y.m_ptr \in Nat /\ y.m_refs \in Nat
    BY DEF WpType
  <2>8. x.of \in Ord!Live /\ y.of \in Ord!Live /\ x.m_ptr = y.m_ptr => x.of = y.of
    BY <1>0, <2>3 DEF Apart, Ord!Live
  <2>9. x.of = y.of => Ord!weak_equal_U(x, y)
    BY <2>5 DEF Ord!weak_equal_U
  <2>10. x.of # y.of /\ {x.of, y.of} \subseteq Ord!Live => Ord!weak_differs_U(x, y)
    BY <2>8 DEF Ord!weak_equal_U, Ord!weak_differs_U
  <2> QED
    BY <2>1, <2>2, <2>5, <2>6, <2>7, <2>9, <2>10
       DEF Ord!weak_equal, Ord!weak_differs, Ord!weak_less, Ord!weak_greater
<1>2. ASSUME NEW s \in Sps, NEW r \in Sps PROVE Ord!equal(sps[s], sps[r]) <=> sps[s].of = sps[r].of
  <2>1. SpFits(thing, sps[s]) /\ SpFits(thing, sps[r])
    BY <1>0
  <2> QED
    BY <1>0, <2>1, ThingNumbers DEF SpFits, Apart, Ord!equal
<1>3. ASSUME NEW w \in Wps, NEW s \in Sps, wps[w].of \in Ord!Live
      PROVE  Ord!equal(wps[w], sps[s]) <=> wps[w].of = sps[s].of
  <2>1. SpFits(thing, sps[s]) /\ WpFits(thing, wps[w])
    BY <1>0
  <2>2. wps[w].of \in Things /\ thing[wps[w].of].life = "live"
    BY <1>3 DEF Ord!Live
  <2> QED
    BY <1>0, <2>1, <2>2, ThingNumbers DEF SpFits, WpFits, Apart, Ord!equal
<1> QED
  BY <1>1, <1>2, <1>3 DEF Ord!KnowsObjects

-----------------------------------------------------------------------------
(* All together *)

(* Whatever threads copy, move, release, promote and create at the same    *)
(* time, no call uses an object that was freed and none is freed twice,    *)
(* what a thread holds is alive, between calls the counts are the pointers *)
(* and exactly the counted objects live, and pointers of one type compare  *)
(* equal when they were made for the same object (StrongPointer.h,         *)
(* RefBase.h); weak pointers of two types compare by address.  The move    *)
(* assignment x = std::move(x->member), where x is the only pointer of the *)
(* thread to the object, is not among the calls.                           *)
THEOREM PointersAreRight == Spec => []ObjectsLiveAsPointed
<1>1. Init => RefInv /\ OrdInv
  BY RefInit, OrdInit DEF Init
<1>2. RefInv /\ OrdInv /\ [Next]_vars => (RefInv /\ OrdInv)'
  <2> SUFFICES ASSUME RefInv, OrdInv, [Next]_vars
               PROVE  RefInv' /\ OrdInv'
    OBVIOUS
  <2>1. CASE PointerStep
    <3>1. RefInv'
      BY <2>1, RefNext DEF PointerStep
    <3>2. OrdInv'
      BY <2>1 DEF PointerStep, orderVars, OrdInv
    <3> QED
      BY <3>1, <3>2
  <2>2. CASE OrderStep
    <3>1. OrdInv'
      BY <2>2, OrdNext DEF OrderStep
    <3>2. UNCHANGED refVars
      BY <2>2 DEF OrderStep
    <3> QED
      BY <3>1, <3>2, RefStutters
  <2>3. CASE LockStep \/ AtomicStep \/ TraceStep \/ UNCHANGED vars
    <3>1. UNCHANGED refVars /\ UNCHANGED orderVars
      BY <2>3 DEF LockStep, AtomicStep, TraceStep, vars
    <3>2. OrdInv'
      BY <3>1 DEF orderVars, OrdInv
    <3> QED
      BY <3>1, <3>2, RefStutters
  <2> QED
    BY <2>1, <2>2, <2>3 DEF Next
<1>3. RefInv /\ OrdInv => ObjectsLiveAsPointed
  BY RefMeans, OrdMeans DEF ObjectsLiveAsPointed
<1> QED
  BY <1>1, <1>2, <1>3, PTL DEF Spec
=============================================================================
