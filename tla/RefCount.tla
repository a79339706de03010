------------------------------ MODULE RefCount ------------------------------
(***************************************************************************)
(* include/utils/StrongPointer.h and RefBase.h: sp<T>, wp<T> and the count *)
(* of LightRefBase.  Threads work on pointers of their own and on the sp   *)
(* member of objects they created, and share objects.  A member function   *)
(* is the sequence of the atomic operations it makes; decStrong may delete *)
(* the object, which destroys its member first.  The weak count and        *)
(* attemptIncStrong are RefBase.cpp, which is not in the repository.       *)
(***************************************************************************)
EXTENDS Integers, FiniteSets, Sequences, SequencesExt

CONSTANTS Threads, NULL,
          Makers,   \* the threads that create objects
          Objects,  \* numbers: new takes the next one
          Locals    \* the sp variables of every thread

VARIABLES life,    \* of an object: "none", "live" or "freed"
          creator, \* of an object: the thread that uses its member
          mCount,  \* the strong count
          mWeak,   \* the weak count
          m_ptr,   \* of a slot: <<"sp", t, i>>, <<"wp", t>> or <<"member", o>>
          todo,    \* of a thread: the operations left of the call it is in
          wrong    \* a freed object was used, or freed again
refVars == <<life, creator, mCount, mWeak, m_ptr, todo, wrong>>

sp(t, i) == <<"sp", t, i>>
wp(t) == <<"wp", t>>
member(o) == <<"member", o>>
Slots == (UNION {{sp(t, i) : i \in Locals[t]} : t \in Threads}) \cup {wp(t) : t \in Threads} \cup {member(o) : o \in Objects}
Strong == {s \in Slots : s[1] # "wp"}

(* The operations a call is made of, and those on NULL, left out.          *)
Op(f, o) == IF o = NULL THEN <<>> ELSE <<[op |-> f, obj |-> o]>>
Set(s, o) == <<[op |-> "set", slot |-> s, obj |-> o]>>

(* sp<T>: constructors, destructor, assignments.  A copy counts the new    *)
(* object before it gives up the old one and loads other.m_ptr first.      *)
sp_ctor(d, o) == Op("incStrong", o) \o Set(d, o)
sp_dtor(d) == Op("decStrong", m_ptr[d]) \o Set(d, NULL)
sp_move_ctor(d, s) == Set(d, m_ptr[s]) \o Set(s, NULL)
(* Mutant: releases before it counts. *)
sp_assign_DecFirst(d, o) == Op("decStrong", m_ptr[d]) \o Op("incStrong", o) \o Set(d, o)
sp_assign(d, o) == Op("incStrong", o) \o Op("decStrong", m_ptr[d]) \o Set(d, o)
(* The move reads other.m_ptr after decStrong.                             *)
sp_move_assign(d, s) == Op("decStrong", m_ptr[d]) \o <<[op |-> "take", slot |-> d, from |-> s]>>
sp_clear(d) == IF m_ptr[d] = NULL THEN <<>> ELSE Op("decStrong", m_ptr[d]) \o Set(d, NULL)

(* wp<T>: m_refs goes with m_ptr, and counts first as well.                *)
wp_ctor(d, o) == Op("incWeak", o) \o Set(d, o)
wp_assign(d, o) == Op("incWeak", o) \o Op("decWeak", m_ptr[d]) \o Set(d, o)
wp_clear(d) == IF m_ptr[d] = NULL THEN <<>> ELSE Op("decWeak", m_ptr[d]) \o Set(d, NULL)
(* promote: the result is a new sp.                                        *)
promote(d, w) == IF m_ptr[w] = NULL THEN <<>> ELSE <<[op |-> "attemptIncStrong", slot |-> d, obj |-> m_ptr[w]]>>
-----------------------------------------------------------------------------
Init ==
  /\ life = [o \in Objects |-> "none"] /\ creator = [o \in Objects |-> NULL]
  /\ mCount = [o \in Objects |-> 0] /\ mWeak = [o \in Objects |-> 0]
  /\ m_ptr = [s \in Slots |-> NULL]
  /\ todo = [t \in Threads |-> <<>>] /\ wrong = FALSE

(* The slots a thread may name: its own, and the member of an object it    *)
(* created and holds.                                                      *)
Mine(t) ==
  {sp(t, i) : i \in Locals[t]}
    \cup {member(o) : o \in {p \in Objects : creator[p] = t /\ \E i \in Locals[t] : m_ptr[sp(t, i)] = p}}

Call(t, ops) ==
  /\ ops # <<>> /\ todo' = [todo EXCEPT ![t] = ops]
  /\ UNCHANGED <<life, creator, mCount, mWeak, m_ptr, wrong>>

(* sp(new T), into an empty pointer.                                       *)
NewObject(t, i, o) ==
  /\ t \in Makers /\ todo[t] = <<>> /\ m_ptr[sp(t, i)] = NULL
  /\ \A p \in Objects : life[p] = "none" <=> p >= o
  /\ life' = [life EXCEPT ![o] = "live"] /\ creator' = [creator EXCEPT ![o] = t]
  /\ todo' = [todo EXCEPT ![t] = sp_ctor(sp(t, i), o)]
  /\ UNCHANGED <<mCount, mWeak, m_ptr, wrong>>

(* A thread hands another one an object it holds: the sp of the receiver   *)
(* is copy-constructed while the giver's keeps the object.                 *)
Give(t, i, u, j) ==
  /\ todo[t] = <<>> /\ todo[u] = <<>> /\ t # u
  /\ m_ptr[sp(t, i)] # NULL /\ m_ptr[sp(u, j)] = NULL
  /\ mCount' = [mCount EXCEPT ![m_ptr[sp(t, i)]] = @ + 1]
  /\ m_ptr' = [m_ptr EXCEPT ![sp(u, j)] = m_ptr[sp(t, i)]]
  /\ UNCHANGED <<life, creator, mWeak, todo, wrong>>

(* What move assignment to d may take from: a pointer of the thread, or    *)
(* the member of an object of its own that it holds by another one.  Not   *)
(* x = std::move(x->member) with x its only pointer to the object: other   *)
(* is read after decStrong, which may have destroyed it.                   *)
Sources(t, d) ==
  {sp(t, i) : i \in Locals[t]}
    \cup {member(o) : o \in {p \in Objects : creator[p] = t /\ \E i \in Locals[t] : sp(t, i) # d /\ m_ptr[sp(t, i)] = p}}

Calls(t) ==
  /\ todo[t] = <<>>
  /\ \/ \E d, s \in Mine(t) : Call(t, sp_assign(d, m_ptr[s]))
     \/ \E d \in Mine(t) : \E s \in Sources(t, d) : Call(t, sp_move_assign(d, s))
     \/ \E d, s \in {sp(t, i) : i \in Locals[t]} : m_ptr[d] = NULL /\ m_ptr[s] # NULL /\ Call(t, sp_move_ctor(d, s))
     \/ \E d \in Mine(t) : Call(t, sp_clear(d))
     \/ \E i \in Locals[t] : m_ptr[sp(t, i)] # NULL /\ Call(t, sp_dtor(sp(t, i)))
     \/ \E i \in Locals[t] : IF m_ptr[wp(t)] = NULL THEN Call(t, wp_ctor(wp(t), m_ptr[sp(t, i)]))
                          ELSE Call(t, wp_assign(wp(t), m_ptr[sp(t, i)]))
     \/ Call(t, wp_clear(wp(t)))
     \/ \E i \in Locals[t] : m_ptr[sp(t, i)] = NULL /\ Call(t, promote(sp(t, i), wp(t)))

(* ReferenceMover: memmove of the pointers of a thread, without counting.  *)
move_references(t, i, j) ==
  /\ todo[t] = <<>> /\ m_ptr[sp(t, i)] # NULL /\ m_ptr[sp(t, j)] = NULL
  /\ m_ptr' = [m_ptr EXCEPT ![sp(t, j)] = m_ptr[sp(t, i)], ![sp(t, i)] = NULL]
  /\ UNCHANGED <<life, creator, mCount, mWeak, todo, wrong>>
-----------------------------------------------------------------------------
Freed(s) == s[1] = "member" /\ life[s[2]] = "freed"
HeadOp(t, f) == todo[t] # <<>> /\ Head(todo[t]).op = f
Then(t, ops) == todo' = [todo EXCEPT ![t] = ops \o Tail(@)]

incStrong(t) ==
  /\ HeadOp(t, "incStrong")
  /\ LET o == Head(todo[t]).obj
     IN  /\ mCount' = [mCount EXCEPT ![o] = @ + 1]
         /\ wrong' = (wrong \/ life[o] # "live")
  /\ Then(t, <<>>) /\ UNCHANGED <<life, creator, mWeak, m_ptr>>

(* fetch_sub and the test of what it returned are one atomic operation.    *)
decStrong(t) ==
  /\ HeadOp(t, "decStrong")
  /\ LET o == Head(todo[t]).obj
     IN  /\ mCount' = [mCount EXCEPT ![o] = @ - 1]
         /\ wrong' = (wrong \/ life[o] # "live")
         /\ Then(t, IF mCount[o] = 1 THEN <<[op |-> "delete", obj |-> o]>> ELSE <<>>)
  /\ UNCHANGED <<life, creator, mWeak, m_ptr>>

(* delete: the destructor of the member, then the memory.                  *)
Delete(t) ==
  /\ HeadOp(t, "delete")
  /\ LET o == Head(todo[t]).obj
     IN  Then(t, Op("decStrong", m_ptr[member(o)]) \o <<[op |-> "free", obj |-> o]>>)
  /\ UNCHANGED <<life, creator, mCount, mWeak, m_ptr, wrong>>
Free(t) ==
  /\ HeadOp(t, "free")
  /\ LET o == Head(todo[t]).obj
     IN  /\ life' = [life EXCEPT ![o] = "freed"] /\ wrong' = (wrong \/ life[o] # "live")
         /\ m_ptr' = [m_ptr EXCEPT ![member(o)] = NULL]
  /\ Then(t, <<>>) /\ UNCHANGED <<creator, mCount, mWeak>>

set_pointer(t) ==
  /\ HeadOp(t, "set")
  /\ m_ptr' = [m_ptr EXCEPT ![Head(todo[t]).slot] = Head(todo[t]).obj]
  /\ wrong' = (wrong \/ Freed(Head(todo[t]).slot))
  /\ Then(t, <<>>) /\ UNCHANGED <<life, creator, mCount, mWeak>>
Take(t) ==
  /\ HeadOp(t, "take")
  /\ LET h == Head(todo[t])
     IN  /\ m_ptr' = [[m_ptr EXCEPT ![h.slot] = m_ptr[h.from]] EXCEPT ![h.from] = NULL]
         /\ wrong' = (wrong \/ Freed(h.slot) \/ Freed(h.from))
  /\ Then(t, <<>>) /\ UNCHANGED <<life, creator, mCount, mWeak>>

(* weakref_type (external): the block outlives the object while a weak     *)
(* count is left; a strong reference is had only where one still is.       *)
incWeak(t) ==
  /\ HeadOp(t, "incWeak")
  /\ mWeak' = [mWeak EXCEPT ![Head(todo[t]).obj] = @ + 1]
  /\ Then(t, <<>>) /\ UNCHANGED <<life, creator, mCount, m_ptr, wrong>>
decWeak(t) ==
  /\ HeadOp(t, "decWeak")
  /\ mWeak' = [mWeak EXCEPT ![Head(todo[t]).obj] = @ - 1]
  /\ Then(t, <<>>) /\ UNCHANGED <<life, creator, mCount, m_ptr, wrong>>
attemptIncStrong(t) ==
  /\ HeadOp(t, "attemptIncStrong")
  /\ LET h == Head(todo[t])
     IN  /\ IF mCount[h.obj] > 0 THEN /\ mCount' = [mCount EXCEPT ![h.obj] = @ + 1]
                                      /\ Then(t, Set(h.slot, h.obj))
            ELSE Then(t, <<>>) /\ UNCHANGED mCount
         /\ wrong' = (wrong \/ mWeak[h.obj] = 0)
  /\ UNCHANGED <<life, creator, mWeak, m_ptr>>

Step(t) ==
  \/ incStrong(t) \/ decStrong(t) \/ Delete(t) \/ Free(t) \/ set_pointer(t) \/ Take(t)
  \/ incWeak(t) \/ decWeak(t) \/ attemptIncStrong(t)
Next ==
  \E t \in Threads :
    \/ Step(t) \/ Calls(t)
    \/ \E i \in Locals[t], o \in Objects : NewObject(t, i, o)
    \/ \E i, j \in Locals[t] : move_references(t, i, j)
    \/ \E i \in Locals[t], u \in Threads : \E j \in Locals[u] : Give(t, i, u, j)
Spec == Init /\ [][Next]_refVars
-----------------------------------------------------------------------------
Quiet == \A t \in Threads : todo[t] = <<>>
PointsAt(o, S) == {s \in S : m_ptr[s] = o}

(* No call reads or writes a freed object or its member, and none is freed *)
(* twice, whatever the threads release and promote at the same time, and   *)
(* also for x = x, x = x->member and chains of deletes.  x = std::move of  *)
(* x->member is excepted where x is the only pointer of the thread to the  *)
(* object: it reads the member after the object may be gone.               *)
NoUseAfterFree == ~ wrong

(* A pointer no call is working on refers to a live object.                *)
PointersAreLive ==
  \A t \in Threads : todo[t] = <<>> => \A s \in Mine(t) : m_ptr[s] # NULL => life[m_ptr[s]] = "live"

(* Between calls the counts are the pointers, and exactly the objects that *)
(* are pointed at live: nothing leaks (cycles keep themselves alive).      *)
CountsArePointers ==
  Quiet => \A o \in Objects :
    /\ mCount[o] = Cardinality(PointsAt(o, Strong))
    /\ mWeak[o] = Cardinality(PointsAt(o, Slots \ Strong))
    /\ life[o] = "live" <=> mCount[o] > 0
=============================================================================
