--------------------------- MODULE MCConcurrency ----------------------------
(***************************************************************************)
(* The headers that threads share objects through: locks, reference        *)
(* counted pointers, atomic words and the trace marker, one per behaviour. *)
(***************************************************************************)
EXTENDS Naturals, FiniteSets

CONSTANTS Threads, NULL,
          MaxItems,             \* bound on the items of a queue
          K, Limit,             \* nanoseconds per microsecond, and so on; the limit of nsecs_t
          Users, Makers,        \* threads with pointers, and those that make objects
          Objects, Locals,      \* the objects, and the strong pointers of every user
          Things, Addresses, Blocks, Sps, Wps,  \* see PointerOrder
          N,                    \* the threads of Atomics are numbers up to N
          Rounds, MaxUpdates    \* bounds: see Atomics and Tracing

(* The null pointer is no thread and not the first object.                 *)
ASSUME LocksAssumption ==
  /\ IsFiniteSet(Threads) /\ NULL \notin Threads /\ NULL # 1
  /\ MaxItems \in Nat /\ K \in Nat \ {0} /\ Limit \in Nat

(* Objects are numbered in the order of their creation; NULL is none, and  *)
(* no thread.                                                              *)
ASSUME PointersAssumption ==
  /\ IsFiniteSet(Users) /\ NULL \notin Users /\ \A t \in Users : IsFiniteSet(Locals[t])
  /\ IsFiniteSet(Objects) /\ Objects \subseteq Nat /\ NULL \notin Objects

(* Addresses can be compared, and 0 is none.                               *)
ASSUME OrderAssumption ==
  Things \cup Addresses \cup Blocks \subseteq Nat \ {0}

(* Two of the threads announce themselves; pthread_once is run by a thread *)
(* or by none.                                                             *)
ASSUME AtomicsAssumption ==
  N \in Nat \ {0, 1} /\ {"new", "done"} \cap Threads = {}

VARIABLES part,
          scene, pc, mMutex, sLock, mRWLock, mCond, sInstance, made, got, pair, copy, items, added, clock,
          life, creator, mCount, mWeak, m_ptr, todo, wrong,
          use, step, m, val,
          once, call, memory, tags, output, updates,
          thing, sps, wps
lockVars == <<scene, pc, mMutex, sLock, mRWLock, mCond, sInstance, made, got, pair, copy, items, added, clock>>
refVars == <<life, creator, mCount, mWeak, m_ptr, todo, wrong>>
atomicVars == <<use, step, m, val>>
traceVars == <<once, call, memory, tags, output, updates>>
orderVars == <<thing, sps, wps>>

AllScenes == {"singleton", "words", "items", "clock"}

Lck == INSTANCE Locks WITH Scenes <- AllScenes
Ref == INSTANCE RefCount WITH Threads <- Users
Ord == INSTANCE PointerOrder
Atm == INSTANCE Atomics WITH Threads <- 1 .. N
Trc == INSTANCE Tracing WITH Tracers <- Threads

(* The maker has two pointers and the other one.                           *)
MCLocals == [t \in Users |-> IF t \in Makers THEN {1, 2} ELSE {1}]

Init ==
  /\ part \in {"locks", "pointers", "atomics", "trace", "order"}
  /\ Lck!Init /\ Ref!Init /\ Atm!Init /\ Trc!Init /\ Ord!Init
  /\ part # "locks" => scene = "singleton"
  /\ part # "atomics" => use = "refs"
  /\ part # "order" => \A w \in DOMAIN wps : wps[w].m_refs = 1

LockStep == part = "locks" /\ Lck!Next /\ UNCHANGED <<part, refVars, atomicVars, traceVars, orderVars>>
PointerStep == part = "pointers" /\ Ref!Next /\ UNCHANGED <<part, lockVars, atomicVars, traceVars, orderVars>>
AtomicStep == part = "atomics" /\ Atm!Next /\ UNCHANGED <<part, lockVars, refVars, traceVars, orderVars>>
TraceStep == part = "trace" /\ Trc!Next /\ UNCHANGED <<part, lockVars, refVars, atomicVars, orderVars>>
OrderStep == part = "order" /\ Ord!Next /\ UNCHANGED <<part, lockVars, refVars, atomicVars, traceVars>>

Next == LockStep \/ PointerStep \/ AtomicStep \/ TraceStep \/ OrderStep
vars == <<part, lockVars, refVars, atomicVars, traceVars, orderVars>>
Spec == Init /\ [][Next]_vars
-----------------------------------------------------------------------------
(* Locking does what it is for: one instance of a Singleton, readers of an *)
(* RWLock see what one writer wrote, Condition loses no wake-up although   *)
(* waits time out, and relative and absolute timeouts mean the same time.  *)
LockingIsRight ==
  Lck!OneInstance /\ Lck!ReadersSeeOnePair /\ Lck!NoLostWakeup /\ Lck!DeadlinesAgree

(* An object lives exactly as long as it has strong pointers, whatever     *)
(* threads release and promote at the same time, and weak pointers tell    *)
(* objects apart although addresses are used again (StrongPointer.h,       *)
(* RefBase.h).                                                             *)
ObjectsLiveAsPointed ==
  Ref!NoUseAfterFree /\ Ref!PointersAreLive /\ Ref!CountsArePointers /\ Ord!KnowsObjects

(* The orders that atomic.h gives are enough for what its comments and     *)
(* trace.h use them for: references, counts that announce data, locks,     *)
(* owned bits, threads that look at each other, and the trace marker.      *)
AtomicsOrder ==
  /\ Atm!LastSeesAll /\ Atm!CountAnnounces /\ Atm!LockProtects /\ Atm!OneOwner
  /\ Atm!OneSeesOther /\ Trc!TracesToMarker
=============================================================================
