------------------------------- MODULE Locks --------------------------------
(***************************************************************************)
(* include/utils/Mutex.h, RWLock.h, Condition.h and Singleton.h: thin      *)
(* classes over pthreads, which are external.  Threads use them the way    *)
(* the headers say: getInstance of a singleton, readers and writers of a   *)
(* pair of words, and a count of items that consumers wait for, with and   *)
(* without a timeout, or only try to take.  A thread is between two calls  *)
(* at every label.                                                         *)
(***************************************************************************)
EXTENDS Integers, FiniteSets, Sequences

CONSTANTS Threads, NULL,
          Scenes,    \* the uses below that are looked at
          MaxItems,  \* bound on the items that are there at once
          K,         \* nanoseconds per microsecond, and so on: 1000
          Limit      \* nsecs_t holds the numbers below it: 2^63

VARIABLES scene,    \* what the threads are at
          pc, mMutex, sLock, mRWLock, mCond,
          sInstance, made,   \* the instance, and how many were constructed
          got,               \* of a thread: the instance it was given
          pair, copy,        \* the pair of words and what a reader read
          items, added,      \* the items there are, and ever were
          clock              \* a relative timeout and what was made of it
lockVars == <<scene, pc, mMutex, sLock, mRWLock, mCond, sInstance, made, got, pair, copy, items, added, clock>>

Goto(t, l) == pc' = [pc EXCEPT ![t] = l]
At(t, l) == pc[t] = l

Mutex == NULL
RWLock == [readers |-> {}, writer |-> NULL]
Condition == {}
Init ==
  /\ pc = [t \in Threads |-> "idle"]
  /\ mMutex = Mutex /\ sLock = Mutex /\ mRWLock = RWLock /\ mCond = Condition
  /\ sInstance = NULL /\ made = 0 /\ got = [t \in Threads |-> NULL]
  /\ pair = <<0, 0>> /\ copy = [t \in Threads |-> <<0, 0>>]
  /\ items = 0 /\ added = 0 /\ clock = NULL
  /\ scene \in Scenes

(* Singleton: everything happens inside the Autolock.                      *)
singleton == <<sLock, sInstance, made, got>>
rwlock == <<mRWLock, pair, copy>>
queue == <<mMutex, mCond, items, added>>
fixed == <<scene, clock>>
Idle(t, s) == scene = s /\ At(t, "idle")

Autolock(t) == sLock = Mutex /\ sLock' = t
getInstance(t) ==
  /\ Idle(t, "singleton") /\ Autolock(t)
  /\ Goto(t, "have lock") /\ UNCHANGED <<sInstance, made, got, rwlock, queue, fixed>>
hasInstance(t) ==
  /\ Idle(t, "singleton") /\ sLock = NULL /\ got' = [got EXCEPT ![t] = sInstance]
  /\ UNCHANGED <<pc, sLock, sInstance, made, rwlock, queue, fixed>>
LoadInstance(t) ==
  /\ At(t, "have lock") /\ Goto(t, IF sInstance = NULL THEN "construct" ELSE "unlock")
  /\ got' = [got EXCEPT ![t] = sInstance]
  /\ UNCHANGED <<sLock, sInstance, made, rwlock, queue, fixed>>
NewInstance(t) ==
  /\ At(t, "construct") /\ made < Cardinality(Threads) /\ made' = made + 1 /\ Goto(t, "publish")
  /\ got' = [got EXCEPT ![t] = made + 1] /\ UNCHANGED <<sLock, sInstance, rwlock, queue, fixed>>
Publish(t) ==
  /\ At(t, "publish") /\ sInstance' = got[t] /\ Goto(t, "unlock")
  /\ UNCHANGED <<sLock, made, got, rwlock, queue, fixed>>
UnlockSingleton(t) ==
  /\ At(t, "unlock") /\ sLock' = NULL /\ Goto(t, "idle")
  /\ UNCHANGED <<sInstance, made, got, rwlock, queue, fixed>>
-----------------------------------------------------------------------------
(* RWLock (pthread_rwlock: external).                                      *)
readLock(t) ==
  /\ Idle(t, "words") /\ mRWLock.writer = NULL
  /\ mRWLock' = [mRWLock EXCEPT !.readers = @ \cup {t}] /\ Goto(t, "read first")
  /\ UNCHANGED <<pair, copy, singleton, queue, fixed>>
writeLock(t) ==
  /\ Idle(t, "words") /\ mRWLock = RWLock
  /\ mRWLock' = [mRWLock EXCEPT !.writer = t] /\ Goto(t, "write first")
  /\ UNCHANGED <<pair, copy, singleton, queue, fixed>>
Access(t) ==
  /\ \/ At(t, "read first") /\ copy' = [copy EXCEPT ![t][1] = pair[1]] /\ UNCHANGED pair /\ Goto(t, "read second")
     \/ At(t, "read second") /\ copy' = [copy EXCEPT ![t][2] = pair[2]] /\ UNCHANGED pair /\ Goto(t, "rw unlock")
     \/ At(t, "write first") /\ pair' = [pair EXCEPT ![1] = 1 - @] /\ UNCHANGED copy /\ Goto(t, "write second")
     \/ At(t, "write second") /\ pair' = [pair EXCEPT ![2] = pair[1]] /\ UNCHANGED copy /\ Goto(t, "rw unlock")
  /\ UNCHANGED <<mRWLock, singleton, queue, fixed>>
UnlockRW(t) ==
  /\ At(t, "rw unlock")
  /\ mRWLock' = [readers |-> mRWLock.readers \ {t}, writer |-> IF mRWLock.writer = t THEN NULL ELSE mRWLock.writer]
  /\ Goto(t, "idle") /\ UNCHANGED <<pair, copy, singleton, queue, fixed>>
-----------------------------------------------------------------------------
(* Mutex and Condition (pthread: external).  A waiter is in mCond until it *)
(* is signalled or its time is up, and then has to lock the mutex again.   *)
lock(t) ==
  /\ \/ Idle(t, "items") /\ (Goto(t, "consume") \/ Goto(t, "consume timed") \/ Goto(t, "produce one") \/ Goto(t, "produce many"))
     \/ At(t, "woken") /\ Goto(t, "consume")
     \/ At(t, "woken timed") /\ Goto(t, "consume timed")
     \/ At(t, "timed out") /\ Goto(t, "last look")
  /\ mMutex = NULL /\ mMutex' = t
  /\ UNCHANGED <<mCond, items, added, singleton, rwlock, fixed>>
(* tryLock of a consumer: busy, it has done nothing.                       *)
tryLock(t) ==
  /\ Idle(t, "items") /\ mMutex = NULL /\ mMutex' = t /\ Goto(t, "last look")
  /\ UNCHANGED <<mCond, items, added, singleton, rwlock, fixed>>
unlock(t) ==
  /\ At(t, "done") /\ mMutex' = NULL /\ Goto(t, "idle")
  /\ UNCHANGED <<mCond, items, added, singleton, rwlock, fixed>>

(* while (items == 0) wait(mMutex);                                        *)
Consume(t) ==
  /\ At(t, "consume") \/ At(t, "consume timed") \/ At(t, "last look")
  /\ items > 0
  /\ items' = items - 1 /\ Goto(t, "done")
  /\ UNCHANGED <<mMutex, mCond, added, singleton, rwlock, fixed>>
GiveUp(t) ==
  /\ At(t, "last look") /\ items = 0 /\ Goto(t, "done")
  /\ UNCHANGED <<queue, singleton, rwlock, fixed>>
wait(t) ==
  /\ At(t, "consume") /\ items = 0
  /\ mMutex' = NULL /\ mCond' = mCond \cup {t} /\ Goto(t, "waiting")
  /\ UNCHANGED <<items, added, singleton, rwlock, fixed>>
waitRelative(t) ==
  /\ At(t, "consume timed") /\ items = 0
  /\ mMutex' = NULL /\ mCond' = mCond \cup {t} /\ Goto(t, "waiting timed")
  /\ UNCHANGED <<items, added, singleton, rwlock, fixed>>
(* The time is up, at the latest while a signal is on its way.             *)
Timeout(t) ==
  /\ At(t, "waiting timed") \/ At(t, "woken timed")
  /\ mCond' = mCond \ {t} /\ Goto(t, "timed out")
  /\ UNCHANGED <<mMutex, items, added, singleton, rwlock, fixed>>
(* pthread_cond_wait may return although nobody has signalled.             *)
Spurious(t) ==
  /\ \/ At(t, "waiting") /\ Goto(t, "woken")
     \/ At(t, "waiting timed") /\ Goto(t, "woken timed")
  /\ mCond' = mCond \ {t}
  /\ UNCHANGED <<mMutex, items, added, singleton, rwlock, fixed>>

Wake(t, S) ==
  /\ mCond' = mCond \ S
  /\ pc' = [u \in Threads |-> IF u \in S THEN (IF pc[u] = "waiting" THEN "woken" ELSE "woken timed") ELSE IF u = t THEN "done" ELSE pc[u]]
  /\ UNCHANGED <<mMutex, singleton, rwlock, fixed>>
(* "exactly one is restarted, but it is not specified which"               *)
signal(t) ==
  /\ At(t, "produce one") /\ items < MaxItems /\ added < 2 * MaxItems
  /\ items' = items + 1 /\ added' = added + 1
  /\ IF mCond = {} THEN Wake(t, {}) ELSE \E u \in mCond : Wake(t, {u})
(* Mutant: broadcast wakes one thread. *)
broadcast_One(t) ==
  /\ At(t, "produce many") /\ items = 0 /\ added < 2 * MaxItems
  /\ items' = MaxItems /\ added' = added + MaxItems
  /\ IF mCond = {} THEN Wake(t, {}) ELSE \E u \in mCond : Wake(t, {u})
broadcast(t) ==
  /\ At(t, "produce many") /\ items = 0 /\ added < 2 * MaxItems
  /\ items' = MaxItems /\ added' = added + MaxItems
  /\ Wake(t, mCond)
NoRoom(t) ==
  /\ \/ At(t, "produce one") /\ ~ (items < MaxItems /\ added < 2 * MaxItems)
     \/ At(t, "produce many") /\ ~ (items = 0 /\ added < 2 * MaxItems)
  /\ Goto(t, "done") /\ UNCHANGED <<queue, singleton, rwlock, fixed>>

(* Timers.h: a timeout is made of seconds, milliseconds and microseconds,  *)
(* and taken apart again.  Division in C truncates.                        *)
Quot(a, b) == IF a >= 0 THEN a \div b ELSE -((-a) \div b)
Rem(a, b) == a - b * Quot(a, b)
NS == K * K * K
seconds_to_nanoseconds(secs) == secs * NS
milliseconds_to_nanoseconds(secs) == secs * (K * K)
microseconds_to_nanoseconds(secs) == secs * K
nanoseconds_to_seconds(secs) == Quot(secs, NS)
nanoseconds_to_milliseconds(secs) == Quot(secs, K * K)
nanoseconds_to_microseconds(secs) == Quot(secs, K)
Timeout_ns(s, ms, us, ns) ==
  seconds_to_nanoseconds(s) + milliseconds_to_nanoseconds(ms) + microseconds_to_nanoseconds(us) + ns

(* The two ways a relative timeout becomes a time of day.  The sum of      *)
(* timedLock is an nsecs_t and wraps around; waitRelative adds seconds and *)
(* nanoseconds apart.                                                      *)
Nsecs(n) == IF n < Limit THEN n ELSE n - 2 * Limit
timedLock(now, timeoutNs) ==
  LET ns == Nsecs(timeoutNs + now.sec * NS + now.nsec)
  IN  [sec |-> Quot(ns, NS), nsec |-> Rem(ns, NS)]
waitUntil(now, reltime) ==
  LET s == now.sec + Quot(reltime, NS)
      n == now.nsec + Rem(reltime, NS)
  IN  IF n >= NS THEN [sec |-> s + 1, nsec |-> n - NS] ELSE [sec |-> s, nsec |-> n]

(* The arguments are read and the time is made before the call blocks.     *)
Measure ==
  /\ scene = "clock" /\ clock = NULL
  /\ \E n \in [sec : 1 .. 3, nsec : 0 .. NS - 1], given \in [s : 0 .. 2, ms : 0 .. K, us : 0 .. K, ns : 0 .. K] :
       LET r == Timeout_ns(given.s, given.ms, given.us, given.ns)
       IN  clock' = [now |-> n, given |-> given, rel |-> r, wait |-> waitUntil(n, r), lock |-> timedLock(n, r)]
  /\ UNCHANGED <<scene, pc, singleton, rwlock, queue>>
-----------------------------------------------------------------------------
Step(t) ==
  \/ LoadInstance(t) \/ NewInstance(t) \/ Publish(t) \/ UnlockSingleton(t)
  \/ Access(t) \/ UnlockRW(t)
  \/ unlock(t) \/ Consume(t) \/ GiveUp(t) \/ wait(t) \/ waitRelative(t) \/ signal(t) \/ broadcast(t) \/ NoRoom(t)
Next ==
  \/ Measure
  \/ \E t \in Threads :
    \/ Step(t) \/ lock(t) \/ tryLock(t) \/ Timeout(t) \/ Spurious(t)
    \/ getInstance(t) \/ hasInstance(t) \/ readLock(t) \/ writeLock(t)

Spec == Init /\ [][Next]_lockVars
-----------------------------------------------------------------------------
(* One instance is constructed, and every caller is given that one.        *)
OneInstance == made <= 1 /\ \A t \in Threads : At(t, "unlock") => got[t] = sInstance /\ sInstance # NULL

(* A reader that holds the lock over both reads sees a pair of one writer. *)
ReadersSeeOnePair == \A t \in Threads : At(t, "rw unlock") /\ t \in mRWLock.readers => copy[t][1] = copy[t][2]

(* No wake-up is lost: while items are there and a thread waits for one,   *)
(* somebody is on the way who was woken or holds the mutex, although a     *)
(* timeout may take the signal with it and a wait may end without one.     *)
NoLostWakeup ==
  items > 0 /\ mCond # {} => mMutex # NULL \/ \E t \in Threads : pc[t] \in {"woken", "woken timed", "timed out"}

(* waitRelative makes a valid time, now and the timeout added up, of every *)
(* timeout that is not negative (of a negative one it may make an invalid  *)
(* one).  timedLock makes the same time as long as the sum fits nsecs_t    *)
(* (Mutex.h:142); of a longer timeout it makes another one.  The parts a   *)
(* timeout was made of are the parts it is taken into.                     *)
DeadlinesAgree ==
  clock # NULL =>
    /\ clock.wait.nsec \in 0 .. NS - 1
    /\ clock.wait.sec * NS + clock.wait.nsec = clock.now.sec * NS + clock.now.nsec + clock.rel
    /\ clock.now.sec * NS + clock.now.nsec + clock.rel < Limit => clock.lock = clock.wait
    /\ LET g == clock.given  left == clock.rel - seconds_to_nanoseconds(nanoseconds_to_seconds(clock.rel))
       IN  (g.ms < K /\ g.us < K /\ g.ns < K) =>
             /\ nanoseconds_to_seconds(clock.rel) = g.s /\ nanoseconds_to_milliseconds(left) = g.ms
             /\ nanoseconds_to_microseconds(left) = g.ms * K + g.us
=============================================================================
