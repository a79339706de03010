------------------------- MODULE ConcurrencyProofs --------------------------
(***************************************************************************)
(* Proofs about the locks of MCConcurrency, for any finite set of threads, *)
(* any bound on the items and any number of nanoseconds per microsecond.   *)
(***************************************************************************)
EXTENDS MCConcurrency, Integers, FiniteSetTheorems, TLAPS

-----------------------------------------------------------------------------
(* Times *)

(* Division of natural numbers leaves a rest smaller than the divisor.     *)
LEMMA Division ==
  ASSUME NEW a \in Nat, NEW b \in Nat \ {0}
  PROVE  /\ a \div b \in Nat
         /\ a - b * (a \div b) \in 0 .. b - 1
  OBVIOUS

(* Quotient and rest are the only ones.                                    *)
LEMMA Quotient ==
  ASSUME NEW b \in Nat \ {0}, NEW q \in Nat, NEW r \in 0 .. b - 1
  PROVE  (q * b + r) \div b = q
  OBVIOUS

(* Two digits of base d are less than a third one.                         *)
LEMMA Digits ==
  ASSUME NEW b \in Nat, NEW d \in Nat, NEW x \in 0 .. b - 1, NEW y \in 0 .. d - 1
  PROVE  x * d + y \in 0 .. b * d - 1
<1>1. x * d \in Nat /\ (b - 1 - x) * d \in Nat /\ b * d \in Nat
  OBVIOUS
<1>2. x * d + (b - 1 - x) * d + d = b * d
  OBVIOUS
<1> QED
  BY <1>1, <1>2

(* waitRelative makes now and the timeout added up, and timedLock the same *)
(* as long as the sum fits nsecs_t.                                        *)
LEMMA Deadlines ==
  ASSUME NEW nano \in Nat \ {0}, nano = Lck!NS, NEW r \in Nat,
         NEW n \in [sec : Nat, nsec : 0 .. nano - 1]
  PROVE  /\ n.sec * nano + n.nsec + r < Limit => Lck!timedLock(n, r) = Lck!waitUntil(n, r)
         /\ Lck!waitUntil(n, r).nsec \in 0 .. nano - 1
         /\ Lck!waitUntil(n, r).sec * nano + Lck!waitUntil(n, r).nsec = n.sec * nano + n.nsec + r
<1> PICK q : q = r \div nano
  OBVIOUS
<1> PICK e : e = r - nano * q
  OBVIOUS
<1>1. /\ q \in Nat /\ e \in 0 .. nano - 1
  BY Division
<1>2. r = nano * q + e /\ n.sec \in Nat /\ n.nsec \in 0 .. nano - 1
  BY <1>1
<1>3. Lck!Quot(r, nano) = q /\ Lck!Rem(r, nano) = e
  BY DEF Lck!Quot, Lck!Rem
<1> PICK t : t = r + n.sec * nano + n.nsec
  OBVIOUS
<1> PICK sec, nsec : /\ sec = IF n.nsec + e >= nano THEN n.sec + q + 1 ELSE n.sec + q
                     /\ nsec = IF n.nsec + e >= nano THEN n.nsec + e - nano ELSE n.nsec + e
  OBVIOUS
<1>4. /\ sec \in Nat /\ nsec \in 0 .. nano - 1
  BY <1>1, <1>2
<1>5. t = sec * nano + nsec
  <2>1. (n.sec + q) * nano = n.sec * nano + nano * q
    BY <1>1, <1>2
  <2>2. (n.sec + q + 1) * nano = n.sec * nano + nano * q + nano
    <3>1. \A x \in Nat : (x + 1) * nano = x * nano + nano
      OBVIOUS
    <3>2. n.sec + q \in Nat
      BY <1>1, <1>2
    <3> QED
      BY <2>1, <3>1, <3>2
  <2>3. n.sec * nano \in Nat /\ nano * q \in Nat
    BY <1>1, <1>2
  <2> QED
    BY <1>1, <1>2, <2>1, <2>2, <2>3
<1>6. t \div nano = sec /\ t >= 0 /\ t - nano * sec = nsec
  <2>1. sec * nano \in Nat /\ sec * nano = nano * sec
    BY <1>4
  <2> QED
    BY <1>4, <1>5, <2>1, Quotient
<1>7. Lck!Quot(t, nano) = sec /\ Lck!Rem(t, nano) = nsec
  BY <1>6 DEF Lck!Quot, Lck!Rem
<1>8. Lck!waitUntil(n, r) = [sec |-> sec, nsec |-> nsec]
  BY <1>2, <1>3 DEF Lck!waitUntil
<1>9. t < Limit => Lck!timedLock(n, r) = [sec |-> sec, nsec |-> nsec]
  BY <1>7 DEF Lck!timedLock, Lck!Nsecs
<1>10. sec * nano + nsec = n.sec * nano + n.nsec + r /\ t = n.sec * nano + n.nsec + r
  <2>1. n.sec * nano \in Nat
    BY <1>2
  <2> QED
    BY <1>2, <1>5, <2>1
<1> QED
  BY <1>4, <1>8, <1>9, <1>10

(* A timeout is taken into the parts it was made of.                       *)
LEMMA TakenApart ==
  ASSUME NEW s \in Nat, NEW ms \in 0 .. K - 1, NEW us \in 0 .. K - 1, NEW ns \in 0 .. K - 1
  PROVE  LET r == Lck!Timeout_ns(s, ms, us, ns)
             left == r - Lck!seconds_to_nanoseconds(Lck!nanoseconds_to_seconds(r))
         IN  /\ Lck!nanoseconds_to_seconds(r) = s
             /\ Lck!nanoseconds_to_milliseconds(left) = ms
             /\ Lck!nanoseconds_to_microseconds(left) = ms * K + us
<1> PICK k : k = K
  OBVIOUS
<1> PICK kk : kk = k * k
  OBVIOUS
<1> PICK nano : nano = kk * k
  OBVIOUS
<1>0. k \in Nat \ {0} /\ kk \in Nat \ {0} /\ nano \in Nat \ {0}
  BY LocksAssumption
<1> PICK low : low = us * k + ns
  OBVIOUS
<1> PICK rest : rest = ms * kk + low
  OBVIOUS
<1>1. low \in 0 .. kk - 1
  BY <1>0, Digits
<1>2. rest \in 0 .. nano - 1
  <2>1. rest \in 0 .. k * kk - 1
    BY <1>0, <1>1, Digits
  <2>2. k * kk = nano
    BY <1>0
  <2> QED
    BY <2>1, <2>2
<1>3. rest \div kk = ms
  BY <1>0, <1>1, Quotient
<1>4. rest \div k = ms * k + us
  <2>1. ms * k + us \in Nat
    BY <1>0
  <2>2. (ms * k + us) * k + ns = rest
    <3>1. (ms * k + us) * k = ms * kk + us * k
      BY <1>0
    <3> QED
      BY <3>1, <1>0
  <2> QED
    BY <2>1, <2>2, <1>0, Quotient
<1> PICK r : r = s * nano + rest
  OBVIOUS
<1>5. r \div nano = s /\ r >= 0 /\ r - s * nano = rest
  <2>1. s * nano \in Nat
    BY <1>0
  <2> QED
    BY <1>0, <1>2, <2>1, Quotient
<1>6. Lck!NS = nano /\ K = k /\ K * K = kk
  BY <1>0 DEF Lck!NS
<1>7. Lck!Timeout_ns(s, ms, us, ns) = r
  <2>1. Lck!Timeout_ns(s, ms, us, ns) = s * nano + ms * kk + us * k + ns
    BY <1>6 DEF Lck!Timeout_ns, Lck!seconds_to_nanoseconds, Lck!milliseconds_to_nanoseconds,
                Lck!microseconds_to_nanoseconds
  <2>2. s * nano \in Nat /\ ms * kk \in Nat /\ us * k \in Nat
    BY <1>0
  <2> QED
    BY <2>1, <2>2
<1>8. Lck!nanoseconds_to_seconds(r) = s
  BY <1>5, <1>6 DEF Lck!nanoseconds_to_seconds, Lck!Quot
<1>9. r - Lck!seconds_to_nanoseconds(s) = rest
  BY <1>5, <1>6 DEF Lck!seconds_to_nanoseconds
<1>10. Lck!nanoseconds_to_milliseconds(rest) = ms
  BY <1>2, <1>3, <1>6 DEF Lck!nanoseconds_to_milliseconds, Lck!Quot
<1>11. Lck!nanoseconds_to_microseconds(rest) = ms * k + us
  BY <1>2, <1>4, <1>6 DEF Lck!nanoseconds_to_microseconds, Lck!Quot
<1> QED
  BY <1>6, <1>7, <1>8, <1>9, <1>10, <1>11

-----------------------------------------------------------------------------
(* Labels of the three uses of locks.                                      *)
SingletonAt == {"have lock", "construct", "publish", "unlock"}
ReadAt == {"read first", "read second"}
WriteAt == {"write first", "write second"}
LookAt == {"consume", "consume timed", "last look"}
ProduceAt == {"produce one", "produce many", "done"}
WaitAt == {"waiting", "waiting timed"}
WokenAt == {"woken", "woken timed", "timed out"}
Labels == {"idle", "rw unlock"} \cup SingletonAt \cup ReadAt \cup WriteAt
            \cup LookAt \cup ProduceAt \cup WaitAt \cup WokenAt

LockTypes ==
  /\ pc \in [Threads -> Labels] /\ got \in [Threads -> {NULL, 1}]
  /\ pair \in [{1, 2} -> {0, 1}] /\ copy \in [Threads -> [{1, 2} -> {0, 1}]]
  /\ mRWLock \in [readers : SUBSET Threads, writer : Threads \cup {NULL}]
  /\ mCond \in SUBSET Threads /\ items \in Nat
  /\ sInstance \in {NULL, 1} /\ made \in {0, 1}

(* sLock is held from getInstance to the return, and as long as there is   *)
(* no instance only its holder can have constructed one.                   *)
SingletonInv ==
  /\ \A t \in Threads : pc[t] \in SingletonAt => sLock = t
  /\ sInstance = 1 => made = 1
  /\ sLock = NULL /\ sInstance = NULL => made = 0
  /\ \A t \in Threads :
       /\ pc[t] = "have lock" /\ sInstance = NULL => made = 0
       /\ pc[t] = "construct" => made = 0 /\ sInstance = NULL
       /\ pc[t] = "publish" => got[t] = 1 /\ made = 1 /\ sInstance = NULL
       /\ pc[t] = "unlock" => got[t] = sInstance /\ sInstance # NULL

(* A writer is alone, and only between its two writes do the words of the  *)
(* pair differ.                                                            *)
WordsInv ==
  LET R == mRWLock.readers  W == mRWLock.writer
  IN  /\ R # {} => W = NULL
      /\ W # NULL => pc[W] \in WriteAt \cup {"rw unlock"}
      /\ W = NULL \/ pc[W] # "write second" => pair[1] = pair[2]
      /\ \A t \in Threads :
           /\ pc[t] \in ReadAt => t \in R
           /\ t \in R => pc[t] \in ReadAt \cup {"rw unlock"}
           /\ pc[t] \in WriteAt => W = t
           /\ pc[t] = "rw unlock" => t \in R \/ W = t
           /\ pc[t] = "read second" => copy[t][1] = pair[1]
           /\ pc[t] = "rw unlock" /\ t \in R => copy[t][1] = copy[t][2]

(* The threads that will look at the items before they wait.               *)
Looking == {t \in Threads : pc[t] \in LookAt \cup WokenAt}

(* A thread waits only when there is nothing, and whoever adds an item     *)
(* while a thread waits wakes one: there are never more items than threads *)
(* that will look, unless nobody waits.                                    *)
QueueInv ==
  /\ \A t \in Threads : pc[t] \in LookAt \cup ProduceAt => mMutex = t
  /\ \A t \in mCond : pc[t] \in WaitAt
  /\ mCond # {} => items <= Cardinality(Looking)

LockInv == LockTypes /\ SingletonInv /\ WordsInv /\ QueueInv /\ Lck!DeadlinesAgree

RWAt == ReadAt \cup WriteAt \cup {"rw unlock"}
QueueAt == LookAt \cup ProduceAt \cup WaitAt \cup WokenAt

(* Only t moves: from one of these labels to one of those.                 *)
Moves(t, from, to) == t \in Threads /\ pc[t] \in from /\ pc' \in [Threads -> Labels]
                        /\ pc'[t] \in to /\ \A u \in Threads \ {t} : pc'[u] = pc[u]

(* What a thread does elsewhere does not concern the singleton.            *)
LEMMA SingletonElsewhere ==
  ASSUME SingletonInv, UNCHANGED <<sLock, sInstance, made, got>>,
         \A u \in Threads : pc'[u] = pc[u] \/ pc'[u] \notin SingletonAt
  PROVE  SingletonInv'
  BY DEF SingletonInv, SingletonAt

(* The same for the pair of words.                                         *)
LEMMA WordsElsewhere ==
  ASSUME LockTypes, WordsInv, UNCHANGED <<mRWLock, pair, copy>>,
         \A u \in Threads : pc'[u] = pc[u] \/ (pc[u] \notin RWAt /\ pc'[u] \notin RWAt)
  PROVE  WordsInv'
  BY DEF LockTypes, WordsInv, RWAt, ReadAt, WriteAt

(* The same for the queue.                                                 *)
LEMMA QueueElsewhere ==
  ASSUME LockTypes, QueueInv, UNCHANGED <<mMutex, mCond, items>>,
         \A u \in Threads : pc'[u] = pc[u] \/ (pc[u] \notin QueueAt /\ pc'[u] \notin QueueAt)
  PROVE  QueueInv'
<1>1. Looking' = Looking
  BY DEF Looking, QueueAt
<1> QED
  BY <1>1 DEF LockTypes, QueueInv, QueueAt

-----------------------------------------------------------------------------
(* getInstance and what it does under sLock.                               *)
SingletonCall(t) ==
  \/ Lck!getInstance(t) \/ Lck!hasInstance(t) \/ Lck!LoadInstance(t) \/ Lck!NewInstance(t)
  \/ Lck!Publish(t) \/ Lck!UnlockSingleton(t)

(* The steps of getInstance keep the invariant.                            *)
LEMMA SingletonStep ==
  ASSUME LockTypes, SingletonInv, NEW t \in Threads, SingletonCall(t)
  PROVE  /\ SingletonInv' /\ got' \in [Threads -> {NULL, 1}]
         /\ sInstance' \in {NULL, 1} /\ made' \in {0, 1}
         /\ Moves(t, SingletonAt \cup {"idle"}, SingletonAt \cup {"idle"})
         /\ UNCHANGED <<mRWLock, pair, copy, mMutex, mCond, items, clock>>
<1> USE LocksAssumption DEF LockTypes, SingletonInv, SingletonAt, Moves, Labels, Lck!At, Lck!Goto,
                            Lck!rwlock, Lck!queue, Lck!fixed
<1>1. CASE Lck!getInstance(t)
  BY <1>1 DEF Lck!getInstance, Lck!Idle, Lck!Autolock, Lck!Mutex
<1>2. CASE Lck!hasInstance(t)
  BY <1>2 DEF Lck!hasInstance, Lck!Idle
<1>3. CASE Lck!LoadInstance(t)
  BY <1>3 DEF Lck!LoadInstance
<1>4. CASE Lck!NewInstance(t)
  <2>1. pc[t] = "construct" /\ made = 0 /\ sLock = t /\ sInstance = NULL
    BY <1>4 DEF Lck!NewInstance
  <2>2. /\ made' = 1 /\ got' = [got EXCEPT ![t] = 1] /\ pc' = [pc EXCEPT ![t] = "publish"]
        /\ UNCHANGED <<sLock, sInstance, mRWLock, pair, copy, mMutex, mCond, items, clock>>
    BY ONLY <1>4, <2>1 DEF Lck!NewInstance, Lck!Goto, Lck!rwlock, Lck!queue, Lck!fixed
  <2> QED
    BY <2>1, <2>2
<1>5. CASE Lck!Publish(t)
  BY <1>5 DEF Lck!Publish
<1>6. CASE Lck!UnlockSingleton(t)
  BY <1>6 DEF Lck!UnlockSingleton
<1> QED
  BY <1>1, <1>2, <1>3, <1>4, <1>5, <1>6 DEF SingletonCall

-----------------------------------------------------------------------------
(* Readers and writers of the pair.                                        *)
WordsCall(t) == Lck!readLock(t) \/ Lck!writeLock(t) \/ Lck!Access(t) \/ Lck!UnlockRW(t)

(* What reads and writes make of pairs.                                    *)
LEMMA PairUpdates ==
  ASSUME NEW p \in [{1, 2} -> {0, 1}], NEW c \in [{1, 2} -> {0, 1}]
  PROVE  /\ [c EXCEPT ![1] = p[1]] \in [{1, 2} -> {0, 1}] /\ [c EXCEPT ![1] = p[1]][1] = p[1]
         /\ [c EXCEPT ![2] = p[2]] \in [{1, 2} -> {0, 1}]
         /\ [c EXCEPT ![2] = p[2]][1] = c[1] /\ [c EXCEPT ![2] = p[2]][2] = p[2]
         /\ [p EXCEPT ![1] = 1 - p[1]] \in [{1, 2} -> {0, 1}]
         /\ [p EXCEPT ![2] = p[1]] \in [{1, 2} -> {0, 1}]
         /\ [p EXCEPT ![2] = p[1]][1] = [p EXCEPT ![2] = p[1]][2]
<1>1. 1 - p[1] \in {0, 1}
  <2>1. p[1] = 0 \/ p[1] = 1
    OBVIOUS
  <2> QED
    BY <2>1
<1> QED
  BY <1>1

(* The steps of readers and writers keep the invariant.                    *)
LEMMA WordsStep ==
  ASSUME LockTypes, WordsInv, NEW t \in Threads, WordsCall(t)
  PROVE  /\ WordsInv' /\ pair' \in [{1, 2} -> {0, 1}] /\ copy' \in [Threads -> [{1, 2} -> {0, 1}]]
         /\ mRWLock' \in [readers : SUBSET Threads, writer : Threads \cup {NULL}]
         /\ Moves(t, RWAt \cup {"idle"}, RWAt \cup {"idle"})
         /\ UNCHANGED <<sLock, sInstance, made, got, mMutex, mCond, items, clock>>
<1>0. /\ pair \in [{1, 2} -> {0, 1}] /\ copy \in [Threads -> [{1, 2} -> {0, 1}]]
      /\ t # NULL /\ (mRWLock.writer = t => mRWLock.readers = {})
      /\ pc[t] \in WriteAt => mRWLock.writer = t
  BY LocksAssumption DEF LockTypes, WordsInv
<1> USE LocksAssumption DEF LockTypes, WordsInv, RWAt, ReadAt, WriteAt, Moves, Labels,
                            Lck!At, Lck!Goto, Lck!singleton, Lck!queue, Lck!fixed
<1>1. CASE Lck!readLock(t)
  BY <1>1 DEF Lck!readLock, Lck!Idle
<1>2. CASE Lck!writeLock(t)
  BY <1>2, ZenonT(60) DEF Lck!writeLock, Lck!Idle, Lck!RWLock
<1>3. CASE Lck!Access(t)
  <2>0. UNCHANGED <<mRWLock, sLock, sInstance, made, got, mMutex, mCond, items, clock>>
    BY <1>3 DEF Lck!Access
  <2>1. CASE pc[t] = "read first"
    <3>1. copy' = [copy EXCEPT ![t] = [copy[t] EXCEPT ![1] = pair[1]]] /\ UNCHANGED pair
          /\ pc' = [pc EXCEPT ![t] = "read second"]
      BY <1>3, <2>1 DEF Lck!Access
    <3>2. copy' \in [Threads -> [{1, 2} -> {0, 1}]] /\ copy'[t][1] = pair[1]
      BY ONLY <1>0, <3>1, t \in Threads, PairUpdates
    <3> QED
      BY <2>0, <2>1, <3>1, <3>2
  <2>2. CASE pc[t] = "read second"
    <3>1. copy' = [copy EXCEPT ![t] = [copy[t] EXCEPT ![2] = pair[2]]] /\ UNCHANGED pair
          /\ pc' = [pc EXCEPT ![t] = "rw unlock"]
      BY <1>3, <2>2 DEF Lck!Access
    <3>2. /\ copy' \in [Threads -> [{1, 2} -> {0, 1}]]
          /\ copy'[t][1] = copy[t][1] /\ copy'[t][2] = pair[2]
      BY ONLY <1>0, <3>1, t \in Threads, PairUpdates
    <3>3. t \in mRWLock.readers /\ mRWLock.writer = NULL /\ pair[1] = pair[2]
      BY <2>2
    <3> QED
      BY <2>0, <2>2, <3>1, <3>2, <3>3, ZenonT(60)
  <2>3. CASE pc[t] = "write first"
    <3>1. pair' = [pair EXCEPT ![1] = 1 - pair[1]] /\ UNCHANGED copy
          /\ pc' = [pc EXCEPT ![t] = "write second"]
      BY <1>3, <2>3 DEF Lck!Access
    <3>2. pair' \in [{1, 2} -> {0, 1}]
      BY ONLY <1>0, <3>1, PairUpdates
    <3>3. mRWLock.writer = t /\ mRWLock.readers = {} /\ t # NULL
      BY ONLY <1>0, <2>3 DEF WriteAt
    <3> QED
      BY <2>0, <2>3, <3>1, <3>2, <3>3
  <2>4. CASE pc[t] = "write second"
    <3>1. pair' = [pair EXCEPT ![2] = pair[1]] /\ UNCHANGED copy
          /\ pc' = [pc EXCEPT ![t] = "rw unlock"]
      BY <1>3, <2>4 DEF Lck!Access
    <3>2. pair' \in [{1, 2} -> {0, 1}] /\ pair'[1] = pair'[2]
      BY ONLY <1>0, <3>1, PairUpdates
    <3>3. mRWLock.writer = t /\ mRWLock.readers = {} /\ t # NULL
      BY ONLY <1>0, <2>4 DEF WriteAt
    <3> QED
      BY <2>0, <2>4, <3>1, <3>2, <3>3
  <2> QED
    BY <1>3, <2>1, <2>2, <2>3, <2>4 DEF Lck!Access
<1>4. CASE Lck!UnlockRW(t)
  BY <1>4 DEF Lck!UnlockRW
<1> QED
  BY <1>1, <1>2, <1>3, <1>4 DEF WordsCall

-----------------------------------------------------------------------------
(* Consumers and producers of items.                                       *)
QueueCall(t) ==
  \/ Lck!lock(t) \/ Lck!tryLock(t) \/ Lck!unlock(t) \/ Lck!Consume(t) \/ Lck!GiveUp(t)
  \/ Lck!wait(t) \/ Lck!waitRelative(t) \/ Lck!Timeout(t) \/ Lck!Spurious(t) \/ Lck!signal(t) \/ Lck!broadcast(t)
  \/ Lck!NoRoom(t)

(* Calls that wake nobody move only the thread that makes them.            *)
LEMMA QueueMoves ==
  ASSUME NEW t \in Threads, QueueCall(t), ~Lck!signal(t), ~Lck!broadcast(t)
  PROVE  /\ pc[t] \in QueueAt \cup {"idle"}
         /\ \E l \in QueueAt \cup {"idle"} : pc' = [pc EXCEPT ![t] = l]
  BY DEF QueueCall, QueueAt, LookAt, ProduceAt, WaitAt, WokenAt, Lck!At, Lck!Goto, Lck!Idle,
         Lck!lock, Lck!tryLock, Lck!unlock, Lck!GiveUp, Lck!NoRoom, Lck!Consume,
         Lck!wait, Lck!waitRelative, Lck!Timeout, Lck!Spurious

(* signal and broadcast move threads that wait, too.                       *)
LEMMA WakeMoves ==
  ASSUME LockTypes, QueueInv, NEW t \in Threads, Lck!signal(t) \/ Lck!broadcast(t)
  PROVE  /\ pc[t] \in {"produce one", "produce many"}
         /\ mCond' \in SUBSET mCond /\ t \notin mCond /\ items' \in Nat
         /\ pc' = [u \in Threads |-> IF u \in mCond \ mCond'
                                       THEN (IF pc[u] = "waiting" THEN "woken" ELSE "woken timed")
                                       ELSE IF u = t THEN "done" ELSE pc[u]]
         /\ UNCHANGED mMutex
<1>1. pc[t] \in {"produce one", "produce many"} /\ t \notin mCond /\ mCond \in SUBSET Threads
  BY DEF Lck!signal, Lck!broadcast, Lck!At, LockTypes, QueueInv, WaitAt
<1>2. items' \in Nat
  <2>1. items' = items + 1 \/ items' = MaxItems
    BY DEF Lck!signal, Lck!broadcast
  <2> QED
    BY <2>1, LocksAssumption DEF LockTypes
<1>3. PICK S \in SUBSET mCond : Lck!Wake(t, S)
  BY DEF Lck!signal, Lck!broadcast
<1>4. S = mCond \ mCond' /\ mCond' \in SUBSET mCond
  BY <1>3 DEF Lck!Wake
<1> QED
  BY <1>1, <1>2, <1>3, <1>4 DEF Lck!Wake

(* What a step of the queue leaves alone, and where it leads.              *)
LEMMA QueueFrame ==
  ASSUME LockTypes, QueueInv, NEW t \in Threads, QueueCall(t)
  PROVE  /\ pc' \in [Threads -> Labels] /\ mCond' \in SUBSET Threads /\ items' \in Nat
         /\ \A u \in Threads : \/ pc'[u] = pc[u]
                               \/ /\ pc[u] \in QueueAt \cup {"idle"}
                                  /\ pc'[u] \in QueueAt \cup {"idle"}
         /\ UNCHANGED <<sLock, sInstance, made, got, mRWLock, pair, copy, clock>>
<1>0. /\ pc \in [Threads -> Labels] /\ mCond \in SUBSET Threads /\ items \in Nat
      /\ \A u \in mCond : pc[u] \in WaitAt
      /\ QueueAt \cup {"idle"} \subseteq Labels
  BY DEF LockTypes, QueueInv, QueueAt, Labels
<1>1. UNCHANGED <<sLock, sInstance, made, got, mRWLock, pair, copy, clock>>
  BY DEF QueueCall, Lck!lock, Lck!tryLock, Lck!unlock, Lck!GiveUp, Lck!NoRoom, Lck!Consume,
         Lck!wait, Lck!waitRelative, Lck!Timeout, Lck!Spurious, Lck!signal, Lck!broadcast, Lck!Wake,
         Lck!singleton, Lck!rwlock, Lck!fixed
<1>2. CASE Lck!signal(t) \/ Lck!broadcast(t)
  BY <1>0, <1>1, <1>2, WakeMoves DEF QueueAt, ProduceAt, WaitAt, WokenAt
<1>3. CASE ~Lck!signal(t) /\ ~Lck!broadcast(t)
  <2>1. mCond' \in SUBSET Threads
    BY <1>0, <1>3 DEF QueueCall, Lck!lock, Lck!tryLock, Lck!unlock, Lck!GiveUp, Lck!NoRoom,
         Lck!Consume, Lck!wait, Lck!waitRelative, Lck!Timeout, Lck!Spurious, Lck!queue
  <2>2. items' \in Nat
    <3>1. items' = items \/ (items > 0 /\ items' = items - 1)
      BY <1>3 DEF QueueCall, Lck!lock, Lck!tryLock, Lck!unlock, Lck!GiveUp, Lck!NoRoom,
           Lck!Consume, Lck!wait, Lck!waitRelative, Lck!Timeout, Lck!Spurious, Lck!queue
    <3> QED
      BY <1>0, <3>1
  <2>3. /\ pc[t] \in QueueAt \cup {"idle"}
        /\ \E l \in QueueAt \cup {"idle"} : pc' = [pc EXCEPT ![t] = l]
    BY <1>3, QueueMoves
  <2> QED
    BY <1>0, <1>1, <2>1, <2>2, <2>3
<1> QED
  BY <1>2, <1>3

(* One thread more or one less that will look.                             *)
LEMMA LookingCount ==
  ASSUME NEW t \in Threads
  PROVE  /\ Cardinality(Looking) \in Nat
         /\ Looking' = Looking => Cardinality(Looking') = Cardinality(Looking)
         /\ (t \notin Looking /\ Looking' = Looking \cup {t}) =>
              Cardinality(Looking') = Cardinality(Looking) + 1
         /\ (t \in Looking /\ Looking' = Looking \ {t}) =>
              Cardinality(Looking') = Cardinality(Looking) - 1
<1>1. Looking \in SUBSET Threads /\ IsFiniteSet(Looking)
  BY LocksAssumption, FS_Subset DEF Looking
<1> QED
  BY <1>1, FS_CardinalityType, FS_AddElement, FS_RemoveElement

(* The steps of consumers and producers keep the invariant.                *)
LEMMA QueueStep ==
  ASSUME LockTypes, QueueInv, NEW t \in Threads, QueueCall(t)
  PROVE  QueueInv'
<1>0. /\ pc \in [Threads -> Labels] /\ mCond \in SUBSET Threads /\ items \in Nat
      /\ Cardinality(Looking) \in Nat /\ Cardinality(Looking') \in Nat /\ t # NULL
      /\ \A u \in mCond : pc[u] \in WaitAt
      /\ \A u \in Threads : pc[u] \in LookAt \cup ProduceAt => mMutex = u
      /\ mCond # {} => items <= Cardinality(Looking)
      /\ items' \in Nat
  <2>1. Looking' \in SUBSET Threads
    BY DEF Looking
  <2>2. Cardinality(Looking') \in Nat
    BY <2>1, LocksAssumption, FS_Subset, FS_CardinalityType
  <2> QED
    BY <2>2, LocksAssumption, LookingCount, QueueFrame DEF LockTypes, QueueInv
<1>1. CASE Lck!lock(t) \/ Lck!tryLock(t)
  <2>1. /\ mMutex = NULL /\ mMutex' = t /\ UNCHANGED <<mCond, items>> /\ pc[t] \notin WaitAt
        /\ \E l \in LookAt \cup ProduceAt : pc' = [pc EXCEPT ![t] = l]
        /\ pc[t] \in WokenAt => \E l \in LookAt : pc' = [pc EXCEPT ![t] = l]
    BY <1>1 DEF Lck!lock, Lck!tryLock, Lck!Idle, Lck!At, Lck!Goto, LookAt, ProduceAt, WaitAt, WokenAt
  <2>2. Looking \subseteq Looking'
    BY <2>1, <1>0 DEF Looking
  <2>3. Looking' = Looking \/ (t \notin Looking /\ Looking' = Looking \cup {t})
    BY <2>1, <2>2, <1>0 DEF Looking
  <2>4. Cardinality(Looking) <= Cardinality(Looking')
    BY <2>3, <1>0, LookingCount
  <2>5. /\ \A u \in Threads : pc'[u] \in LookAt \cup ProduceAt => mMutex' = u
        /\ \A u \in mCond' : pc'[u] \in WaitAt
    BY <2>1, <1>0, LocksAssumption
  <2> QED
    BY <2>1, <2>4, <2>5, <1>0 DEF QueueInv
<1>2. CASE Lck!unlock(t) \/ Lck!NoRoom(t)
  <2>1. /\ pc[t] \in ProduceAt /\ UNCHANGED <<mCond, items>>
        /\ \/ mMutex' = NULL /\ pc' = [pc EXCEPT ![t] = "idle"]
           \/ mMutex' = mMutex /\ pc' = [pc EXCEPT ![t] = "done"]
    BY <1>2 DEF Lck!unlock, Lck!NoRoom, Lck!At, Lck!Goto, Lck!queue, ProduceAt
  <2>2. Looking' = Looking
    BY <2>1, <1>0 DEF Looking, LookAt, ProduceAt, WokenAt
  <2>3. /\ \A u \in Threads : pc'[u] \in LookAt \cup ProduceAt => mMutex' = u
        /\ \A u \in mCond' : pc'[u] \in WaitAt
    BY <2>1, <1>0 DEF LookAt, ProduceAt, WaitAt
  <2> QED
    BY <2>1, <2>2, <2>3, <1>0 DEF QueueInv
<1>3. CASE Lck!Consume(t)
  <2>1. /\ pc[t] \in LookAt /\ pc' = [pc EXCEPT ![t] = "done"]
        /\ items > 0 /\ items' = items - 1 /\ UNCHANGED <<mMutex, mCond>>
    BY <1>3 DEF Lck!Consume, Lck!At, Lck!Goto, LookAt
  <2>2. t \in Looking /\ Looking' = Looking \ {t}
    BY <2>1, <1>0 DEF Looking, LookAt, WokenAt
  <2>3. Cardinality(Looking') = Cardinality(Looking) - 1
    BY <2>2, LookingCount
  <2>4. /\ \A u \in Threads : pc'[u] \in LookAt \cup ProduceAt => mMutex' = u
        /\ \A u \in mCond' : pc'[u] \in WaitAt
    BY <2>1, <1>0 DEF LookAt, ProduceAt, WaitAt
  <2>5. mCond' # {} => items' <= Cardinality(Looking')
    BY <2>1, <2>3, <1>0
  <2> QED
    BY <2>4, <2>5 DEF QueueInv
<1>4. CASE Lck!GiveUp(t)
  <2>1. /\ pc[t] \in LookAt /\ pc' = [pc EXCEPT ![t] = "done"]
        /\ items = 0 /\ UNCHANGED <<mMutex, mCond, items>>
    BY <1>4 DEF Lck!GiveUp, Lck!At, Lck!Goto, Lck!queue, LookAt
  <2>2. /\ \A u \in Threads : pc'[u] \in LookAt \cup ProduceAt => mMutex' = u
        /\ \A u \in mCond' : pc'[u] \in WaitAt
    BY <2>1, <1>0 DEF LookAt, ProduceAt, WaitAt
  <2> QED
    BY <2>1, <2>2, <1>0 DEF QueueInv
<1>5. CASE Lck!wait(t) \/ Lck!waitRelative(t)
  <2>1. /\ pc[t] \in LookAt /\ \E l \in WaitAt : pc' = [pc EXCEPT ![t] = l]
        /\ items = 0 /\ UNCHANGED items /\ mCond' = mCond \cup {t}
    BY <1>5 DEF Lck!wait, Lck!waitRelative, Lck!At, Lck!Goto, LookAt, WaitAt
  <2>2. mMutex = t
    BY <2>1, <1>0
  <2>3. /\ \A u \in Threads : pc'[u] \in LookAt \cup ProduceAt => mMutex' = u
        /\ \A u \in mCond' : pc'[u] \in WaitAt
    BY <2>1, <2>2, <1>0 DEF LookAt, ProduceAt, WaitAt
  <2> QED
    BY <2>1, <2>3, <1>0 DEF QueueInv
<1>6. CASE Lck!Timeout(t) \/ Lck!Spurious(t)
  <2>1. /\ pc[t] \in {"waiting", "waiting timed", "woken timed"}
        /\ \E l \in {"woken", "woken timed", "timed out"} : pc' = [pc EXCEPT ![t] = l]
        /\ mCond' = mCond \ {t} /\ UNCHANGED <<mMutex, items>>
    BY <1>6 DEF Lck!Timeout, Lck!Spurious, Lck!At, Lck!Goto
  <2>2. Looking' = Looking \/ (t \notin Looking /\ Looking' = Looking \cup {t})
    BY <2>1, <1>0 DEF Looking, LookAt, WokenAt
  <2>3. Cardinality(Looking) <= Cardinality(Looking')
    BY <2>2, <1>0, LookingCount
  <2>4. /\ \A u \in Threads : pc'[u] \in LookAt \cup ProduceAt => mMutex' = u
        /\ \A u \in mCond' : pc'[u] \in WaitAt
    BY <2>1, <1>0 DEF LookAt, ProduceAt, WaitAt
  <2>5. mCond' # {} => items' <= Cardinality(Looking')
    <3>1. mCond' # {} => items <= Cardinality(Looking)
      BY <2>1, <1>0
    <3>2. items' = items
      BY <2>1
    <3> QED
      BY ONLY <2>3, <3>1, <3>2, <1>0
  <2> QED
    BY <2>4, <2>5 DEF QueueInv
<1>7. CASE Lck!signal(t) \/ Lck!broadcast(t)
  <2>1. /\ pc[t] \in ProduceAt /\ mCond' \in SUBSET mCond /\ t \notin mCond /\ UNCHANGED mMutex
        /\ pc' = [u \in Threads |-> IF u \in mCond \ mCond'
                                      THEN (IF pc[u] = "waiting" THEN "woken" ELSE "woken timed")
                                      ELSE IF u = t THEN "done" ELSE pc[u]]
    BY <1>7, WakeMoves DEF ProduceAt
  <2>2. /\ \A u \in Threads : pc'[u] \in LookAt \cup ProduceAt => mMutex' = u
        /\ \A u \in mCond' : pc'[u] \in WaitAt
    BY <2>1, <1>0 DEF LookAt, ProduceAt, WaitAt
  <2>3. ASSUME mCond' # {} PROVE items' <= Cardinality(Looking')
    <3>1. PICK w \in mCond : mCond' = mCond \ {w} /\ items' = items + 1
      BY <1>7, <2>3 DEF Lck!signal, Lck!broadcast, Lck!Wake
    <3>2. w \in Threads /\ w \notin Looking /\ Looking' = Looking \cup {w}
      BY <2>1, <3>1, <1>0 DEF Looking, LookAt, ProduceAt, WaitAt, WokenAt
    <3>3. Cardinality(Looking') = Cardinality(Looking) + 1
      BY <3>2, LookingCount
    <3> QED
      BY <3>1, <3>3, <1>0
  <2> QED
    BY <2>2, <2>3 DEF QueueInv
<1> QED
  BY <1>1, <1>2, <1>3, <1>4, <1>5, <1>6, <1>7 DEF QueueCall

-----------------------------------------------------------------------------
(* Measuring makes times that agree.                                       *)
LEMMA MeasureStep ==
  ASSUME Lck!Measure
  PROVE  Lck!DeadlinesAgree'
<1>0. K \in Nat \ {0} /\ Lck!NS \in Nat \ {0}
  BY LocksAssumption DEF Lck!NS
<1>1. PICK n \in [sec : 1 .. 3, nsec : 0 .. Lck!NS - 1],
           g \in [s : 0 .. 2, ms : 0 .. K, us : 0 .. K, ns : 0 .. K] :
        clock' = [now |-> n, given |-> g, rel |-> Lck!Timeout_ns(g.s, g.ms, g.us, g.ns),
                  wait |-> Lck!waitUntil(n, Lck!Timeout_ns(g.s, g.ms, g.us, g.ns)),
                  lock |-> Lck!timedLock(n, Lck!Timeout_ns(g.s, g.ms, g.us, g.ns))]
  BY DEF Lck!Measure
<1> DEFINE r == Lck!Timeout_ns(g.s, g.ms, g.us, g.ns)
<1>2. r \in Nat
  <2>1. K * K \in Nat /\ g.s \in Nat /\ g.ms \in Nat /\ g.us \in Nat /\ g.ns \in Nat
    BY <1>0, <1>1
  <2>2. g.s * Lck!NS \in Nat /\ g.ms * (K * K) \in Nat /\ g.us * K \in Nat
    BY <1>0, <2>1
  <2> QED
    BY <2>1, <2>2 DEF Lck!Timeout_ns, Lck!seconds_to_nanoseconds, Lck!milliseconds_to_nanoseconds,
                      Lck!microseconds_to_nanoseconds
<1>3. n \in [sec : Nat, nsec : 0 .. Lck!NS - 1]
  BY <1>0, <1>1
<1> PICK nano : nano = Lck!NS
  OBVIOUS
<1> HIDE DEF r
<1>4. /\ n.sec * nano + n.nsec + r < Limit => Lck!timedLock(n, r) = Lck!waitUntil(n, r)
      /\ Lck!waitUntil(n, r).nsec \in 0 .. nano - 1
      /\ Lck!waitUntil(n, r).sec * nano + Lck!waitUntil(n, r).nsec = n.sec * nano + n.nsec + r
  BY <1>0, <1>2, <1>3, Deadlines
<1>5. (g.ms < K /\ g.us < K /\ g.ns < K) =>
         LET left == r - Lck!seconds_to_nanoseconds(Lck!nanoseconds_to_seconds(r))
         IN  /\ Lck!nanoseconds_to_seconds(r) = g.s
             /\ Lck!nanoseconds_to_milliseconds(left) = g.ms
             /\ Lck!nanoseconds_to_microseconds(left) = g.ms * K + g.us
  <2>1. SUFFICES ASSUME g.ms < K, g.us < K, g.ns < K
                 PROVE  LET left == r - Lck!seconds_to_nanoseconds(Lck!nanoseconds_to_seconds(r))
                        IN  /\ Lck!nanoseconds_to_seconds(r) = g.s
                            /\ Lck!nanoseconds_to_milliseconds(left) = g.ms
                            /\ Lck!nanoseconds_to_microseconds(left) = g.ms * K + g.us
    OBVIOUS
  <2>2. g.s \in Nat /\ g.ms \in 0 .. K - 1 /\ g.us \in 0 .. K - 1 /\ g.ns \in 0 .. K - 1
    BY <1>0, <1>1, <2>1
  <2> QED
    BY <2>2, TakenApart DEF r
<1>6. /\ clock'.now = n /\ clock'.given = g /\ clock'.rel = r
      /\ clock'.wait = Lck!waitUntil(n, r) /\ clock'.lock = Lck!timedLock(n, r)
  BY <1>1 DEF r
<1> QED
  BY <1>4, <1>5, <1>6 DEF Lck!DeadlinesAgree

(* The invariant of the locks holds at first.                              *)
LEMMA LockInit == Init => LockInv
<1> SUFFICES ASSUME Init PROVE LockInv
  OBVIOUS
<1>1. Lck!Init
  BY DEF Init
<1>2. <<0, 0>> \in [{1, 2} -> {0, 1}] /\ <<0, 0>>[1] = <<0, 0>>[2]
  OBVIOUS
<1>3. LockTypes
  BY <1>1, <1>2 DEF Lck!Init, Lck!RWLock, Lck!Condition, LockTypes, Labels
<1>4. SingletonInv
  BY <1>1, LocksAssumption DEF Lck!Init, Lck!Mutex, SingletonInv, SingletonAt
<1>5. WordsInv
  BY <1>1, <1>2 DEF Lck!Init, Lck!RWLock, WordsInv, ReadAt, WriteAt
<1>6. QueueInv
  BY <1>1 DEF Lck!Init, Lck!Condition, QueueInv, LookAt, ProduceAt
<1>7. Lck!DeadlinesAgree
  BY <1>1 DEF Lck!Init, Lck!DeadlinesAgree
<1> QED
  BY <1>3, <1>4, <1>5, <1>6, <1>7 DEF LockInv

(* The invariant of the locks is inductive.                                *)
LEMMA LockStepKeeps == LockInv /\ [Lck!Next]_lockVars => LockInv'
<1> SUFFICES ASSUME LockInv, [Lck!Next]_lockVars PROVE LockInv'
  OBVIOUS
<1> USE DEF LockInv
<1>0. /\ SingletonAt \cap (RWAt \cup QueueAt \cup {"idle"}) = {}
      /\ RWAt \cap (SingletonAt \cup QueueAt \cup {"idle"}) = {}
      /\ QueueAt \cap (SingletonAt \cup RWAt \cup {"idle"}) = {}
  BY DEF SingletonAt, RWAt, QueueAt, ReadAt, WriteAt, LookAt, ProduceAt, WaitAt, WokenAt
<1>1. ASSUME NEW t \in Threads, SingletonCall(t) PROVE LockInv'
  <2>1. /\ SingletonInv' /\ Moves(t, SingletonAt \cup {"idle"}, SingletonAt \cup {"idle"})
        /\ UNCHANGED <<mRWLock, pair, copy, mMutex, mCond, items, clock>>
    BY <1>1, SingletonStep
  <2>2. LockTypes'
    BY <1>1, SingletonStep DEF LockTypes, Moves
  <2>3. WordsInv' /\ QueueInv'
    BY <2>1, <1>0, WordsElsewhere, QueueElsewhere DEF Moves
  <2>4. Lck!DeadlinesAgree'
    BY <2>1 DEF Lck!DeadlinesAgree
  <2> QED
    BY <2>1, <2>2, <2>3, <2>4
<1>2. ASSUME NEW t \in Threads, WordsCall(t) PROVE LockInv'
  <2>1. /\ WordsInv' /\ Moves(t, RWAt \cup {"idle"}, RWAt \cup {"idle"})
        /\ UNCHANGED <<sLock, sInstance, made, got, mMutex, mCond, items, clock>>
    BY <1>2, WordsStep
  <2>2. LockTypes'
    BY <1>2, WordsStep DEF LockTypes, Moves
  <2>3. SingletonInv' /\ QueueInv'
    BY <2>1, <1>0, SingletonElsewhere, QueueElsewhere DEF Moves
  <2>4. Lck!DeadlinesAgree'
    BY <2>1 DEF Lck!DeadlinesAgree
  <2> QED
    BY <2>1, <2>2, <2>3, <2>4
<1>3. ASSUME NEW t \in Threads, QueueCall(t) PROVE LockInv'
  <2>1. /\ \A u \in Threads : \/ pc'[u] = pc[u]
                              \/ /\ pc[u] \in QueueAt \cup {"idle"}
                                 /\ pc'[u] \in QueueAt \cup {"idle"}
        /\ UNCHANGED <<sLock, sInstance, made, got, mRWLock, pair, copy, clock>>
    BY <1>3, QueueFrame
  <2>2. LockTypes'
    BY <1>3, QueueFrame DEF LockTypes
  <2>3. QueueInv'
    BY <1>3, QueueStep
  <2>4. SingletonInv' /\ WordsInv'
    BY <2>1, <1>0, SingletonElsewhere, WordsElsewhere
  <2>5. Lck!DeadlinesAgree'
    BY <2>1 DEF Lck!DeadlinesAgree
  <2> QED
    BY <2>2, <2>3, <2>4, <2>5
<1>4. CASE Lck!Measure
  <2>1. UNCHANGED <<pc, sLock, sInstance, made, got, mRWLock, pair, copy, mMutex, mCond, items>>
    BY <1>4 DEF Lck!Measure, Lck!singleton, Lck!rwlock, Lck!queue
  <2>2. LockTypes'
    BY <2>1 DEF LockTypes
  <2>3. SingletonInv' /\ WordsInv' /\ QueueInv'
    BY <2>1, SingletonElsewhere, WordsElsewhere, QueueElsewhere
  <2> QED
    BY <1>4, <2>2, <2>3, MeasureStep
<1>5. CASE UNCHANGED lockVars
  <2>1. LockTypes'
    BY <1>5 DEF lockVars, LockTypes
  <2>2. SingletonInv' /\ WordsInv' /\ QueueInv'
    BY <1>5, SingletonElsewhere, WordsElsewhere, QueueElsewhere DEF lockVars
  <2>3. Lck!DeadlinesAgree'
    BY <1>5 DEF lockVars, Lck!DeadlinesAgree
  <2> QED
    BY <2>1, <2>2, <2>3
<1> QED
  BY <1>1, <1>2, <1>3, <1>4, <1>5 DEF Lck!Next, Lck!Step, SingletonCall, WordsCall, QueueCall

(* Locking is right for every number of threads: no second instance, no    *)
(* torn pair, no lost wake-up, no wrong deadline.                          *)
THEOREM LocksAreRight == Spec => []LockingIsRight
<1>1. [Next]_vars => [Lck!Next]_lockVars
  BY DEF Next, LockStep, PointerStep, AtomicStep, TraceStep, OrderStep, vars
<1>2. LockInv => LockingIsRight
  <2> SUFFICES ASSUME LockInv PROVE LockingIsRight
    OBVIOUS
  <2>1. Lck!OneInstance
    <3>1. made <= 1
      BY DEF LockInv, LockTypes
    <3> QED
      BY <3>1 DEF LockInv, SingletonInv, Lck!OneInstance, Lck!At
  <2>2. Lck!ReadersSeeOnePair
    BY DEF LockInv, WordsInv, Lck!ReadersSeeOnePair, Lck!At
  <2>3. Lck!NoLostWakeup
    <3> SUFFICES ASSUME items > 0, mCond # {}, mMutex = NULL
                 PROVE  \E t \in Threads : pc[t] \in WokenAt
      BY DEF Lck!NoLostWakeup, WokenAt
    <3>1. items <= Cardinality(Looking) /\ items \in Nat
      BY DEF LockInv, LockTypes, QueueInv
    <3>2. Looking # {}
      BY <3>1, FS_EmptySet
    <3> QED
      BY <3>2, LocksAssumption DEF Looking, LockInv, QueueInv
  <2> QED
    BY <2>1, <2>2, <2>3 DEF LockInv, LockingIsRight
<1> QED
  BY <1>1, <1>2, LockInit, LockStepKeeps, PTL DEF Spec

=============================================================================
