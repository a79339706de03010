------------------------------ MODULE Atomics -------------------------------
(***************************************************************************)
(* cutils/atomic.h, and what its comments say the operations are for:      *)
(* counting references, publishing data with a count, the "simple lock",   *)
(* a bit that one thread owns, and two threads that announce themselves    *)
(* before they look at each other.  Data are plain variables.              *)
(***************************************************************************)
EXTENDS WeakMemory, FiniteSets

CONSTANTS Threads,  \* numbers, from 1 on
          Rounds    \* how often a thread takes the lock

VARIABLES use,   \* what the threads are at
          step,  \* of a thread: its next step
          m,     \* the memory
          val    \* of a thread: what it has read
atomicVars == <<use, step, m, val>>

(* The operations: the memory, and the result for those that have one.  A  *)
(* word that is a mask is the set of its bits.                             *)
android_atomic_add(x, t, value, a) == [m |-> rmw(x, t, a, last(x, a) + value, "release"), val |-> last(x, a)]
android_atomic_inc(x, t, a) == android_atomic_add(x, t, 1, a)
android_atomic_dec(x, t, a) == android_atomic_add(x, t, -1, a)
android_atomic_and(x, t, value, a) == [m |-> rmw(x, t, a, last(x, a) \cap value, "release"), val |-> last(x, a)]
android_atomic_or(x, t, value, a) == [m |-> rmw(x, t, a, last(x, a) \cup value, "release"), val |-> last(x, a)]

android_atomic_acquire_load(x, t, a) == loads(x, t, a, "acquire")
android_atomic_release_load(x, t, a) == loads(fence(x, t), t, a, "relaxed")
android_atomic_acquire_store(x, t, value, a) == fence(store(x, t, a, value, "relaxed"), t)
android_atomic_release_store(x, t, value, a) == store(x, t, a, value, "release")

(* 0 when the new value was stored.  A failing cas is a load of the last.  *)
cas(x, t, old, new, a, yes, no) ==
  IF last(x, a) = old THEN [m |-> rmw(x, t, a, new, yes), val |-> 0]
  ELSE [m |-> Learn(x, t, a, Len(x.hist[a]), no), val |-> 1]
android_atomic_acquire_cas(x, t, old, new, a) == cas(x, t, old, new, a, "acquire", "acquire")
android_atomic_release_cas(x, t, old, new, a) == cas(x, t, old, new, a, "release", "relaxed")
android_memory_barrier(x, t) == fence(x, t)

-----------------------------------------------------------------------------
(* Locations.                                                              *)
counter == 0
Data(t) == t
Starts(u) ==
  [l \in {counter} \cup Threads |->
     IF l = counter /\ u = "refs" THEN Cardinality(Threads)
     ELSE IF l = counter /\ u = "bit" THEN {} ELSE 0]

Init ==
  /\ use \in {"refs", "count", "lock", "bit", "announce"}
  /\ step = [t \in Threads |-> "start"]
  /\ m = Memory(Threads, Starts(use))
  /\ val = [t \in Threads |-> 0]

At(t, u, s) == use = u /\ step[t] = s
Then(t, s, r) == m' = r.m /\ val' = [val EXCEPT ![t] = r.val] /\ step' = [step EXCEPT ![t] = s] /\ UNCHANGED use
Only(x, t) == [m |-> x, val |-> val[t]]
Write(t, l, v) == Only(store(m, t, l, v, "relaxed"), t)

(* References: everybody writes, gives up a reference, and whoever had the *)
(* last one destroys what all have written.                                *)
Refs(t) ==
  \/ At(t, "refs", "start") /\ Then(t, "release", Write(t, Data(t), 1))
  \/ At(t, "refs", "release") /\ Then(t, "last?", android_atomic_dec(m, t, counter))
  \/ At(t, "refs", "last?") /\ val[t] = 1 /\ Then(t, "destroy", Only(android_memory_barrier(m, t), t))

(* A count of what has been written: read it and then so many of the data. *)
Count(t) ==
  \/ At(t, "count", "start") /\ Then(t, "add", Write(t, Data(t), 1))
  \/ At(t, "count", "add") /\ Then(t, "load", android_atomic_inc(m, t, counter))
  \/ At(t, "count", "load") /\ \E r \in android_atomic_acquire_load(m, t, counter) : Then(t, "look", r)

(* The lock of the header's comment, around data[1] = data[1] + 1; it is   *)
(* given back with a store or with a cas.                                  *)
Lock(t) ==
  \/ /\ At(t, "lock", "start") /\ Len(m.hist[Data(1)]) <= Rounds * Cardinality(Threads)
     /\ LET r == android_atomic_acquire_cas(m, t, 0, 1, counter)
        IN  Then(t, IF r.val = 0 THEN "work" ELSE "start", r)
  \/ At(t, "lock", "work") /\ \E r \in loads(m, t, Data(1), "relaxed") : Then(t, "update", r)
  \/ At(t, "lock", "update") /\ Then(t, "unlock", Write(t, Data(1), val[t] + 1))
  \/ At(t, "lock", "unlock") /\ Then(t, "start", Only(android_atomic_release_store(m, t, 0, counter), t))
  \/ At(t, "lock", "unlock") /\ Then(t, "start", android_atomic_release_cas(m, t, 1, 0, counter))

(* Whoever sets bit 0 first owns it until it clears the bit.               *)
Bit(t) ==
  \/ /\ At(t, "bit", "start") /\ Len(m.hist[counter]) <= 2 * Cardinality(Threads)
     /\ LET r == android_atomic_or(m, t, {0}, counter) IN Then(t, IF 0 \notin r.val THEN "own" ELSE "start", r)
  \/ At(t, "bit", "own") /\ Then(t, "start", android_atomic_and(m, t, {1}, counter))

(* Threads 1 and 2 announce themselves, then look at the other: with the   *)
(* fence after the store, or before the load.                              *)
Other(t) == 3 - t
Announce(t) ==
  \/ At(t, "announce", "start") /\ t <= 2 /\ Then(t, "acquire", Only(android_atomic_acquire_store(m, t, 1, Data(t)), t))
  \/ At(t, "announce", "start") /\ t <= 2 /\ Then(t, "release", Only(android_atomic_release_store(m, t, 1, Data(t)), t))
  \/ At(t, "announce", "acquire") /\ \E r \in android_atomic_acquire_load(m, t, Data(Other(t))) : Then(t, "looked", r)
  \/ At(t, "announce", "release") /\ \E r \in android_atomic_release_load(m, t, Data(Other(t))) : Then(t, "looked", r)

Next == \E t \in Threads : Refs(t) \/ Count(t) \/ Lock(t) \/ Bit(t) \/ Announce(t)

-----------------------------------------------------------------------------
(* What t may read of a location now.                                      *)
MayRead(t, l) == {m.hist[l][i].val : i \in m.known[t][l] .. Len(m.hist[l])}
Written(t) == {u \in Threads : MayRead(t, Data(u)) = {1}}

(* The thread that drops the last reference sees what every other one has  *)
(* written, although the decrements only release.                          *)
LastSeesAll == \A t \in Threads : At(t, "refs", "destroy") => Written(t) = Threads

(* Increments neither get lost nor run ahead of the data they announce:    *)
(* whoever reads n sees n of the data.                                     *)
CountAnnounces ==
  \A t \in Threads : At(t, "count", "look") => Cardinality(Written(t)) >= val[t]

(* Between acquire_cas and the releasing store or cas a thread works on    *)
(* the latest data, and alone.                                             *)
LockProtects ==
  \A t, u \in Threads :
    use = "lock" /\ step[t] \in {"work", "update", "unlock"} =>
      /\ MayRead(t, Data(1)) = {last(m, Data(1))} /\ last(m, Data(1)) = Len(m.hist[Data(1)]) - 1
      /\ u # t => step[u] = "start"

(* One thread at a time owns the bit.                                      *)
OneOwner == \A t, u \in Threads : At(t, "bit", "own") /\ At(u, "bit", "own") => t = u

(* Of two threads that announce themselves one sees the other, whether the *)
(* fence is acquire_store's or release_load's.                             *)
OneSeesOther ==
  At(1, "announce", "looked") /\ At(2, "announce", "looked") => val[1] = 1 \/ val[2] = 1
=============================================================================
