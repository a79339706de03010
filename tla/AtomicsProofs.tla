--------------------------- MODULE AtomicsProofs ----------------------------
(***************************************************************************)
(* Proofs about the atomic words of MCConcurrency, for any number of       *)
(* threads: what the operations of WeakMemory do, stated by their effect   *)
(* on histories and views, and what the threads of Atomics and of Tracing  *)
(* can rely on because of it.                                              *)
(***************************************************************************)
EXTENDS MCConcurrency, WeakMemory, FiniteSetTheorems, TLAPS

-----------------------------------------------------------------------------
(* Memories: of threads T, locations L and values V *)

View(L) == [L -> Nat]
Entry(L, V) == [val : V, view : View(L)]
Memories(T, L, V) ==
  [hist : [L -> Seq(Entry(L, V))], known : [T -> View(L)], read : [T -> View(L)],
   carried : [T -> View(L)], fenced : View(L)]

(* A view is of entries that exist.                                        *)
InHist(x, L, v) == \A l \in L : v[l] >= 1 /\ v[l] <= Len(x.hist[l])

(* All views of a memory are.                                              *)
Whole(x, T, L, V) ==
  /\ x \in Memories(T, L, V)
  /\ \A l \in L : Len(x.hist[l]) >= 1
  /\ \A l \in L : \A i \in 1 .. Len(x.hist[l]) : InHist(x, L, x.hist[l][i].view)
  /\ \A t \in T : InHist(x, L, x.known[t]) /\ InHist(x, L, x.read[t]) /\ InHist(x, L, x.carried[t])
  /\ InHist(x, L, x.fenced)

Later(a, b) == IF a < b THEN b ELSE a

(* Newer is the later one at every location.                               *)
LEMMA NewerFacts ==
  ASSUME NEW L, NEW v \in View(L), NEW w \in View(L)
  PROVE  Newer(v, w) \in View(L) /\ \A l \in L : Newer(v, w)[l] = Later(v[l], w[l])
  BY DEF Newer, View, Later

(* Learning of entry i moves what t knows, and what its next fence will.   *)
Learned(n, x, T, L, V, t, l, i, order) ==
  /\ Whole(n, T, L, V)
  /\ n.hist = x.hist /\ n.carried = x.carried /\ n.fenced = x.fenced
  /\ \A u \in T \ {t} : n.known[u] = x.known[u] /\ n.read[u] = x.read[u]
  /\ \A k \in L : n.read[t][k] = Later(x.read[t][k], x.hist[l][i].view[k])
  /\ \A k \in L \ {l} : n.known[t][k] = IF order = "acquire" THEN Later(x.known[t][k], x.hist[l][i].view[k])
                                        ELSE x.known[t][k]
  /\ n.known[t][l] >= i /\ n.known[t][l] >= x.known[t][l]

LEMMA LearnFacts ==
  ASSUME NEW T, NEW L, NEW V, NEW x, Whole(x, T, L, V), NEW t \in T, NEW l \in L,
         NEW i \in 1 .. Len(x.hist[l]), NEW order, NEW n, n = Learn(x, t, l, i, order)
  PROVE  Learned(n, x, T, L, V, t, l, i, order)
<1> DEFINE w == x.hist[l][i].view
           at == [x.known[t] EXCEPT ![l] = i]
           v == Newer(x.known[t], at)
           known == IF order = "acquire" THEN Newer(v, w) ELSE v
           read == Newer(x.read[t], w)
<1>1. /\ x \in Memories(T, L, V) /\ w \in View(L) /\ x.known[t] \in View(L) /\ x.read[t] \in View(L)
      /\ InHist(x, L, w) /\ InHist(x, L, x.known[t]) /\ InHist(x, L, x.read[t])
      /\ i \in Nat /\ i >= 1 /\ i <= Len(x.hist[l])
  <2>1. x \in Memories(T, L, V)
    BY DEF Whole
  <2>2. x.hist[l] \in Seq(Entry(L, V)) /\ x.known[t] \in View(L) /\ x.read[t] \in View(L)
    BY <2>1 DEF Memories
  <2>3. Len(x.hist[l]) \in Nat
    BY <2>2
  <2>4. i \in Nat /\ i >= 1 /\ i <= Len(x.hist[l])
    BY <2>3
  <2>5. x.hist[l][i] \in Entry(L, V)
    BY <2>2, <2>4
  <2>6. w \in View(L)
    BY <2>5 DEF Entry
  <2>7. InHist(x, L, w) /\ InHist(x, L, x.known[t]) /\ InHist(x, L, x.read[t])
    BY DEF Whole
  <2> QED
    BY <2>1, <2>2, <2>4, <2>6, <2>7
<1>2. at \in View(L) /\ at[l] = i /\ \A k \in L \ {l} : at[k] = x.known[t][k]
  BY <1>1 DEF View
<1> HIDE DEF w, at
<1>3. v \in View(L) /\ \A k \in L : v[k] = Later(x.known[t][k], at[k])
  BY <1>1, <1>2, NewerFacts
<1> HIDE DEF v
<1>4. Newer(v, w) \in View(L) /\ \A k \in L : Newer(v, w)[k] = Later(v[k], w[k])
  BY <1>1, <1>3, NewerFacts
<1>5. read \in View(L) /\ \A k \in L : read[k] = Later(x.read[t][k], w[k])
  BY <1>1, NewerFacts
<1>6. known \in View(L)
  BY <1>3, <1>4
<1>7. n = [x EXCEPT !.known[t] = known, !.read[t] = read]
  BY DEF Learn, known, read, v, w, at
<1>8. \A k \in L : v[k] >= x.known[t][k] /\ v[k] \in Nat /\ w[k] \in Nat /\ v[k] >= 1 /\ v[k] <= Len(x.hist[k])
  <2> SUFFICES ASSUME NEW k \in L
               PROVE  v[k] >= x.known[t][k] /\ v[k] \in Nat /\ w[k] \in Nat /\ v[k] >= 1 /\ v[k] <= Len(x.hist[k])
    OBVIOUS
  <2>1. /\ x.known[t][k] \in Nat /\ w[k] \in Nat /\ at[k] \in {i, x.known[t][k]} /\ (at[k] = i => i <= Len(x.hist[k]))
        /\ x.known[t][k] >= 1 /\ x.known[t][k] <= Len(x.hist[k])
    BY <1>1, <1>2 DEF View, InHist
  <2>2. v[k] = Later(x.known[t][k], at[k])
    BY <1>3
  <2> QED
    BY <1>1, <2>1, <2>2 DEF Later
<1>9. InHist(x, L, known) /\ InHist(x, L, read)
  <2>1. InHist(x, L, read)
    BY <1>1, <1>5 DEF InHist, Later
  <2>2. InHist(x, L, v)
    BY <1>8 DEF InHist
  <2>3. InHist(x, L, Newer(v, w))
    BY <1>1, <1>4, <2>2 DEF InHist, Later
  <2> QED
    BY <2>1, <2>2, <2>3
<1>10. known[l] >= i /\ known[l] >= x.known[t][l]
  <2>1. v[l] >= i /\ v[l] >= x.known[t][l] /\ v[l] \in Nat /\ w[l] \in Nat /\ x.known[t][l] \in Nat
    BY <1>1, <1>2, <1>3, <1>8 DEF Later, View
  <2> QED
    BY <1>1, <1>4, <2>1 DEF Later
<1>11. \A k \in L \ {l} : known[k] = IF order = "acquire" THEN Later(x.known[t][k], w[k]) ELSE x.known[t][k]
  BY <1>1, <1>2, <1>3, <1>4 DEF Later, View
<1> HIDE DEF known, read
<1>12. /\ n \in Memories(T, L, V)
       /\ n.hist = x.hist /\ n.carried = x.carried /\ n.fenced = x.fenced
       /\ n.known[t] = known /\ n.read[t] = read
       /\ \A u \in T \ {t} : n.known[u] = x.known[u] /\ n.read[u] = x.read[u]
  <2>1. n = [x EXCEPT !.known = [x.known EXCEPT ![t] = known], !.read = [x.read EXCEPT ![t] = read]]
    BY <1>1, <1>7 DEF Memories
  <2>2. [x.known EXCEPT ![t] = known] \in [T -> View(L)] /\ [x.read EXCEPT ![t] = read] \in [T -> View(L)]
    BY <1>1, <1>5, <1>6 DEF Memories
  <2> QED
    BY <1>1, <2>1, <2>2 DEF Memories
<1>13. Whole(n, T, L, V)
  BY <1>9, <1>12 DEF Whole, InHist
<1> QED
  BY <1>5, <1>10, <1>11, <1>12, <1>13 DEF w, Learned

(* What a memory gives of entries and views.                               *)
LEMMA WholeFacts ==
  ASSUME NEW T, NEW L, NEW V, NEW x, Whole(x, T, L, V)
  PROVE  /\ x \in Memories(T, L, V)
         /\ \A l \in L : x.hist[l] \in Seq(Entry(L, V)) /\ Len(x.hist[l]) \in Nat \ {0}
         /\ \A l \in L : \A i \in 1 .. Len(x.hist[l]) :
              /\ x.hist[l][i] \in Entry(L, V) /\ x.hist[l][i].val \in V
              /\ x.hist[l][i].view \in View(L) /\ InHist(x, L, x.hist[l][i].view)
         /\ \A t \in T : /\ x.known[t] \in View(L) /\ x.read[t] \in View(L) /\ x.carried[t] \in View(L)
                         /\ InHist(x, L, x.known[t]) /\ InHist(x, L, x.read[t])
                         /\ InHist(x, L, x.carried[t])
         /\ x.fenced \in View(L) /\ InHist(x, L, x.fenced)
<1>1. x \in Memories(T, L, V)
  BY DEF Whole
<1>2. \A l \in L : x.hist[l] \in Seq(Entry(L, V))
  BY <1>1 DEF Memories
<1>3. \A l \in L : Len(x.hist[l]) \in Nat \ {0}
  BY <1>2 DEF Whole
<1>4. \A l \in L : \A i \in 1 .. Len(x.hist[l]) : x.hist[l][i] \in Entry(L, V)
  BY <1>2, <1>3
<1>5. \A l \in L : \A i \in 1 .. Len(x.hist[l]) : x.hist[l][i].val \in V /\ x.hist[l][i].view \in View(L)
  BY <1>4 DEF Entry
<1>6. \A t \in T : x.known[t] \in View(L) /\ x.read[t] \in View(L) /\ x.carried[t] \in View(L)
  BY <1>1 DEF Memories
<1>7. x.fenced \in View(L)
  BY <1>1 DEF Memories
<1> QED
  BY <1>1, <1>2, <1>3, <1>4, <1>5, <1>6, <1>7 DEF Whole

(* A history that grows by an entry e whose view it knows, and views that  *)
(* stay in it, make a memory.                                              *)
Grown(n, x, T, L, V, l, e) ==
  /\ Whole(n, T, L, V)
  /\ \A k \in L \ {l} : n.hist[k] = x.hist[k]
  /\ Len(n.hist[l]) = Len(x.hist[l]) + 1 /\ n.hist[l][Len(x.hist[l]) + 1] = e
  /\ \A i \in 1 .. Len(x.hist[l]) : n.hist[l][i] = x.hist[l][i]
AllIn(n, T, L) ==
  /\ \A u \in T : InHist(n, L, n.known[u]) /\ InHist(n, L, n.read[u]) /\ InHist(n, L, n.carried[u])
  /\ InHist(n, L, n.fenced)

LEMMA Grows ==
  ASSUME NEW T, NEW L, NEW V, NEW x, Whole(x, T, L, V), NEW l \in L,
         NEW e \in Entry(L, V), NEW n \in Memories(T, L, V),
         n.hist = [x.hist EXCEPT ![l] = Append(@, e)], InHist(n, L, e.view), AllIn(n, T, L)
  PROVE  Grown(n, x, T, L, V, l, e)
<1>0. /\ x.hist[l] \in Seq(Entry(L, V)) /\ Len(x.hist[l]) \in Nat /\ x.hist \in [L -> Seq(Entry(L, V))]
      /\ \A k \in L : Len(x.hist[k]) \in Nat \ {0}
  BY WholeFacts DEF Memories
<1>1. n.hist[l] = Append(x.hist[l], e) /\ \A k \in L \ {l} : n.hist[k] = x.hist[k]
  BY <1>0
<1>2. Len(n.hist[l]) = Len(x.hist[l]) + 1 /\ n.hist[l][Len(x.hist[l]) + 1] = e
  BY <1>0, <1>1
<1>3. \A i \in 1 .. Len(x.hist[l]) : n.hist[l][i] = x.hist[l][i]
  BY <1>0, <1>1
<1>4. \A k \in L : Len(n.hist[k]) >= Len(x.hist[k]) /\ Len(n.hist[k]) >= 1 /\ Len(n.hist[k]) \in Nat
  <2> SUFFICES ASSUME NEW k \in L
               PROVE  Len(n.hist[k]) >= Len(x.hist[k]) /\ Len(n.hist[k]) >= 1 /\ Len(n.hist[k]) \in Nat
    OBVIOUS
  <2>1. CASE k = l
    BY <1>0, <1>2, <2>1
  <2>2. CASE k # l
    BY <1>0, <1>1, <2>2
  <2> QED
    BY <2>1, <2>2
<1>5. ASSUME NEW v \in View(L), InHist(x, L, v) PROVE InHist(n, L, v)
  BY <1>0, <1>4, <1>5 DEF InHist, View
<1>6. \A k \in L : \A i \in 1 .. Len(n.hist[k]) : InHist(n, L, n.hist[k][i].view)
  <2> SUFFICES ASSUME NEW k \in L, NEW i \in 1 .. Len(n.hist[k]) PROVE InHist(n, L, n.hist[k][i].view)
    OBVIOUS
  <2>1. CASE k # l
    BY <1>1, <1>5, <2>1, WholeFacts
  <2>2. CASE k = l /\ i = Len(x.hist[l]) + 1
    BY <1>2, <2>2
  <2>3. CASE k = l /\ i # Len(x.hist[l]) + 1
    <3>1. i \in 1 .. Len(x.hist[l])
      BY <1>0, <1>2, <2>3
    <3>2. x.hist[l][i].view \in View(L) /\ InHist(x, L, x.hist[l][i].view)
      BY <3>1, WholeFacts
    <3> QED
      BY <1>3, <1>5, <2>3, <3>1, <3>2
  <2> QED
    BY <2>1, <2>2, <2>3
<1> QED
  BY <1>1, <1>2, <1>3, <1>4, <1>6 DEF Whole, Grown, AllIn

(* A store ends the history; its entry carries what the order says.        *)
Stored(n, x, T, L, V, t, l, v, order) ==
  LET at == Len(x.hist[l]) + 1
  IN  /\ Whole(n, T, L, V)
      /\ n.read = x.read /\ n.carried = x.carried /\ n.fenced = x.fenced
      /\ \A u \in T \ {t} : n.known[u] = x.known[u]
      /\ n.known[t][l] = at /\ \A k \in L \ {l} : n.known[t][k] = x.known[t][k]
      /\ \A k \in L \ {l} : n.hist[k] = x.hist[k]
      /\ Len(n.hist[l]) = at /\ \A i \in 1 .. Len(x.hist[l]) : n.hist[l][i] = x.hist[l][i]
      /\ n.hist[l][at].val = v /\ n.hist[l][at].view[l] = at
      /\ \A k \in L \ {l} : n.hist[l][at].view[k] = IF order = "release" THEN x.known[t][k] ELSE x.carried[t][k]

LEMMA StoreFacts ==
  ASSUME NEW T, NEW L, NEW V, NEW x, Whole(x, T, L, V), NEW t \in T, NEW l \in L, NEW v \in V,
         NEW order, NEW n, n = store(x, t, l, v, order)
  PROVE  Stored(n, x, T, L, V, t, l, v, order)
<1> DEFINE at == Len(x.hist[l]) + 1
           known == [x.known[t] EXCEPT ![l] = at]
           carries == IF order = "release" THEN known ELSE x.carried[t]
           view == [carries EXCEPT ![l] = at]
           e == [val |-> v, view |-> view]
           mid == [x EXCEPT !.known[t][l] = at]
<1>0. /\ x \in Memories(T, L, V) /\ x.known[t] \in View(L) /\ x.carried[t] \in View(L)
      /\ x.hist \in [L -> Seq(Entry(L, V))] /\ x.known \in [T -> View(L)]
      /\ \A k \in L : Len(x.hist[k]) \in Nat \ {0}
  BY WholeFacts DEF Memories
<1>1. /\ known \in View(L) /\ known[l] = at /\ \A k \in L \ {l} : known[k] = x.known[t][k]
  BY <1>0 DEF View
<1> HIDE DEF known
<1>2. carries \in View(L)
  BY <1>0, <1>1
<1>3. view \in View(L) /\ view[l] = at /\ \A k \in L \ {l} : view[k] = carries[k]
  BY <1>0, <1>2 DEF View
<1>4. mid = [x EXCEPT !.known = [x.known EXCEPT ![t] = known]]
  BY <1>0 DEF known, Memories, View
<1>5. /\ [x.known EXCEPT ![t] = known] \in [T -> View(L)]
      /\ [x.known EXCEPT ![t] = known][t] = known
      /\ \A u \in T \ {t} : [x.known EXCEPT ![t] = known][u] = x.known[u]
  BY <1>0, <1>1
<1>6. /\ mid \in Memories(T, L, V) /\ mid.known = [x.known EXCEPT ![t] = known]
      /\ mid.hist = x.hist /\ mid.read = x.read /\ mid.carried = x.carried /\ mid.fenced = x.fenced
  BY <1>0, <1>4, <1>5 DEF Memories
<1>7. Carries(mid, t, order) = carries
  BY <1>5, <1>6 DEF Carries
<1>8. n = [mid EXCEPT !.hist[l] = Append(@, [val |-> v, view |-> [Carries(mid, t, order) EXCEPT ![l] = at]])]
  BY DEF store, mid
<1> HIDE DEF carries, mid, view
<1>9. e \in Entry(L, V) /\ e.view = view /\ e.val = v
  BY <1>3 DEF Entry
<1>10. n = [mid EXCEPT !.hist = [mid.hist EXCEPT ![l] = Append(mid.hist[l], e)]]
  BY <1>6, <1>7, <1>8 DEF view, Memories
<1> HIDE DEF e
<1>11. Append(x.hist[l], e) \in Seq(Entry(L, V))
  BY <1>0, <1>9
<1>12. [x.hist EXCEPT ![l] = Append(x.hist[l], e)] \in [L -> Seq(Entry(L, V))]
  BY <1>0, <1>11
<1>13. /\ n \in Memories(T, L, V) /\ n.hist = [x.hist EXCEPT ![l] = Append(x.hist[l], e)]
       /\ n.known = mid.known /\ n.read = x.read /\ n.carried = x.carried /\ n.fenced = x.fenced
  BY <1>6, <1>10, <1>12 DEF Memories
<1>14. \A k \in L : Len(n.hist[k]) \in Nat /\ Len(n.hist[k]) >= Len(x.hist[k])
  BY <1>0, <1>13
<1>15. Len(n.hist[l]) = at
  BY <1>0, <1>13
<1>16. ASSUME NEW w \in View(L), InHist(x, L, w) PROVE InHist(n, L, w)
  BY <1>0, <1>14, <1>16 DEF InHist, View
<1>17. InHist(n, L, known)
  <2>1. InHist(x, L, x.known[t])
    BY WholeFacts
  <2>2. InHist(n, L, x.known[t])
    BY <1>0, <1>16, <2>1
  <2> SUFFICES ASSUME NEW k \in L PROVE known[k] >= 1 /\ known[k] <= Len(n.hist[k])
    BY DEF InHist
  <2>3. CASE k = l
    BY <1>0, <1>1, <1>15, <2>3
  <2>4. CASE k # l
    BY <1>1, <2>2, <2>4 DEF InHist
  <2> QED
    BY <2>3, <2>4
<1>18. InHist(n, L, view)
  <2>1. InHist(x, L, x.carried[t])
    BY WholeFacts
  <2>2. InHist(n, L, carries)
    BY <1>0, <1>16, <1>17, <2>1 DEF carries
  <2> QED
    BY <1>0, <1>3, <1>15, <2>2 DEF InHist
<1>19. /\ \A u \in T : InHist(n, L, n.known[u]) /\ InHist(n, L, n.read[u]) /\ InHist(n, L, n.carried[u])
       /\ InHist(n, L, n.fenced)
  BY <1>5, <1>6, <1>13, <1>16, <1>17, WholeFacts
<1>20. Grown(n, x, T, L, V, l, e)
  <2>1. n.hist = [x.hist EXCEPT ![l] = Append(@, e)] /\ InHist(n, L, e.view)
    BY <1>9, <1>13, <1>18
  <2>2. e \in Entry(L, V) /\ n \in Memories(T, L, V) /\ AllIn(n, T, L)
    BY <1>9, <1>13, <1>19 DEF AllIn
  <2> QED
    BY <2>1, <2>2, Grows, Zenon
<1>21. \A k \in L \ {l} : view[k] = IF order = "release" THEN x.known[t][k] ELSE x.carried[t][k]
  BY <1>1, <1>3 DEF carries
<1> QED
  BY <1>1, <1>3, <1>5, <1>6, <1>9, <1>13, <1>20, <1>21 DEF Stored, Grown

(* A read-modify-write learns of the last entry, and its own carries what  *)
(* that one did as well.                                                   *)
Changed(n, x, T, L, V, t, l, v, order) ==
  LET end == Len(x.hist[l])
      at == end + 1
      old == x.hist[l][end].view
      known(k) == IF order = "acquire" THEN Later(x.known[t][k], old[k]) ELSE x.known[t][k]
  IN  /\ Whole(n, T, L, V)
      /\ n.carried = x.carried /\ n.fenced = x.fenced
      /\ \A u \in T \ {t} : n.known[u] = x.known[u] /\ n.read[u] = x.read[u]
      /\ \A k \in L : n.read[t][k] = Later(x.read[t][k], old[k])
      /\ n.known[t][l] = at /\ \A k \in L \ {l} : n.known[t][k] = known(k)
      /\ \A k \in L \ {l} : n.hist[k] = x.hist[k]
      /\ Len(n.hist[l]) = at /\ \A i \in 1 .. end : n.hist[l][i] = x.hist[l][i]
      /\ n.hist[l][at].val = v /\ n.hist[l][at].view[l] = at
      /\ \A k \in L \ {l} : n.hist[l][at].view[k] = Later(IF order = "release" THEN known(k) ELSE x.carried[t][k], old[k])

LEMMA EntryWith ==
  ASSUME NEW L, NEW V, NEW e \in Entry(L, V), NEW w \in View(L)
  PROVE  [e EXCEPT !.view = w] = [val |-> e.val, view |-> w]
  BY DEF Entry

LEMMA RmwFacts ==
  ASSUME NEW T, NEW L, NEW V, NEW x, Whole(x, T, L, V), NEW t \in T, NEW l \in L, NEW v \in V,
         NEW order, NEW n, n = rmw(x, t, l, v, order)
  PROVE  Changed(n, x, T, L, V, t, l, v, order)
<1> DEFINE end == Len(x.hist[l])
           at == end + 1
           old == x.hist[l][end].view
           y == Learn(x, t, l, end, order)
           s == store(y, t, l, v, order)
           e == s.hist[l][at]
           view == Newer(e.view, old)
           f == [val |-> v, view |-> view]
           g == [s.hist[l] EXCEPT ![at] = f]
           h == [s.hist EXCEPT ![l] = g]
<1>1. /\ end \in Nat \ {0} /\ end \in 1 .. end /\ old \in View(L) /\ InHist(x, L, old)
      /\ \A k \in L : Len(x.hist[k]) \in Nat \ {0}
  BY WholeFacts
<1>2. Learned(y, x, T, L, V, t, l, end, order)
  BY <1>1, LearnFacts
<1>3. Whole(y, T, L, V) /\ y.hist = x.hist
  BY <1>2 DEF Learned
<1> HIDE DEF y
<1>4. Stored(s, y, T, L, V, t, l, v, order)
  BY <1>3, StoreFacts
<1> HIDE DEF s
<1>5. /\ Whole(s, T, L, V) /\ Len(s.hist[l]) = at /\ e.val = v /\ e.view[l] = at
      /\ \A k \in L \ {l} : s.hist[k] = x.hist[k]
      /\ \A i \in 1 .. end : s.hist[l][i] = x.hist[l][i]
      /\ \A k \in L \ {l} : e.view[k] = IF order = "release" THEN y.known[t][k] ELSE x.carried[t][k]
  BY <1>2, <1>3, <1>4 DEF Stored, Learned
<1>6. s.hist[l] \in Seq(Entry(L, V)) /\ at \in 1 .. Len(s.hist[l]) /\ s \in Memories(T, L, V)
  BY <1>1, <1>5, WholeFacts
<1>7. e \in Entry(L, V) /\ e.view \in View(L) /\ InHist(s, L, e.view)
  BY <1>5, <1>6, WholeFacts
<1>8. view \in View(L) /\ \A k \in L : view[k] = Later(e.view[k], old[k])
  <2>1. PICK a \in View(L), b \in View(L) : a = e.view /\ b = old
    BY <1>1, <1>7
  <2>2. Newer(a, b) \in View(L) /\ \A k \in L : Newer(a, b)[k] = Later(a[k], b[k])
    BY NewerFacts
  <2> QED
    BY <2>1, <2>2, Zenon
<1>9. f \in Entry(L, V) /\ f.val = v /\ f.view = view
  BY <1>8 DEF Entry
<1>10. n = [s EXCEPT !.hist[l][Len(s.hist[l])].view = Newer(@, old)]
  BY DEF rmw, s, y
<1>11. [e EXCEPT !.view = view] = f
  <2>1. PICK c \in Entry(L, V), w \in View(L) : c = e /\ w = view /\ c.val = v
    BY <1>5, <1>7, <1>8
  <2>2. [c EXCEPT !.view = w] = [val |-> c.val, view |-> w]
    BY EntryWith, Zenon
  <2> QED
    BY <2>1, <2>2, Zenon
<1>12. n = [s EXCEPT !.hist = h]
  <2>1. n = [s EXCEPT !.hist = [s.hist EXCEPT ![l] = [s.hist[l] EXCEPT ![at] = [s.hist[l][at] EXCEPT !.view = view]]]]
    BY <1>5, <1>6, <1>7, <1>10 DEF Memories, Entry
  <2> QED
    BY <1>11, <2>1
<1> HIDE DEF view, f
<1>13. /\ g \in Seq(Entry(L, V)) /\ Len(g) = at /\ g[at] = f
       /\ \A i \in 1 .. end : g[i] = x.hist[l][i]
  <2>1. g \in Seq(Entry(L, V)) /\ Len(g) = Len(s.hist[l]) /\ g[at] = f
        /\ \A i \in 1 .. Len(s.hist[l]) : i # at => g[i] = s.hist[l][i]
    BY <1>6, <1>9
  <2> QED
    BY <1>1, <1>5, <2>1
<1> HIDE DEF e, g
<1>14. /\ h \in [L -> Seq(Entry(L, V))] /\ h[l] = g /\ \A k \in L \ {l} : h[k] = x.hist[k]
  BY <1>5, <1>6, <1>13 DEF Memories
<1> HIDE DEF h
<1>15. /\ n \in Memories(T, L, V) /\ n.hist = h /\ n.known = s.known /\ n.read = s.read
       /\ n.carried = s.carried /\ n.fenced = s.fenced
  BY <1>6, <1>12, <1>14 DEF Memories
<1>16. \A k \in L : Len(n.hist[k]) = Len(s.hist[k])
  BY <1>5, <1>13, <1>14, <1>15
<1>17. \A k \in L : Len(x.hist[k]) <= Len(s.hist[k]) /\ Len(s.hist[k]) \in Nat
  BY <1>1, <1>5
<1>18. ASSUME NEW w \in View(L), InHist(s, L, w) PROVE InHist(n, L, w)
  BY <1>16, <1>18 DEF InHist
<1>19. ASSUME NEW w \in View(L), InHist(x, L, w) PROVE InHist(s, L, w)
  <2> SUFFICES ASSUME NEW k \in L PROVE w[k] >= 1 /\ w[k] <= Len(s.hist[k])
    BY DEF InHist
  <2>1. w[k] \in Nat /\ w[k] >= 1 /\ w[k] <= Len(x.hist[k])
    BY <1>19 DEF InHist, View
  <2>2. Len(x.hist[k]) \in Nat /\ Len(s.hist[k]) \in Nat /\ Len(x.hist[k]) <= Len(s.hist[k])
    BY <1>1, <1>17
  <2> QED
    BY <2>1, <2>2
<1>20. InHist(n, L, view)
  <2>1. InHist(s, L, old) /\ InHist(s, L, e.view)
    BY <1>1, <1>7, <1>19
  <2>2. InHist(s, L, view)
    BY <1>8, <2>1 DEF InHist, Later
  <2> QED
    BY <1>8, <1>18, <2>2
<1>21. \A k \in L : \A i \in 1 .. Len(n.hist[k]) : InHist(n, L, n.hist[k][i].view)
  <2> SUFFICES ASSUME NEW k \in L, NEW i \in 1 .. Len(n.hist[k]) PROVE InHist(n, L, n.hist[k][i].view)
    OBVIOUS
  <2>1. CASE k # l
    <3>1. n.hist[k] = x.hist[k] /\ i \in 1 .. Len(x.hist[k])
      BY <1>14, <1>15, <2>1
    <3>2. x.hist[k][i].view \in View(L) /\ InHist(x, L, x.hist[k][i].view)
      BY <3>1, WholeFacts
    <3> QED
      BY <1>18, <1>19, <3>1, <3>2
  <2>2. CASE k = l /\ i = at
    BY <1>9, <1>13, <1>14, <1>15, <1>20, <2>2
  <2>3. CASE k = l /\ i # at
    <3>1. n.hist[l] = g /\ i \in 1 .. Len(x.hist[l])
      BY <1>1, <1>13, <1>14, <1>15, <2>3
    <3>2. x.hist[l][i].view \in View(L) /\ InHist(x, L, x.hist[l][i].view)
      BY <3>1, WholeFacts
    <3> QED
      BY <1>13, <1>18, <1>19, <2>3, <3>1, <3>2
  <2> QED
    BY <2>1, <2>2, <2>3
<1>22. AllIn(n, T, L)
  BY <1>5, <1>15, <1>18, WholeFacts DEF AllIn
<1>23. Whole(n, T, L, V)
  BY <1>5, <1>15, <1>16, <1>21, <1>22 DEF Whole, AllIn
<1>24. /\ s.carried = x.carried /\ s.fenced = x.fenced
       /\ \A u \in T \ {t} : s.known[u] = x.known[u] /\ s.read[u] = x.read[u]
       /\ \A k \in L : s.read[t][k] = Later(x.read[t][k], old[k])
       /\ s.known[t][l] = at
       /\ \A k \in L \ {l} : s.known[t][k] = y.known[t][k]
       /\ \A k \in L \ {l} : y.known[t][k] = IF order = "acquire" THEN Later(x.known[t][k], old[k]) ELSE x.known[t][k]
  BY <1>2, <1>3, <1>4 DEF Stored, Learned
<1>25. view[l] = at
  <2>1. old[l] \in Nat /\ old[l] <= end
    BY <1>1 DEF InHist, View
  <2> QED
    BY <1>1, <1>5, <1>8, <2>1 DEF Later
<1>26. \A k \in L \ {l} : view[k] = Later(IF order = "release" THEN y.known[t][k] ELSE x.carried[t][k], old[k])
  BY <1>5, <1>8 DEF e
<1> QED
  BY <1>9, <1>13, <1>14, <1>15, <1>23, <1>24, <1>25, <1>26 DEF Changed

(* A fence exchanges what t knows with the earlier ones.                   *)
Exchanged(n, x, T, L, V, t) ==
  /\ Whole(n, T, L, V)
  /\ n.hist = x.hist /\ n.read = x.read
  /\ \A u \in T \ {t} : n.known[u] = x.known[u] /\ n.carried[u] = x.carried[u]
  /\ \A k \in L : n.known[t][k] = Later(Later(x.known[t][k], x.read[t][k]), x.fenced[k])
  /\ n.fenced = n.known[t] /\ n.carried[t] = n.known[t]

LEMMA FenceFacts ==
  ASSUME NEW T, NEW L, NEW V, NEW x, Whole(x, T, L, V), NEW t \in T, NEW n, n = fence(x, t)
  PROVE  Exchanged(n, x, T, L, V, t)
<1> DEFINE w == Newer(x.known[t], x.read[t])
           v == Newer(w, x.fenced)
<1>1. /\ x.known[t] \in View(L) /\ x.read[t] \in View(L) /\ x.fenced \in View(L) /\ x \in Memories(T, L, V)
      /\ InHist(x, L, x.known[t]) /\ InHist(x, L, x.read[t]) /\ InHist(x, L, x.fenced)
  BY WholeFacts
<1>2. w \in View(L) /\ \A k \in L : w[k] = Later(x.known[t][k], x.read[t][k])
  BY <1>1, NewerFacts
<1>3. n = [x EXCEPT !.known[t] = v, !.carried[t] = v, !.fenced = v]
  BY DEF fence
<1> HIDE DEF w
<1>4. v \in View(L) /\ \A k \in L : v[k] = Later(w[k], x.fenced[k])
  BY <1>1, <1>2, NewerFacts
<1> HIDE DEF v
<1>5. InHist(x, L, v)
  BY <1>1, <1>2, <1>4 DEF InHist, Later
<1>6. [x.known EXCEPT ![t] = v] \in [T -> View(L)] /\ [x.carried EXCEPT ![t] = v] \in [T -> View(L)]
  BY <1>1, <1>4 DEF Memories
<1>7. n = [x EXCEPT !.known = [x.known EXCEPT ![t] = v], !.carried = [x.carried EXCEPT ![t] = v], !.fenced = v]
  BY <1>1, <1>3 DEF Memories
<1>8. /\ n \in Memories(T, L, V) /\ n.hist = x.hist /\ n.read = x.read /\ n.fenced = v
      /\ n.known[t] = v /\ n.carried[t] = v
      /\ \A u \in T \ {t} : n.known[u] = x.known[u] /\ n.carried[u] = x.carried[u]
  BY <1>1, <1>4, <1>6, <1>7 DEF Memories
<1>9. Whole(n, T, L, V)
  <2>1. \A w1 : InHist(n, L, w1) <=> InHist(x, L, w1)
    BY <1>8 DEF InHist
  <2> QED
    BY <1>5, <1>8, <2>1 DEF Whole
<1> QED
  BY <1>2, <1>4, <1>8, <1>9 DEF Exchanged

(* The first memory.                                                       *)
Fresh(n, T, L, V, init) ==
  /\ Whole(n, T, L, V)
  /\ \A l \in L : /\ Len(n.hist[l]) = 1 /\ n.hist[l][1].val = init[l]
                  /\ \A k \in L : n.hist[l][1].view[k] = 1
  /\ \A t \in T : \A l \in L : n.known[t][l] = 1

LEMMA MemoryFacts ==
  ASSUME NEW T, NEW L, NEW V, NEW init \in [L -> V], NEW n, n = Memory(T, init)
  PROVE  Fresh(n, T, L, V, init)
<1> DEFINE start == [l \in L |-> 1]
<1>1. DOMAIN init = L
  OBVIOUS
<1>2. n = [hist |-> [l \in L |-> <<[val |-> init[l], view |-> start]>>],
           known |-> [t \in T |-> start], read |-> [t \in T |-> start],
           carried |-> [t \in T |-> start], fenced |-> start]
  BY <1>1 DEF Memory
<1>3. start \in View(L) /\ \A l \in L : start[l] = 1
  BY DEF View
<1> HIDE DEF start
<1>4. \A l \in L : [val |-> init[l], view |-> start] \in Entry(L, V)
  BY <1>3 DEF Entry
<1>5. \A l \in L : /\ <<[val |-> init[l], view |-> start]>> \in Seq(Entry(L, V))
                   /\ n.hist[l] = <<[val |-> init[l], view |-> start]>>
  BY <1>2, <1>4
<1>6. n \in Memories(T, L, V)
  BY <1>2, <1>3, <1>5 DEF Memories
<1>7. \A l \in L : Len(n.hist[l]) = 1 /\ n.hist[l][1].val = init[l] /\ n.hist[l][1].view = start
  <2> TAKE l \in L
  <2>1. PICK e \in Entry(L, V) : e = [val |-> init[l], view |-> start] /\ e.val = init[l] /\ e.view = start
    BY <1>4
  <2>2. n.hist[l] = <<e>>
    BY <1>5, <2>1
  <2>3. Len(n.hist[l]) = 1 /\ n.hist[l][1] = e
    BY <2>2
  <2> QED
    BY <2>1, <2>3
<1>8. InHist(n, L, start)
  BY <1>3, <1>7 DEF InHist
<1>9. \A t \in T : n.known[t] = start /\ n.read[t] = start /\ n.carried[t] = start
  BY <1>2
<1>10. n.fenced = start
  BY <1>2
<1>11. Whole(n, T, L, V)
  <2>1. \A l \in L : \A i \in 1 .. Len(n.hist[l]) : i = 1
    <3> TAKE l \in L
    <3>1. Len(n.hist[l]) = 1
      BY <1>7
    <3> QED
      BY <3>1
  <2> QED
    BY <1>6, <1>7, <1>8, <1>9, <1>10, <2>1 DEF Whole
<1> QED
  BY <1>3, <1>7, <1>9, <1>11 DEF Fresh

(* What a load may give.                                                   *)
LEMMA LoadFacts ==
  ASSUME NEW T, NEW L, NEW V, NEW x, Whole(x, T, L, V), NEW t \in T, NEW l \in L, NEW order,
         NEW r \in loads(x, t, l, order)
  PROVE  \E i \in 1 .. Len(x.hist[l]) :
           /\ i >= x.known[t][l] /\ Learned(r.m, x, T, L, V, t, l, i, order)
           /\ r.val = x.hist[l][i].val
<1>1. PICK i \in x.known[t][l] .. Len(x.hist[l]) :
        r = [m |-> Learn(x, t, l, i, order), val |-> x.hist[l][i].val]
  BY DEF loads
<1>2. x.known[t][l] \in Nat /\ x.known[t][l] >= 1 /\ Len(x.hist[l]) \in Nat
  BY WholeFacts DEF InHist, View
<1>3. i \in 1 .. Len(x.hist[l]) /\ i >= x.known[t][l]
  BY <1>2
<1>4. r.m = Learn(x, t, l, i, order) /\ r.val = x.hist[l][i].val
  BY <1>1
<1>5. Learned(r.m, x, T, L, V, t, l, i, order)
  BY <1>3, <1>4, LearnFacts
<1> QED
  BY <1>3, <1>4, <1>5

(* What is known of an entry stays within the history.                     *)
LEMMA KnownFacts ==
  ASSUME NEW T, NEW L, NEW V, NEW x, Whole(x, T, L, V), NEW l \in L
  PROVE  /\ Len(x.hist[l]) \in Nat \ {0} /\ Len(x.hist[l]) \in 1 .. Len(x.hist[l])
         /\ \A t \in T : /\ x.known[t][l] \in Nat /\ x.known[t][l] >= 1 /\ x.known[t][l] <= Len(x.hist[l])
                         /\ x.read[t][l] \in Nat /\ x.read[t][l] >= 1 /\ x.read[t][l] <= Len(x.hist[l])
                         /\ x.carried[t][l] \in Nat /\ x.carried[t][l] >= 1 /\ x.carried[t][l] <= Len(x.hist[l])
         /\ x.fenced[l] \in Nat /\ x.fenced[l] >= 1 /\ x.fenced[l] <= Len(x.hist[l])
         /\ \A k \in L : \A i \in 1 .. Len(x.hist[k]) :
              LET v == x.hist[k][i].view[l] IN v \in Nat /\ v >= 1 /\ v <= Len(x.hist[l])
<1>1. Len(x.hist[l]) \in Nat \ {0}
  BY WholeFacts
<1>2. \A v \in View(L) : v[l] \in Nat
  BY DEF View
<1> QED
  BY <1>1, <1>2, WholeFacts DEF InHist

(* The operations under the names of Atomics and Tracing.                  *)
LEMMA AtmOps ==
  /\ \A x, t, l, i, o : Atm!Learn(x, t, l, i, o) = Learn(x, t, l, i, o)
  /\ \A x, t, l, o : Atm!loads(x, t, l, o) = loads(x, t, l, o)
  /\ \A x, t, l, v, o : Atm!store(x, t, l, v, o) = store(x, t, l, v, o)
  /\ \A x, t, l, v, o : Atm!rmw(x, t, l, v, o) = rmw(x, t, l, v, o)
  /\ \A x, t : Atm!fence(x, t) = fence(x, t)
  /\ \A x, l : Atm!last(x, l) = last(x, l)
  /\ \A T, i : Atm!Memory(T, i) = Memory(T, i)
  /\ \A S : Atm!Cardinality(S) = Cardinality(S)
<1>0. \A v, w : Atm!Newer(v, w) = Newer(v, w)
  BY DEF Atm!Newer, Newer
<1>1. \A x, t, l, i, o : Atm!Learn(x, t, l, i, o) = Learn(x, t, l, i, o)
  BY DEF Atm!Learn, Learn, Atm!Newer, Newer
<1>2. \A x, t, l, o : Atm!loads(x, t, l, o) = loads(x, t, l, o)
  BY DEF Atm!loads, loads, Atm!Learn, Learn, Atm!Newer, Newer
<1>3. \A x, t, o : Atm!Carries(x, t, o) = Carries(x, t, o)
  BY Zenon DEF Atm!Carries, Carries
<1>4. \A x, t, l, v, o : Atm!store(x, t, l, v, o) = store(x, t, l, v, o)
  BY DEF Atm!store, store, Atm!Carries, Carries
<1>5. \A x, t, l, v, o : Atm!rmw(x, t, l, v, o) = rmw(x, t, l, v, o)
  <2> TAKE x, t, l, v, o
  <2>1. PICK y : y = Learn(x, t, l, Len(x.hist[l]), o) /\ y = Atm!Learn(x, t, l, Len(x.hist[l]), o)
    BY <1>1
  <2>2. PICK n : n = store(y, t, l, v, o) /\ n = Atm!store(y, t, l, v, o)
    BY <1>4
  <2>3. rmw(x, t, l, v, o) = [n EXCEPT !.hist[l][Len(n.hist[l])].view = Newer(@, x.hist[l][Len(x.hist[l])].view)]
    BY <2>1, <2>2 DEF rmw
  <2>4. Atm!rmw(x, t, l, v, o) = [n EXCEPT !.hist[l][Len(n.hist[l])].view = Atm!Newer(@, x.hist[l][Len(x.hist[l])].view)]
    BY <2>1, <2>2 DEF Atm!rmw
  <2> QED
    BY <2>3, <2>4 DEF Atm!Newer, Newer
<1>6. \A x, t : Atm!fence(x, t) = fence(x, t)
  BY <1>0, Zenon DEF Atm!fence, fence
<1>7. \A x, l : Atm!last(x, l) = last(x, l)
  BY Zenon DEF Atm!last, last
<1>8. \A T, i : Atm!Memory(T, i) = Memory(T, i)
  BY Zenon DEF Atm!Memory, Memory
<1>9. \A S : Atm!Cardinality(S) = Cardinality(S)
  BY DEF Atm!Cardinality, Cardinality
<1> QED
  BY <1>1, <1>2, <1>4, <1>5, <1>6, <1>7, <1>8, <1>9

LEMMA TrcOps ==
  /\ \A x, t, l, i, o : Trc!Learn(x, t, l, i, o) = Learn(x, t, l, i, o)
  /\ \A x, t, l, o : Trc!loads(x, t, l, o) = loads(x, t, l, o)
  /\ \A x, t, l, v, o : Trc!store(x, t, l, v, o) = store(x, t, l, v, o)
  /\ \A x, l : Trc!last(x, l) = last(x, l)
  /\ \A T, i : Trc!Memory(T, i) = Memory(T, i)
<1>0. \A v, w : Trc!Newer(v, w) = Newer(v, w)
  BY DEF Trc!Newer, Newer
<1>1. \A x, t, l, i, o : Trc!Learn(x, t, l, i, o) = Learn(x, t, l, i, o)
  BY DEF Trc!Learn, Learn, Trc!Newer, Newer
<1>2. \A x, t, l, o : Trc!loads(x, t, l, o) = loads(x, t, l, o)
  BY DEF Trc!loads, loads, Trc!Learn, Learn, Trc!Newer, Newer
<1>3. \A x, t, o : Trc!Carries(x, t, o) = Carries(x, t, o)
  BY Zenon DEF Trc!Carries, Carries
<1>4. \A x, t, l, v, o : Trc!store(x, t, l, v, o) = store(x, t, l, v, o)
  BY DEF Trc!store, store, Trc!Carries, Carries
<1>5. \A x, l : Trc!last(x, l) = last(x, l)
  BY Zenon DEF Trc!last, last
<1>6. \A T, i : Trc!Memory(T, i) = Memory(T, i)
  BY Zenon DEF Trc!Memory, Memory
<1> QED
  BY <1>1, <1>2, <1>4, <1>5, <1>6

-----------------------------------------------------------------------------
(* The uses of Atomics *)

T == 1 .. N
L == {0} \cup T
V == Int \cup SUBSET {0, 1}

(* The value at the end of a history, and what is carried there.           *)
LastVal(x, l) == x.hist[l][Len(x.hist[l])].val
LastView(x, l) == x.hist[l][Len(x.hist[l])].view

(* Every thread writes its own data once, before anything else.            *)
WroteOnce(x, st, t) ==
  IF st[t] = "start" THEN Len(x.hist[t]) = 1
  ELSE Len(x.hist[t]) = 2 /\ x.hist[t][2].val = 1 /\ x.known[t][t] = 2

(* References: the counter is what is left of them, its last entry carries *)
(* the data of those that gave up theirs, and who gave up the last one has *)
(* read of all.                                                            *)
GaveUp(st) == {u \in T : st[u] \in {"last?", "destroy"}}
RefsOK(x, st, vl) ==
  /\ st \in [T -> {"start", "release", "last?", "destroy"}]
  /\ \A u \in T : WroteOnce(x, st, u)
  /\ LastVal(x, 0) = N - Cardinality(GaveUp(st))
  /\ \A u \in GaveUp(st) : LastView(x, 0)[u] = 2
  /\ \A t \in T : st[t] = "last?" /\ vl[t] = 1 => GaveUp(st) = T /\ \A u \in T \ {t} : x.read[t][u] = 2
  /\ \A t \in T : st[t] = "destroy" => GaveUp(st) = T /\ \A u \in T : x.known[t][u] = 2

(* Counts: an entry carries as many data as its value says.                *)
Has(v) == {u \in T : v[u] = 2}
Counts(st) == {u \in T : st[u] \in {"load", "look"}}
CountOK(x, st, vl) ==
  /\ st \in [T -> {"start", "add", "load", "look"}]
  /\ \A u \in T : WroteOnce(x, st, u)
  /\ \A i \in 1 .. Len(x.hist[0]) :
       /\ Has(x.hist[0][i].view) \subseteq Counts(st)
       /\ x.hist[0][i].val = Cardinality(Has(x.hist[0][i].view))
  /\ \A t \in T : st[t] \in {"start", "add"} => \A u \in T \ {t} : x.known[t][u] = 1
  /\ \A t \in T : st[t] = "look" => vl[t] \in Nat /\ Cardinality(Has(x.known[t])) >= vl[t]

(* The lock: its holder knows the latest data, and a free lock carries it. *)
LockOK(x, st, vl) ==
  /\ st \in [T -> {"start", "work", "update", "unlock"}]
  /\ \A i \in 1 .. Len(x.hist[1]) : x.hist[1][i].val = i - 1
  /\ LastVal(x, 0) = 0 => LastView(x, 0)[1] = Len(x.hist[1])
  /\ \A t \in T : st[t] # "start" =>
       LastVal(x, 0) = 1 /\ x.known[t][1] = Len(x.hist[1]) /\ \A u \in T \ {t} : st[u] = "start"
  /\ \A t \in T : st[t] = "update" => vl[t] = Len(x.hist[1]) - 1

(* The bit: set while it is owned.                                         *)
BitOK(x, st) ==
  /\ st \in [T -> {"start", "own"}]
  /\ LastVal(x, 0) \in SUBSET {0, 1}
  /\ \A t \in T : st[t] = "own" => 0 \in LastVal(x, 0) /\ \A u \in T : st[u] = "own" => u = t

(* Announcements: the later one of two fences brings the other's.          *)
Passed(st, t) == st[t] \in {"acquire", "looked"}
Sees(x, st, vl, t, u) == x.known[t][u] = 2 /\ (st[t] = "looked" => vl[t] = 1)
AnnounceOK(x, st, vl) ==
  /\ st \in [T -> {"start", "acquire", "release", "looked"}]
  /\ \A u \in T : WroteOnce(x, st, u)
  /\ \A t \in {1, 2} : Passed(st, t) => x.fenced[t] = 2
  /\ Passed(st, 1) /\ Passed(st, 2) => Sees(x, st, vl, 1, 2) \/ Sees(x, st, vl, 2, 1)

OnlyTwo(st) == \A t \in T : st[t] # "start" => t <= 2

AtmInv ==
  /\ Whole(m, T, L, V) /\ DOMAIN val = T
  /\ use = "refs" => RefsOK(m, step, val)
  /\ use = "count" => CountOK(m, step, val)
  /\ use = "lock" => LockOK(m, step, val)
  /\ use = "bit" => BitOK(m, step)
  /\ use = "announce" => AnnounceOK(m, step, val) /\ OnlyTwo(step)

LEMMA Numbers ==
  /\ N \in Nat /\ 1 \in T /\ 2 \in T /\ 0 \in L /\ T \subseteq L /\ 0 \notin T /\ T \subseteq Nat
  /\ {-1, 0, 1} \subseteq V /\ Int \subseteq V /\ SUBSET {0, 1} \subseteq V
  /\ IsFiniteSet(T) /\ Cardinality(T) = N
<1>1. N \in Nat \ {0, 1}
  BY AtomicsAssumption
<1>2. IsFiniteSet(T) /\ Cardinality(T) = N
  BY <1>1, FS_Interval DEF T
<1> QED
  BY <1>1, <1>2 DEF T, L, V

(* Writing one's data.                                                     *)
LEMMA WriteOnce ==
  ASSUME NEW x, NEW n, NEW st, NEW t \in T, NEW s, NEW order, Whole(x, T, L, V), DOMAIN st = T,
         \A u \in T : WroteOnce(x, st, u), st[t] = "start", s # "start",
         Stored(n, x, T, L, V, t, t, 1, order)
  PROVE  \A u \in T : WroteOnce(n, [st EXCEPT ![t] = s], u)
<1> TAKE u \in T
<1>1. Len(x.hist[t]) = 1 /\ t \in L /\ u \in L
  BY Numbers DEF WroteOnce
<1>2. CASE u = t
  BY <1>1, <1>2 DEF WroteOnce, Stored
<1>3. CASE u # t
  <2>1. WroteOnce(x, st, u)
    OBVIOUS
  <2>2. n.hist[u] = x.hist[u] /\ n.known[u] = x.known[u] /\ [st EXCEPT ![t] = s][u] = st[u]
    BY <1>1, <1>3 DEF Stored
  <2> QED
    BY <2>1, <2>2 DEF WroteOnce
<1> QED
  BY <1>2, <1>3

(* Nothing else touches them.                                              *)
AllOnce(x, st) == \A u \in T : WroteOnce(x, st, u)
Untouched(n, x, t) ==
  /\ Whole(n, T, L, V) /\ \A u \in T : n.hist[u] = x.hist[u]
  /\ \A u \in T \ {t} : n.known[u] = x.known[u]
  /\ n.known[t][t] >= x.known[t][t]

LEMMA OnceStays ==
  ASSUME NEW x, NEW n, NEW st, NEW t \in T, NEW s, DOMAIN st = T, AllOnce(x, st), st[t] # "start", s # "start",
         Untouched(n, x, t)
  PROVE  AllOnce(n, [st EXCEPT ![t] = s])
<1> SUFFICES ASSUME NEW u \in T PROVE WroteOnce(n, [st EXCEPT ![t] = s], u)
  BY DEF AllOnce
<1>1. t \in L /\ u \in L /\ Whole(n, T, L, V) /\ n.hist[u] = x.hist[u] /\ n.hist[t] = x.hist[t]
  BY Numbers DEF Untouched
<1>2. CASE u = t
  <2>1. Len(x.hist[t]) = 2 /\ x.hist[t][2].val = 1 /\ x.known[t][t] = 2
    BY DEF WroteOnce, AllOnce
  <2>2. n.known[t][t] \in Nat /\ n.known[t][t] <= Len(n.hist[t])
    BY <1>1, KnownFacts
  <2>a. n.known[t][t] >= x.known[t][t]
    BY DEF Untouched
  <2>3. n.hist[t] = x.hist[t] /\ n.known[t][t] = 2
    BY <1>1, <2>1, <2>2, <2>a
  <2>4. [st EXCEPT ![t] = s][t] = s
    OBVIOUS
  <2> QED
    BY <1>2, <2>1, <2>3, <2>4 DEF WroteOnce
<1>3. CASE u # t
  <2>1. WroteOnce(x, st, u)
    BY DEF AllOnce
  <2>2. n.hist[u] = x.hist[u] /\ n.known[u] = x.known[u] /\ [st EXCEPT ![t] = s][u] = st[u]
    BY <1>1, <1>3 DEF Untouched
  <2> QED
    BY <2>1, <2>2 DEF WroteOnce
<1> QED
  BY <1>2, <1>3

-----------------------------------------------------------------------------
(* References *)

LEMMA AtMost ==
  ASSUME NEW x, Whole(x, T, L, V), NEW t \in T, NEW k \in L, NEW z, Len(x.hist[k]) = z
  PROVE  /\ x.known[t][k] \in Nat /\ x.known[t][k] <= z /\ x.read[t][k] \in Nat /\ x.read[t][k] <= z
         /\ x.fenced[k] \in Nat /\ x.fenced[k] <= z
  BY KnownFacts

LEMMA AtLeast ==
  ASSUME NEW a \in Nat, NEW b \in Nat, NEW c \in {a, Later(a, b)}
  PROVE  c >= a
  BY DEF Later

LEMMA AsMuch ==
  ASSUME NEW a \in Nat, NEW b \in Nat, a >= b, b >= 2
  PROVE  a >= 2
  OBVIOUS

LEMMA LaterIs ==
  ASSUME NEW a \in Nat, NEW b \in Nat, NEW z \in Nat, a <= z, b <= z, a = z \/ b = z
  PROVE  Later(a, b) = z
  BY DEF Later

LEMMA RefsWrite ==
  ASSUME NEW x, NEW n, NEW st, NEW vl, NEW ul, NEW t \in T, Whole(x, T, L, V), RefsOK(x, st, vl),
         st[t] = "start", Stored(n, x, T, L, V, t, t, 1, "relaxed"), \A u \in T : ul[u] = vl[u]
  PROVE  RefsOK(n, [st EXCEPT ![t] = "release"], ul)
<1> DEFINE S == [st EXCEPT ![t] = "release"]
<1>0. st \in [T -> {"start", "release", "last?", "destroy"}] /\ DOMAIN st = T
  BY DEF RefsOK
<1>1. S \in [T -> {"start", "release", "last?", "destroy"}] /\ \A u \in T \ {t} : S[u] = st[u]
  BY <1>0
<1>2. S[t] = "release"
  BY <1>0
<1>3. \A u \in T : WroteOnce(n, S, u)
  BY <1>0, WriteOnce DEF RefsOK
<1> HIDE DEF S
<1>4. GaveUp(S) = GaveUp(st) /\ t \notin GaveUp(st)
  BY <1>1, <1>2 DEF GaveUp
<1>5. n.hist[0] = x.hist[0]
  BY Numbers DEF Stored
<1>6. n.read = x.read /\ \A u \in T \ {t} : n.known[u] = x.known[u]
  BY DEF Stored
<1>7. \A w \in T : S[w] = "last?" /\ ul[w] = 1 => GaveUp(S) = T /\ \A u \in T \ {w} : n.read[w][u] = 2
  BY <1>1, <1>2, <1>4, <1>6 DEF RefsOK
<1>8. \A w \in T : S[w] = "destroy" => GaveUp(S) = T /\ \A u \in T : n.known[w][u] = 2
  BY <1>1, <1>2, <1>4, <1>6 DEF RefsOK
<1>9. RefsOK(n, S, ul)
  BY <1>1, <1>3, <1>4, <1>5, <1>7, <1>8 DEF RefsOK, LastVal, LastView
<1> QED
  BY <1>9 DEF S

LEMMA RefsRelease ==
  ASSUME NEW x, NEW n, NEW st, NEW vl, NEW ul, NEW t \in T, Whole(x, T, L, V), RefsOK(x, st, vl),
         st[t] = "release", Changed(n, x, T, L, V, t, 0, LastVal(x, 0) - 1, "release"),
         ul[t] = LastVal(x, 0), \A u \in T \ {t} : ul[u] = vl[u]
  PROVE  RefsOK(n, [st EXCEPT ![t] = "last?"], ul)
<1> DEFINE S == [st EXCEPT ![t] = "last?"]
           G == GaveUp(st)
<1>0. st \in [T -> {"start", "release", "last?", "destroy"}] /\ DOMAIN st = T
  BY DEF RefsOK
<1>1. S \in [T -> {"start", "release", "last?", "destroy"}] /\ \A u \in T \ {t} : S[u] = st[u]
  BY <1>0
<1>2. S[t] = "last?"
  BY <1>0
<1>3. /\ Whole(n, T, L, V) /\ LastVal(n, 0) = LastVal(x, 0) - 1
      /\ \A u \in T : n.hist[u] = x.hist[u]
      /\ \A u \in T \ {t} : n.known[u] = x.known[u] /\ n.read[u] = x.read[u]
      /\ \A u \in T : /\ n.read[t][u] = Later(x.read[t][u], LastView(x, 0)[u])
                      /\ n.known[t][u] = x.known[t][u]
                      /\ LastView(n, 0)[u] = Later(x.known[t][u], LastView(x, 0)[u])
  BY Numbers DEF Changed, LastVal, LastView
<1>4. \A u \in T : WroteOnce(n, S, u)
  <2>1. n.known[t][t] >= x.known[t][t]
    BY <1>3, KnownFacts, Numbers
  <2>2. (\A u \in T : WroteOnce(x, st, u)) /\ st[t] # "start"
    BY DEF RefsOK
  <2>3. Whole(n, T, L, V) /\ (\A u \in T : n.hist[u] = x.hist[u]) /\ \A u \in T \ {t} : n.known[u] = x.known[u]
    BY <1>3
  <2>4. "last?" # "start" /\ DOMAIN st = T
    BY <1>0
  <2>5. AllOnce(x, st) /\ Untouched(n, x, t)
    BY <2>1, <2>2, <2>3, Zenon DEF AllOnce, Untouched
  <2>6. AllOnce(n, S)
    BY <2>2, <2>4, <2>5, OnceStays, Zenon
  <2> QED
    BY <2>6 DEF AllOnce
<1> HIDE DEF S
<1>5. GaveUp(S) = G \cup {t} /\ t \notin G /\ G \subseteq T
  BY <1>1, <1>2 DEF GaveUp
<1>6. IsFiniteSet(G) /\ Cardinality(G) \in Nat /\ Cardinality(GaveUp(S)) = Cardinality(G) + 1
  BY <1>5, Numbers, FS_Subset, FS_AddElement, FS_CardinalityType
<1>7. LastVal(x, 0) = N - Cardinality(G)
  BY DEF RefsOK
<1>8. LastVal(n, 0) = N - Cardinality(GaveUp(S))
  BY <1>3, <1>6, <1>7, Numbers
<1>9. \A u \in GaveUp(S) : Len(x.hist[u]) = 2 /\ u \in L
  BY <1>0, <1>5, Numbers DEF RefsOK, WroteOnce, GaveUp
<1>10. \A u \in T : /\ LastView(x, 0)[u] \in Nat /\ LastView(x, 0)[u] >= 1 /\ LastView(x, 0)[u] <= Len(x.hist[u])
                    /\ x.known[t][u] \in Nat /\ x.known[t][u] <= Len(x.hist[u])
                    /\ x.read[t][u] \in Nat /\ x.read[t][u] <= Len(x.hist[u])
  <2> TAKE u \in T
  <2>1. u \in L /\ 0 \in L
    BY Numbers
  <2>2. Len(x.hist[0]) \in 1 .. Len(x.hist[0])
    BY <2>1, KnownFacts, Zenon
  <2> QED
    BY <2>1, <2>2, KnownFacts, Zenon DEF LastView
<1>11. \A u \in G : LastView(x, 0)[u] = 2
  BY DEF RefsOK
<1>12. x.known[t][t] = 2
  BY DEF RefsOK, WroteOnce
<1>13. \A u \in GaveUp(S) : LastView(n, 0)[u] = 2
  <2> SUFFICES ASSUME NEW u \in GaveUp(S) PROVE LastView(n, 0)[u] = 2
    OBVIOUS
  <2>1. u \in T /\ LastView(n, 0)[u] = Later(x.known[t][u], LastView(x, 0)[u]) /\ Len(x.hist[u]) = 2
    BY <1>3, <1>5, <1>9
  <2>2. x.known[t][u] = 2 \/ LastView(x, 0)[u] = 2
    BY <1>5, <1>11, <1>12
  <2>3. /\ x.known[t][u] \in Nat /\ x.known[t][u] <= 2
        /\ LastView(x, 0)[u] \in Nat /\ LastView(x, 0)[u] <= 2
    BY <1>10, <2>1
  <2> QED
    BY <2>1, <2>2, <2>3, LaterIs
<1>14. ASSUME NEW w \in T, S[w] = "last?", ul[w] = 1
       PROVE  GaveUp(S) = T /\ \A u \in T \ {w} : n.read[w][u] = 2
  <2>1. CASE w # t
    <3>1. G = T
      BY <1>1, <1>14, <2>1 DEF RefsOK
    <3> QED
      BY <1>5, <3>1
  <2>2. CASE w = t
    <3>1. Cardinality(GaveUp(S)) = N
      BY <1>6, <1>7, <1>14, <2>2, Numbers
    <3>2. GaveUp(S) \subseteq T
      BY <1>5
    <3>3. GaveUp(S) = T
      BY <3>1, <3>2, Numbers, FS_Subset
    <3>4. ASSUME NEW u \in T \ {t} PROVE n.read[t][u] = 2
      <4>1. u \in G /\ Len(x.hist[u]) = 2
        BY <1>5, <1>9, <3>3
      <4>2. x.read[t][u] \in Nat /\ x.read[t][u] <= 2 /\ LastView(x, 0)[u] = 2
        BY <1>10, <1>11, <4>1
      <4> QED
        BY <1>3, <4>2, LaterIs
    <3> QED
      BY <2>2, <3>3, <3>4
  <2> QED
    BY <2>1, <2>2
<1>15. ASSUME NEW w \in T, S[w] = "destroy" PROVE GaveUp(S) = T /\ \A u \in T : n.known[w][u] = 2
  <2>1. w # t
    BY <1>2, <1>15
  <2>2. G = T
    BY <1>1, <1>15, <2>1 DEF RefsOK
  <2> QED
    BY <1>5, <2>2
<1>16. RefsOK(n, S, ul)
  BY <1>1, <1>4, <1>8, <1>13, <1>14, <1>15 DEF RefsOK
<1> QED
  BY <1>16 DEF S

LEMMA RefsBarrier ==
  ASSUME NEW x, NEW n, NEW st, NEW vl, NEW ul, NEW t \in T, Whole(x, T, L, V), RefsOK(x, st, vl),
         st[t] = "last?", vl[t] = 1, Exchanged(n, x, T, L, V, t), \A u \in T : ul[u] = vl[u]
  PROVE  RefsOK(n, [st EXCEPT ![t] = "destroy"], ul)
<1> DEFINE S == [st EXCEPT ![t] = "destroy"]
<1>0. st \in [T -> {"start", "release", "last?", "destroy"}] /\ DOMAIN st = T
  BY DEF RefsOK
<1>1. S \in [T -> {"start", "release", "last?", "destroy"}] /\ \A u \in T \ {t} : S[u] = st[u]
  BY <1>0
<1>2. S[t] = "destroy"
  BY <1>0
<1>3. /\ Whole(n, T, L, V) /\ n.hist = x.hist /\ n.read = x.read
      /\ \A u \in T \ {t} : n.known[u] = x.known[u]
      /\ \A u \in T : n.known[t][u] = Later(Later(x.known[t][u], x.read[t][u]), x.fenced[u])
  BY Numbers DEF Exchanged
<1>4. GaveUp(st) = T /\ \A u \in T \ {t} : x.read[t][u] = 2
  BY DEF RefsOK
<1>5. \A u \in T : Len(x.hist[u]) = 2 /\ x.known[u][u] = 2
  BY <1>0, <1>4 DEF RefsOK, WroteOnce, GaveUp
<1>6. \A u \in T : n.known[t][u] = 2
  <2> TAKE u \in T
  <2>1. u \in L
    BY Numbers
  <2>2. /\ x.known[t][u] \in Nat /\ x.known[t][u] <= 2 /\ x.read[t][u] \in Nat /\ x.read[t][u] <= 2
        /\ x.fenced[u] \in Nat /\ x.fenced[u] <= 2
    <3>1. /\ x.known[t][u] \in Nat /\ x.known[t][u] <= Len(x.hist[u])
          /\ x.read[t][u] \in Nat /\ x.read[t][u] <= Len(x.hist[u])
          /\ x.fenced[u] \in Nat /\ x.fenced[u] <= Len(x.hist[u])
      BY <2>1, KnownFacts
    <3>2. Len(x.hist[u]) = 2
      BY <1>5
    <3> QED
      BY <3>1, <3>2
  <2>3. x.known[t][u] = 2 \/ x.read[t][u] = 2
    BY <1>4, <1>5
  <2> QED
    BY <1>3, <2>2, <2>3 DEF Later
<1>7. \A u \in T : WroteOnce(n, S, u)
  <2>1. n.known[t][t] >= x.known[t][t]
    BY <1>5, <1>6
  <2>2. (\A u \in T : WroteOnce(x, st, u)) /\ st[t] # "start"
    BY DEF RefsOK
  <2>3. Whole(n, T, L, V) /\ (\A u \in T : n.hist[u] = x.hist[u]) /\ \A u \in T \ {t} : n.known[u] = x.known[u]
    BY <1>3
  <2>4. "destroy" # "start" /\ DOMAIN st = T
    BY DEF RefsOK
  <2>5. AllOnce(x, st) /\ Untouched(n, x, t)
    BY <2>1, <2>2, <2>3, Zenon DEF AllOnce, Untouched
  <2>6. AllOnce(n, S)
    BY <2>2, <2>4, <2>5, OnceStays, Zenon
  <2> QED
    BY <2>6 DEF AllOnce
<1> HIDE DEF S
<1>8. GaveUp(S) = GaveUp(st)
  BY <1>1, <1>2, <1>4 DEF GaveUp
<1>9. \A w \in T : S[w] = "last?" /\ ul[w] = 1 => GaveUp(S) = T /\ \A u \in T \ {w} : n.read[w][u] = 2
  BY <1>1, <1>2, <1>3, <1>8 DEF RefsOK
<1>10. \A w \in T : S[w] = "destroy" => GaveUp(S) = T /\ \A u \in T : n.known[w][u] = 2
  BY <1>1, <1>3, <1>4, <1>6, <1>8 DEF RefsOK
<1>11. RefsOK(n, S, ul)
  BY <1>1, <1>3, <1>7, <1>8, <1>9, <1>10 DEF RefsOK, LastVal, LastView
<1> QED
  BY <1>11 DEF S

-----------------------------------------------------------------------------
(* Counts *)

CountSteps == {"start", "add", "load", "look"}

LEMMA CountWrite ==
  ASSUME NEW x, NEW n, NEW st, NEW vl, NEW ul, NEW t \in T, Whole(x, T, L, V), CountOK(x, st, vl),
         st[t] = "start", Stored(n, x, T, L, V, t, t, 1, "relaxed"), \A u \in T : ul[u] = vl[u]
  PROVE  CountOK(n, [st EXCEPT ![t] = "add"], ul)
<1> DEFINE S == [st EXCEPT ![t] = "add"]
<1>0. st \in [T -> CountSteps] /\ DOMAIN st = T
  BY DEF CountOK, CountSteps
<1>1. S \in [T -> CountSteps] /\ \A u \in T \ {t} : S[u] = st[u]
  BY <1>0 DEF CountSteps
<1>2. S[t] = "add"
  BY <1>0
<1>3. \A u \in T : WroteOnce(n, S, u)
  BY <1>0, WriteOnce DEF CountOK
<1> HIDE DEF S
<1>4. Counts(S) = Counts(st)
  BY <1>1, <1>2 DEF Counts
<1>5. n.hist[0] = x.hist[0]
  BY Numbers DEF Stored
<1>6. /\ \A u \in T \ {t} : n.known[u] = x.known[u]
      /\ \A u \in T \ {t} : n.known[t][u] = x.known[t][u]
  BY Numbers DEF Stored
<1>7. ASSUME NEW w \in T, S[w] \in {"start", "add"} PROVE \A u \in T \ {w} : n.known[w][u] = 1
  <2>1. CASE w = t
    BY <1>6, <2>1 DEF CountOK
  <2>2. CASE w # t
    BY <1>1, <1>6, <1>7, <2>2 DEF CountOK
  <2> QED
    BY <2>1, <2>2
<1>8. \A w \in T : S[w] = "look" => ul[w] \in Nat /\ Cardinality(Has(n.known[w])) >= ul[w]
  BY <1>1, <1>2, <1>6 DEF CountOK
<1>9. \A i \in 1 .. Len(n.hist[0]) :
        /\ Has(n.hist[0][i].view) \subseteq Counts(S)
        /\ n.hist[0][i].val = Cardinality(Has(n.hist[0][i].view))
  BY <1>4, <1>5 DEF CountOK
<1>10. CountOK(n, S, ul)
  BY <1>1, <1>3, <1>7, <1>8, <1>9 DEF CountOK, CountSteps
<1> QED
  BY <1>10 DEF S

LEMMA CountAdd ==
  ASSUME NEW x, NEW n, NEW st, NEW vl, NEW ul, NEW t \in T, Whole(x, T, L, V), CountOK(x, st, vl),
         st[t] = "add", Changed(n, x, T, L, V, t, 0, LastVal(x, 0) + 1, "release"),
         \A u \in T \ {t} : ul[u] = vl[u]
  PROVE  CountOK(n, [st EXCEPT ![t] = "load"], ul)
<1> DEFINE S == [st EXCEPT ![t] = "load"]
           end == Len(x.hist[0])
           old == LastView(x, 0)
           new == LastView(n, 0)
<1>0. st \in [T -> CountSteps] /\ DOMAIN st = T
  BY DEF CountOK, CountSteps
<1>1. S \in [T -> CountSteps] /\ \A u \in T \ {t} : S[u] = st[u]
  BY <1>0 DEF CountSteps
<1>2. S[t] = "load"
  BY <1>0
<1>3. /\ Whole(n, T, L, V) /\ LastVal(n, 0) = LastVal(x, 0) + 1 /\ Len(n.hist[0]) = end + 1
      /\ \A i \in 1 .. end : n.hist[0][i] = x.hist[0][i]
      /\ \A u \in T : n.hist[u] = x.hist[u]
      /\ \A u \in T \ {t} : n.known[u] = x.known[u]
      /\ \A u \in T : /\ n.known[t][u] = x.known[t][u]
                      /\ new[u] = Later(x.known[t][u], old[u])
  BY Numbers DEF Changed, LastVal, LastView
<1>4. \A u \in T : WroteOnce(n, S, u)
  <2>1. n.known[t][t] >= x.known[t][t]
    BY <1>3, KnownFacts, Numbers
  <2>2. (\A u \in T : WroteOnce(x, st, u)) /\ st[t] # "start"
    BY DEF CountOK
  <2>3. Whole(n, T, L, V) /\ (\A u \in T : n.hist[u] = x.hist[u]) /\ \A u \in T \ {t} : n.known[u] = x.known[u]
    BY <1>3
  <2>4. "load" # "start" /\ DOMAIN st = T
    BY <1>0
  <2>5. AllOnce(x, st) /\ Untouched(n, x, t)
    BY <2>1, <2>2, <2>3, Zenon DEF AllOnce, Untouched
  <2>6. AllOnce(n, S)
    BY <2>2, <2>4, <2>5, OnceStays, Zenon
  <2> QED
    BY <2>6 DEF AllOnce
<1> HIDE DEF S
<1>5. Counts(S) = Counts(st) \cup {t} /\ t \notin Counts(st)
  BY <1>1, <1>2 DEF Counts
<1>6. end \in Nat \ {0} /\ end \in 1 .. end
  BY KnownFacts, Numbers
<1>7. Has(old) \subseteq Counts(st) /\ LastVal(x, 0) = Cardinality(Has(old))
  BY <1>6 DEF CountOK, LastVal, LastView
<1>8. Has(new) = Has(old) \cup {t}
  <2>1. ASSUME NEW u \in T PROVE new[u] = 2 <=> old[u] = 2 \/ u = t
    <3>1. u \in L /\ 0 \in L
      BY Numbers
    <3>2. old[u] \in Nat /\ old[u] >= 1 /\ old[u] <= Len(x.hist[u])
      BY <1>6, <3>1, KnownFacts DEF LastView
    <3>3. CASE u = t
      <4>1. x.known[t][t] = 2 /\ Len(x.hist[t]) = 2
        BY DEF CountOK, WroteOnce
      <4> QED
        BY <1>3, <3>2, <3>3, <4>1 DEF Later
    <3>4. CASE u # t
      <4>1. x.known[t][u] = 1
        BY <3>4 DEF CountOK
      <4> QED
        BY <1>3, <3>2, <3>4, <4>1 DEF Later
    <3> QED
      BY <3>3, <3>4
  <2> QED
    BY <2>1 DEF Has
<1>9. IsFiniteSet(Has(old)) /\ Cardinality(Has(new)) = Cardinality(Has(old)) + 1
  <2>1. Has(old) \subseteq T
    BY DEF Has
  <2>2. IsFiniteSet(Has(old))
    BY <2>1, Numbers, FS_Subset
  <2>3. t \notin Has(old)
    BY <1>5, <1>7
  <2> QED
    BY <1>8, <2>2, <2>3, FS_AddElement
<1>10. ASSUME NEW i \in 1 .. Len(n.hist[0])
       PROVE  /\ Has(n.hist[0][i].view) \subseteq Counts(S)
              /\ n.hist[0][i].val = Cardinality(Has(n.hist[0][i].view))
  <2>1. CASE i = end + 1
    <3>1. n.hist[0][i].view = new /\ n.hist[0][i].val = LastVal(n, 0)
      BY <1>3, <2>1 DEF LastView, LastVal
    <3> QED
      BY <1>3, <1>5, <1>7, <1>8, <1>9, <3>1
  <2>2. CASE i # end + 1
    <3>1. i \in 1 .. end
      BY <1>3, <1>6, <2>2
    <3> QED
      BY <1>3, <1>5, <3>1 DEF CountOK
  <2> QED
    BY <2>1, <2>2
<1>11. \A w \in T : S[w] \in {"start", "add"} => \A u \in T \ {w} : n.known[w][u] = 1
  BY <1>1, <1>2, <1>3 DEF CountOK
<1>12. \A w \in T : S[w] = "look" => ul[w] \in Nat /\ Cardinality(Has(n.known[w])) >= ul[w]
  BY <1>1, <1>2, <1>3 DEF CountOK
<1>13. CountOK(n, S, ul)
  BY <1>1, <1>4, <1>10, <1>11, <1>12 DEF CountOK, CountSteps
<1> QED
  BY <1>13 DEF S

LEMMA CountLoad ==
  ASSUME NEW x, NEW n, NEW st, NEW vl, NEW ul, NEW t \in T, Whole(x, T, L, V), CountOK(x, st, vl),
         st[t] = "load", NEW i \in 1 .. Len(x.hist[0]), Learned(n, x, T, L, V, t, 0, i, "acquire"),
         ul[t] = x.hist[0][i].val, \A u \in T \ {t} : ul[u] = vl[u]
  PROVE  CountOK(n, [st EXCEPT ![t] = "look"], ul)
<1> DEFINE S == [st EXCEPT ![t] = "look"]
           w == x.hist[0][i].view
<1>0. st \in [T -> CountSteps] /\ DOMAIN st = T
  BY DEF CountOK, CountSteps
<1>1. S \in [T -> CountSteps] /\ \A u \in T \ {t} : S[u] = st[u]
  BY <1>0 DEF CountSteps
<1>2. S[t] = "look"
  BY <1>0
<1>3. /\ Whole(n, T, L, V) /\ n.hist = x.hist
      /\ \A u \in T \ {t} : n.known[u] = x.known[u]
      /\ \A u \in T : n.known[t][u] = Later(x.known[t][u], w[u])
  BY Numbers DEF Learned
<1>4. ASSUME NEW u \in T
      PROVE  /\ x.known[t][u] \in Nat /\ x.known[t][u] <= Len(x.hist[u])
             /\ w[u] \in Nat /\ w[u] <= Len(x.hist[u])
  BY KnownFacts, Numbers
<1>5. \A u \in T : WroteOnce(n, S, u)
  <2>1. n.known[t][t] >= x.known[t][t]
    BY <1>3, <1>4 DEF Later
  <2>2. (\A u \in T : WroteOnce(x, st, u)) /\ st[t] # "start"
    BY DEF CountOK
  <2>3. Whole(n, T, L, V) /\ (\A u \in T : n.hist[u] = x.hist[u]) /\ \A u \in T \ {t} : n.known[u] = x.known[u]
    BY <1>3
  <2>4. "look" # "start" /\ DOMAIN st = T
    BY <1>0
  <2>5. AllOnce(x, st) /\ Untouched(n, x, t)
    BY <2>1, <2>2, <2>3, Zenon DEF AllOnce, Untouched
  <2>6. AllOnce(n, S)
    BY <2>2, <2>4, <2>5, OnceStays, Zenon
  <2> QED
    BY <2>6 DEF AllOnce
<1> HIDE DEF S
<1>6. Counts(S) = Counts(st)
  BY <1>1, <1>2 DEF Counts
<1>7. Has(w) \subseteq Counts(st) /\ x.hist[0][i].val = Cardinality(Has(w))
  BY DEF CountOK
<1>8. Has(w) \subseteq Has(n.known[t])
  <2> SUFFICES ASSUME NEW u \in Has(w) PROVE n.known[t][u] = 2
    BY DEF Has
  <2>1. u \in T /\ w[u] = 2 /\ u \in Counts(st)
    BY <1>7 DEF Has
  <2>2. Len(x.hist[u]) = 2
    BY <2>1 DEF CountOK, WroteOnce, Counts
  <2>3. x.known[t][u] \in Nat /\ x.known[t][u] <= 2
    BY <1>4, <2>1, <2>2
  <2> QED
    BY <1>3, <2>1, <2>3, LaterIs
<1>9. ul[t] \in Nat /\ Cardinality(Has(n.known[t])) >= ul[t]
  <2>1. Has(n.known[t]) \subseteq T
    BY DEF Has
  <2>2. IsFiniteSet(Has(n.known[t]))
    BY <2>1, Numbers, FS_Subset
  <2>3. /\ IsFiniteSet(Has(w)) /\ Cardinality(Has(w)) <= Cardinality(Has(n.known[t]))
    BY <1>8, <2>2, FS_Subset
  <2>4. Cardinality(Has(w)) \in Nat /\ Cardinality(Has(n.known[t])) \in Nat
    BY <2>2, <2>3, FS_CardinalityType
  <2> QED
    BY <1>7, <2>3, <2>4
<1>10. \A v \in T : S[v] \in {"start", "add"} => \A u \in T \ {v} : n.known[v][u] = 1
  BY <1>1, <1>2, <1>3 DEF CountOK
<1>11. \A v \in T : S[v] = "look" => ul[v] \in Nat /\ Cardinality(Has(n.known[v])) >= ul[v]
  BY <1>1, <1>3, <1>9 DEF CountOK
<1>12. \A j \in 1 .. Len(n.hist[0]) :
        /\ Has(n.hist[0][j].view) \subseteq Counts(S)
        /\ n.hist[0][j].val = Cardinality(Has(n.hist[0][j].view))
  BY <1>3, <1>6 DEF CountOK
<1>13. CountOK(n, S, ul)
  BY <1>1, <1>5, <1>10, <1>11, <1>12 DEF CountOK, CountSteps
<1> QED
  BY <1>13 DEF S

-----------------------------------------------------------------------------
(* The lock *)

LockSteps == {"start", "work", "update", "unlock"}

LEMMA LockTaken ==
  ASSUME NEW x, NEW n, NEW st, NEW vl, NEW ul, NEW t \in T, Whole(x, T, L, V), LockOK(x, st, vl),
         LastVal(x, 0) = 0, Changed(n, x, T, L, V, t, 0, 1, "acquire")
  PROVE  LockOK(n, [st EXCEPT ![t] = "work"], ul)
<1> DEFINE S == [st EXCEPT ![t] = "work"]
<1>0. st \in [T -> LockSteps] /\ DOMAIN st = T
  BY DEF LockOK, LockSteps
<1>1. S \in [T -> LockSteps] /\ S[t] = "work" /\ \A u \in T \ {t} : S[u] = st[u]
  BY <1>0 DEF LockSteps
<1>2. \A u \in T : st[u] = "start"
  BY DEF LockOK
<1> HIDE DEF S
<1>3. /\ LastVal(n, 0) = 1 /\ n.hist[1] = x.hist[1]
      /\ n.known[t][1] = Later(x.known[t][1], LastView(x, 0)[1])
  BY Numbers DEF Changed, LastVal, LastView
<1>4. LastView(x, 0)[1] = Len(x.hist[1]) /\ 1 \in L
  BY Numbers DEF LockOK
<1>5. x.known[t][1] \in Nat /\ x.known[t][1] <= Len(x.hist[1]) /\ Len(x.hist[1]) \in Nat
  BY <1>4, KnownFacts
<1>6. n.known[t][1] = Len(n.hist[1])
  BY <1>3, <1>4, <1>5, LaterIs
<1>7. LockOK(n, S, ul)
  BY <1>1, <1>2, <1>3, <1>6 DEF LockOK, LockSteps
<1> QED
  BY <1>7 DEF S

LEMMA LockBusy ==
  ASSUME NEW x, NEW n, NEW st, NEW vl, NEW ul, NEW t \in T, LockOK(x, st, vl), st[t] = "start",
         NEW i, Learned(n, x, T, L, V, t, 0, i, "acquire"), \A u \in T \ {t} : ul[u] = vl[u]
  PROVE  LockOK(n, [st EXCEPT ![t] = "start"], ul)
<1>0. st \in [T -> LockSteps] /\ DOMAIN st = T
  BY DEF LockOK, LockSteps
<1>1. [st EXCEPT ![t] = "start"] = st
  BY <1>0
<1>2. n.hist = x.hist /\ \A u \in T \ {t} : n.known[u] = x.known[u]
  BY DEF Learned
<1>3. LockOK(n, st, ul)
  BY <1>2 DEF LockOK, LastVal, LastView
<1> QED
  BY <1>1, <1>3

LEMMA LockRead ==
  ASSUME NEW x, NEW n, NEW st, NEW vl, NEW ul, NEW t \in T, Whole(x, T, L, V), LockOK(x, st, vl),
         st[t] = "work", NEW i \in 1 .. Len(x.hist[1]), i >= x.known[t][1],
         Learned(n, x, T, L, V, t, 1, i, "relaxed"), ul[t] = x.hist[1][i].val
  PROVE  LockOK(n, [st EXCEPT ![t] = "update"], ul)
<1> DEFINE S == [st EXCEPT ![t] = "update"]
<1>0. st \in [T -> LockSteps] /\ DOMAIN st = T
  BY DEF LockOK, LockSteps
<1>1. S \in [T -> LockSteps] /\ S[t] = "update" /\ \A u \in T \ {t} : S[u] = st[u]
  BY <1>0 DEF LockSteps
<1> HIDE DEF S
<1>2. LastVal(x, 0) = 1 /\ x.known[t][1] = Len(x.hist[1]) /\ \A u \in T \ {t} : st[u] = "start"
  BY DEF LockOK
<1>3. Whole(n, T, L, V) /\ n.hist = x.hist /\ n.known[t][1] >= x.known[t][1]
  BY DEF Learned
<1>4. Len(x.hist[1]) \in Nat /\ n.known[t][1] \in Nat /\ n.known[t][1] <= Len(n.hist[1])
  BY <1>3, KnownFacts, Numbers
<1>5. i = Len(x.hist[1]) /\ n.known[t][1] = Len(n.hist[1])
  BY <1>2, <1>3, <1>4
<1>6. ul[t] = Len(n.hist[1]) - 1
  BY <1>3, <1>5 DEF LockOK
<1>7. LastVal(n, 0) = 1
  BY <1>2, <1>3 DEF LastVal
<1>8. \A j \in 1 .. Len(n.hist[1]) : n.hist[1][j].val = j - 1
  BY <1>3 DEF LockOK
<1>9. LockOK(n, S, ul)
  BY <1>1, <1>2, <1>5, <1>6, <1>7, <1>8 DEF LockOK, LockSteps
<1> QED
  BY <1>9 DEF S

LEMMA LockUpdate ==
  ASSUME NEW x, NEW n, NEW st, NEW vl, NEW ul, NEW t \in T, Whole(x, T, L, V), LockOK(x, st, vl),
         st[t] = "update", Stored(n, x, T, L, V, t, 1, vl[t] + 1, "relaxed")
  PROVE  LockOK(n, [st EXCEPT ![t] = "unlock"], ul)
<1> DEFINE S == [st EXCEPT ![t] = "unlock"]
           end == Len(x.hist[1])
<1>0. st \in [T -> LockSteps] /\ DOMAIN st = T
  BY DEF LockOK, LockSteps
<1>1. S \in [T -> LockSteps] /\ S[t] = "unlock" /\ \A u \in T \ {t} : S[u] = st[u]
  BY <1>0 DEF LockSteps
<1> HIDE DEF S
<1>2. LastVal(x, 0) = 1 /\ vl[t] = end - 1 /\ \A u \in T \ {t} : st[u] = "start"
  BY DEF LockOK
<1>3. end \in Nat \ {0}
  BY KnownFacts, Numbers
<1>4. /\ n.hist[0] = x.hist[0] /\ Len(n.hist[1]) = end + 1 /\ n.known[t][1] = end + 1
      /\ n.hist[1][end + 1].val = vl[t] + 1
      /\ \A j \in 1 .. end : n.hist[1][j] = x.hist[1][j]
  BY Numbers DEF Stored
<1>5. LastVal(n, 0) = 1
  BY <1>2, <1>4 DEF LastVal
<1>6. ASSUME NEW j \in 1 .. Len(n.hist[1]) PROVE n.hist[1][j].val = j - 1
  <2>1. CASE j = end + 1
    BY <1>2, <1>3, <1>4, <2>1
  <2>2. CASE j # end + 1
    <3>1. j \in 1 .. end
      BY <1>3, <1>4, <2>2
    <3> QED
      BY <1>4, <3>1 DEF LockOK
  <2> QED
    BY <2>1, <2>2
<1>7. LockOK(n, S, ul)
  BY <1>1, <1>2, <1>4, <1>5, <1>6 DEF LockOK, LockSteps
<1> QED
  BY <1>7 DEF S

LEMMA LockGiven ==
  ASSUME NEW x, NEW n, NEW st, NEW vl, NEW ul, NEW t \in T, Whole(x, T, L, V), LockOK(x, st, vl), st[t] = "unlock",
         Stored(n, x, T, L, V, t, 0, 0, "release") \/ Changed(n, x, T, L, V, t, 0, 0, "release")
  PROVE  LockOK(n, [st EXCEPT ![t] = "start"], ul)
<1> DEFINE S == [st EXCEPT ![t] = "start"]
<1>0. st \in [T -> LockSteps] /\ DOMAIN st = T
  BY DEF LockOK, LockSteps
<1>1. S \in [T -> LockSteps] /\ S[t] = "start" /\ \A u \in T \ {t} : S[u] = st[u]
  BY <1>0 DEF LockSteps
<1> HIDE DEF S
<1>2. x.known[t][1] = Len(x.hist[1]) /\ \A u \in T \ {t} : st[u] = "start"
  BY DEF LockOK
<1>3. \A u \in T : S[u] = "start"
  BY <1>1, <1>2
<1>4. /\ n.hist[1] = x.hist[1]
      /\ LastView(n, 0)[1] = x.known[t][1] \/ LastView(n, 0)[1] = Later(x.known[t][1], LastView(x, 0)[1])
  <2>1. CASE Stored(n, x, T, L, V, t, 0, 0, "release")
    <3>1. 0 \in L /\ 1 \in L \ {0}
      BY Numbers
    <3>2. Len(n.hist[0]) = Len(x.hist[0]) + 1 /\ n.hist[1] = x.hist[1]
      BY <2>1, <3>1 DEF Stored
    <3>3. n.hist[0][Len(x.hist[0]) + 1].view[1] = x.known[t][1]
      BY <2>1, <3>1 DEF Stored
    <3> QED
      BY <3>2, <3>3 DEF LastView
  <2>2. CASE Changed(n, x, T, L, V, t, 0, 0, "release")
    <3>1. 1 \in L \ {0}
      BY Numbers
    <3>2. Len(n.hist[0]) = Len(x.hist[0]) + 1 /\ n.hist[1] = x.hist[1]
      BY <2>2, <3>1 DEF Changed
    <3>3. n.hist[0][Len(x.hist[0]) + 1].view[1] = Later(x.known[t][1], x.hist[0][Len(x.hist[0])].view[1])
      BY <2>2, <3>1 DEF Changed
    <3> QED
      BY <3>2, <3>3 DEF LastView
  <2> QED
    BY <2>1, <2>2
<1>5. LastView(x, 0)[1] \in Nat /\ LastView(x, 0)[1] <= Len(x.hist[1]) /\ Len(x.hist[1]) \in Nat
  BY KnownFacts, Numbers DEF LastView
<1>6. LastView(n, 0)[1] = Len(n.hist[1])
  BY <1>2, <1>4, <1>5, LaterIs
<1>7. LockOK(n, S, ul)
  BY <1>1, <1>3, <1>4, <1>6 DEF LockOK, LockSteps
<1> QED
  BY <1>7 DEF S

-----------------------------------------------------------------------------
(* The bit *)

LEMMA BitSet ==
  ASSUME NEW x, NEW n, NEW st, NEW t \in T, BitOK(x, st), st[t] = "start", NEW s,
         s = IF 0 \notin LastVal(x, 0) THEN "own" ELSE "start",
         Changed(n, x, T, L, V, t, 0, LastVal(x, 0) \cup {0}, "release")
  PROVE  BitOK(n, [st EXCEPT ![t] = s])
<1>1. LastVal(n, 0) = LastVal(x, 0) \cup {0}
  BY DEF Changed, LastVal
<1>2. st \in [T -> {"start", "own"}] /\ LastVal(x, 0) \in SUBSET {0, 1}
  BY DEF BitOK
<1>3. \A u \in T : st[u] = "own" => 0 \in LastVal(x, 0) /\ \A v \in T : st[v] = "own" => v = u
  BY DEF BitOK
<1> QED
  BY <1>1, <1>2, <1>3 DEF BitOK

LEMMA BitCleared ==
  ASSUME NEW x, NEW n, NEW st, NEW t \in T, BitOK(x, st), st[t] = "own",
         Changed(n, x, T, L, V, t, 0, LastVal(x, 0) \cap {1}, "release")
  PROVE  BitOK(n, [st EXCEPT ![t] = "start"])
<1>1. LastVal(n, 0) = LastVal(x, 0) \cap {1}
  BY DEF Changed, LastVal
<1>2. st \in [T -> {"start", "own"}] /\ LastVal(x, 0) \in SUBSET {0, 1}
  BY DEF BitOK
<1>3. \A u \in T : st[u] = "own" => u = t
  BY DEF BitOK
<1> QED
  BY <1>1, <1>2, <1>3 DEF BitOK

-----------------------------------------------------------------------------
(* Announcements *)

AnnounceSteps == {"start", "acquire", "release", "looked"}
Pair(t, u) == t \in {1, 2} /\ u \in {1, 2} /\ t # u

LEMMA PairFacts ==
  ASSUME NEW t, NEW u, Pair(t, u)
  PROVE  /\ t \in T /\ u \in T /\ t \in L /\ u \in L /\ t # u
         /\ \A v \in {1, 2} : v = t \/ v = u
  BY Numbers DEF Pair

(* The invariant for a pair.                                               *)
LEMMA AnnouncePair ==
  ASSUME NEW x, NEW st, NEW vl, NEW t, NEW u, Pair(t, u)
  PROVE  AnnounceOK(x, st, vl) <=>
           /\ st \in [T -> AnnounceSteps]
           /\ \A v \in T : WroteOnce(x, st, v)
           /\ (Passed(st, t) => x.fenced[t] = 2) /\ (Passed(st, u) => x.fenced[u] = 2)
           /\ Passed(st, t) /\ Passed(st, u) => Sees(x, st, vl, t, u) \/ Sees(x, st, vl, u, t)
<1>1. CASE t = 1 /\ u = 2
  BY <1>1 DEF AnnounceOK, AnnounceSteps
<1>2. CASE t = 2 /\ u = 1
  BY <1>2 DEF AnnounceOK, AnnounceSteps
<1> QED
  BY <1>1, <1>2 DEF Pair

LEMMA AnnounceFenced ==
  ASSUME NEW x, NEW st, NEW vl, NEW t, NEW u, Pair(t, u), AnnounceOK(x, st, vl)
  PROVE  (Passed(st, t) => x.fenced[t] = 2) /\ (Passed(st, u) => x.fenced[u] = 2)
  BY AnnouncePair

LEMMA AnnounceStore ==
  ASSUME NEW x, NEW n, NEW st, NEW vl, NEW ul, NEW t, NEW u, Pair(t, u), Whole(x, T, L, V), AnnounceOK(x, st, vl),
         st[t] = "start", Stored(n, x, T, L, V, t, t, 1, "release"), \A v \in T : ul[v] = vl[v]
  PROVE  AnnounceOK(n, [st EXCEPT ![t] = "release"], ul)
<1> DEFINE S == [st EXCEPT ![t] = "release"]
<1>0. t \in T /\ u \in T /\ t # u /\ st \in [T -> AnnounceSteps] /\ DOMAIN st = T
  BY PairFacts DEF AnnounceOK, AnnounceSteps
<1>1. S \in [T -> AnnounceSteps] /\ S[t] = "release" /\ S[u] = st[u]
  BY <1>0 DEF AnnounceSteps
<1>2. \A v \in T : WroteOnce(n, S, v)
  BY <1>0, WriteOnce DEF AnnounceOK
<1> HIDE DEF S
<1>3. n.fenced = x.fenced
  BY DEF Stored
<1>4. ~Passed(S, t) /\ (Passed(S, u) => n.fenced[u] = 2)
  BY <1>1, <1>3, AnnounceFenced DEF Passed
<1>5. AnnounceOK(n, S, ul)
  BY <1>1, <1>2, <1>4, AnnouncePair
<1> QED
  BY <1>5 DEF S

LEMMA AnnounceStoreFence ==
  ASSUME NEW x, NEW y, NEW n, NEW st, NEW vl, NEW ul, NEW t, NEW u, Pair(t, u), Whole(x, T, L, V), AnnounceOK(x, st, vl),
         st[t] = "start", Stored(y, x, T, L, V, t, t, 1, "relaxed"), Exchanged(n, y, T, L, V, t),
         \A v \in T : ul[v] = vl[v]
  PROVE  AnnounceOK(n, [st EXCEPT ![t] = "acquire"], ul)
<1> DEFINE R == [st EXCEPT ![t] = "release"]
           S == [R EXCEPT ![t] = "acquire"]
<1>0. t \in T /\ u \in T /\ t \in L /\ u \in L /\ t # u /\ st \in [T -> AnnounceSteps] /\ DOMAIN st = T
  BY PairFacts DEF AnnounceOK, AnnounceSteps
<1>1. R \in [T -> AnnounceSteps] /\ R[t] = "release" /\ R[u] = st[u]
  BY <1>0 DEF AnnounceSteps
<1>2. \A v \in T : WroteOnce(y, R, v)
  BY <1>0, WriteOnce DEF AnnounceOK
<1>3. S = [st EXCEPT ![t] = "acquire"]
  BY <1>0
<1> HIDE DEF R
<1>4. S \in [T -> AnnounceSteps] /\ S[t] = "acquire" /\ S[u] = st[u]
  BY <1>0, <1>1 DEF AnnounceSteps
<1>5. /\ Whole(y, T, L, V) /\ Whole(n, T, L, V) /\ y.fenced = x.fenced
      /\ n.hist = y.hist /\ \A v \in T \ {t} : n.known[v] = y.known[v]
      /\ \A k \in L : n.known[t][k] = Later(Later(y.known[t][k], y.read[t][k]), y.fenced[k])
      /\ n.fenced = n.known[t]
  BY DEF Stored, Exchanged
<1>6. y.known[t][t] = 2 /\ Len(y.hist[t]) = 2
  BY <1>0, <1>1, <1>2 DEF WroteOnce
<1>7. ASSUME NEW k \in L, Len(y.hist[k]) = 2, y.known[t][k] = 2 \/ y.fenced[k] = 2 PROVE n.known[t][k] = 2
  <2>1. /\ y.known[t][k] \in Nat /\ y.known[t][k] <= 2 /\ y.read[t][k] \in Nat /\ y.read[t][k] <= 2
        /\ y.fenced[k] \in Nat /\ y.fenced[k] <= 2
    BY <1>0, <1>5, <1>7, AtMost
  <2> QED
    BY <1>5, <1>7, <2>1 DEF Later
<1>8. n.known[t][t] = 2
  BY <1>0, <1>6, <1>7
<1>9. \A v \in T : WroteOnce(n, S, v)
  <2>1. n.known[t][t] >= y.known[t][t]
    BY <1>6, <1>8
  <2>2. R[t] # "start" /\ "acquire" # "start" /\ DOMAIN R = T
    BY <1>1
  <2>3. \A v \in T : n.hist[v] = y.hist[v]
    BY <1>5
  <2>4. AllOnce(y, R) /\ Untouched(n, y, t)
    BY <1>2, <1>5, <2>1, <2>3, Zenon DEF AllOnce, Untouched
  <2>5. AllOnce(n, [R EXCEPT ![t] = "acquire"])
    BY <1>0, <2>2, <2>4, OnceStays, Zenon
  <2> QED
    BY <2>5 DEF AllOnce
<1> HIDE DEF S
<1>10. n.fenced[t] = 2
  BY <1>5, <1>8
<1>11. Passed(st, u) => n.known[t][u] = 2 /\ n.fenced[u] = 2
  <2> SUFFICES ASSUME Passed(st, u) PROVE n.known[t][u] = 2
    BY <1>5
  <2>1. y.fenced[u] = 2
    BY <1>5, AnnounceFenced
  <2>2. Len(y.hist[u]) = 2
    BY <1>0, <1>1, <1>2 DEF WroteOnce, Passed
  <2> QED
    BY <1>0, <1>7, <2>1, <2>2
<1>12. Passed(S, u) => Sees(n, S, ul, t, u) /\ n.fenced[u] = 2
  BY <1>4, <1>11 DEF Passed, Sees
<1>13. AnnounceOK(n, S, ul)
  BY <1>4, <1>9, <1>10, <1>12, AnnouncePair
<1> QED
  BY <1>3, <1>13

LEMMA AnnounceLook ==
  ASSUME NEW x, NEW n, NEW st, NEW vl, NEW ul, NEW t, NEW u, Pair(t, u), Whole(x, T, L, V), AnnounceOK(x, st, vl),
         st[t] = "acquire", NEW i \in 1 .. Len(x.hist[u]), i >= x.known[t][u], NEW order,
         Learned(n, x, T, L, V, t, u, i, order), ul[t] = x.hist[u][i].val, \A v \in T \ {t} : ul[v] = vl[v]
  PROVE  AnnounceOK(n, [st EXCEPT ![t] = "looked"], ul)
<1> DEFINE S == [st EXCEPT ![t] = "looked"]
<1>0. t \in T /\ u \in T /\ t \in L /\ u \in L /\ t # u /\ st \in [T -> AnnounceSteps] /\ DOMAIN st = T
  BY PairFacts DEF AnnounceOK, AnnounceSteps
<1>1. S \in [T -> AnnounceSteps] /\ S[t] = "looked" /\ S[u] = st[u]
  BY <1>0 DEF AnnounceSteps
<1>2. /\ Whole(n, T, L, V) /\ n.hist = x.hist /\ n.fenced = x.fenced
      /\ \A v \in T \ {t} : n.known[v] = x.known[v]
      /\ n.known[t][t] \in {x.known[t][t], Later(x.known[t][t], x.hist[u][i].view[t])}
      /\ n.known[t][u] >= x.known[t][u]
  BY <1>0 DEF Learned
<1>3. \A v \in T : WroteOnce(n, S, v)
  <2>1. x.known[t][t] \in Nat /\ x.hist[u][i].view[t] \in Nat
    BY <1>0, KnownFacts
  <2>2. n.known[t][t] >= x.known[t][t]
    BY <1>2, <2>1, AtLeast, Zenon
  <2>3. (\A v \in T : WroteOnce(x, st, v)) /\ st[t] # "start" /\ "looked" # "start"
    BY DEF AnnounceOK
  <2>4. \A v \in T : n.hist[v] = x.hist[v]
    BY <1>2
  <2>5. AllOnce(x, st) /\ Untouched(n, x, t)
    BY <1>2, <2>2, <2>3, <2>4, Zenon DEF AllOnce, Untouched
  <2>6. AllOnce(n, [st EXCEPT ![t] = "looked"])
    BY <1>0, <2>3, <2>5, OnceStays, Zenon
  <2> QED
    BY <2>6 DEF AllOnce
<1> HIDE DEF S
<1>4. Passed(st, t) /\ (Passed(S, u) <=> Passed(st, u)) /\ n.fenced[t] = 2 /\ (Passed(S, u) => n.fenced[u] = 2)
  BY <1>1, <1>2, AnnounceFenced DEF Passed
<1>5. ASSUME Passed(st, u), Sees(x, st, vl, t, u) PROVE Sees(n, S, ul, t, u)
  <2>1. x.known[t][u] = 2 /\ Len(x.hist[u]) = 2 /\ x.hist[u][2].val = 1
    BY <1>0, <1>5 DEF AnnounceOK, WroteOnce, Passed, Sees
  <2>2. i = 2
    BY <2>1
  <2>a. Len(n.hist[u]) = 2
    BY <1>2, <2>1
  <2>3. n.known[t][u] \in Nat /\ n.known[t][u] <= 2
    BY <1>0, <1>2, <2>a, AtMost, Zenon
  <2> QED
    BY <1>1, <1>2, <2>1, <2>2, <2>3 DEF Sees
<1>6. Sees(x, st, vl, u, t) => Sees(n, S, ul, u, t)
  BY <1>0, <1>1, <1>2 DEF Sees
<1>7. Passed(S, u) => Sees(n, S, ul, t, u) \/ Sees(n, S, ul, u, t)
  BY <1>4, <1>5, <1>6, AnnouncePair
<1>8. AnnounceOK(n, S, ul)
  BY <1>1, <1>3, <1>4, <1>7, AnnouncePair
<1> QED
  BY <1>8 DEF S

(* The fence before the load.                                              *)
LEMMA AnnounceFence ==
  ASSUME NEW x, NEW n, NEW st, NEW vl, NEW t, NEW u, Pair(t, u), Whole(x, T, L, V), AnnounceOK(x, st, vl),
         st[t] = "release", Exchanged(n, x, T, L, V, t)
  PROVE  AnnounceOK(n, [st EXCEPT ![t] = "acquire"], vl)
<1> DEFINE S == [st EXCEPT ![t] = "acquire"]
<1>0. t \in T /\ u \in T /\ t \in L /\ u \in L /\ t # u /\ st \in [T -> AnnounceSteps] /\ DOMAIN st = T
  BY PairFacts DEF AnnounceOK, AnnounceSteps
<1>1. S \in [T -> AnnounceSteps] /\ S[t] = "acquire" /\ S[u] = st[u]
  BY <1>0 DEF AnnounceSteps
<1>2. /\ Whole(n, T, L, V) /\ n.hist = x.hist /\ \A v \in T \ {t} : n.known[v] = x.known[v]
      /\ \A k \in L : n.known[t][k] = Later(Later(x.known[t][k], x.read[t][k]), x.fenced[k])
      /\ n.fenced = n.known[t]
  BY DEF Exchanged
<1>3. ASSUME NEW k \in L, Len(x.hist[k]) = 2, x.known[t][k] = 2 \/ x.fenced[k] = 2 PROVE n.known[t][k] = 2
  <2>1. /\ x.known[t][k] \in Nat /\ x.known[t][k] <= 2 /\ x.read[t][k] \in Nat /\ x.read[t][k] <= 2
        /\ x.fenced[k] \in Nat /\ x.fenced[k] <= 2
    BY <1>0, <1>3, AtMost
  <2> QED
    BY <1>2, <1>3, <2>1 DEF Later
<1>4. x.known[t][t] = 2 /\ Len(x.hist[t]) = 2
  BY <1>0 DEF AnnounceOK, WroteOnce
<1>5. n.known[t][t] = 2
  BY <1>0, <1>3, <1>4
<1>6. \A v \in T : WroteOnce(n, S, v)
  <2>1. n.known[t][t] >= x.known[t][t]
    BY <1>4, <1>5
  <2>2. (\A v \in T : WroteOnce(x, st, v)) /\ st[t] # "start" /\ "acquire" # "start"
    BY DEF AnnounceOK
  <2>3. \A v \in T : n.hist[v] = x.hist[v]
    BY <1>2
  <2>4. AllOnce(x, st) /\ Untouched(n, x, t)
    BY <1>2, <2>1, <2>2, <2>3, Zenon DEF AllOnce, Untouched
  <2>5. AllOnce(n, [st EXCEPT ![t] = "acquire"])
    BY <1>0, <2>2, <2>4, OnceStays, Zenon
  <2> QED
    BY <2>5 DEF AllOnce
<1> HIDE DEF S
<1>7. n.fenced[t] = 2
  BY <1>2, <1>5
<1>8. Passed(st, u) => n.known[t][u] = 2 /\ n.fenced[u] = 2
  <2> SUFFICES ASSUME Passed(st, u) PROVE n.known[t][u] = 2
    BY <1>2
  <2>1. x.fenced[u] = 2
    BY AnnounceFenced
  <2>2. Len(x.hist[u]) = 2
    BY <1>0 DEF AnnounceOK, WroteOnce, Passed
  <2> QED
    BY <1>0, <1>3, <2>1, <2>2
<1>9. Passed(S, u) => Sees(n, S, vl, t, u) /\ n.fenced[u] = 2
  BY <1>1, <1>8 DEF Passed, Sees
<1>10. AnnounceOK(n, S, vl)
  BY <1>1, <1>6, <1>7, <1>9, AnnouncePair
<1> QED
  BY <1>10 DEF S

-----------------------------------------------------------------------------
(* The invariant of Atomics *)

LEMMA AtmInit == Atm!Init => AtmInv
<1> SUFFICES ASSUME Atm!Init PROVE AtmInv
  OBVIOUS
<1>1. PICK x, st, vl : x = m /\ st = step /\ vl = val
  OBVIOUS
<1>2. /\ st = [t \in T |-> "start"] /\ vl = [t \in T |-> 0] /\ x = Memory(T, Atm!Starts(use))
      /\ use \in {"refs", "count", "lock", "bit", "announce"}
  BY <1>1, AtmOps, Zenon DEF Atm!Init, T
<1>3. PICK init : init = Atm!Starts(use)
  OBVIOUS
<1>4. /\ init \in [L -> V] /\ \A t \in T : init[t] = 0
      /\ init[0] = IF use = "refs" THEN N ELSE IF use = "bit" THEN {} ELSE 0
  <2>1. Atm!Cardinality(T) = N /\ {} \in V /\ 0 \in V /\ N \in V
    BY Numbers, AtmOps
  <2>2. init = [l \in L |-> IF l = 0 /\ use = "refs" THEN N ELSE IF l = 0 /\ use = "bit" THEN {} ELSE 0]
    BY <1>3, <2>1, Zenon DEF Atm!Starts, Atm!counter, L, T
  <2> QED
    BY <2>1, <2>2, Numbers
<1>5. x = Memory(T, init)
  BY <1>2, <1>3
<1>6. /\ Whole(x, T, L, V)
      /\ \A l \in L : /\ Len(x.hist[l]) = 1 /\ x.hist[l][1].val = init[l]
                      /\ \A k \in L : x.hist[l][1].view[k] = 1
      /\ \A t \in T : \A l \in L : x.known[t][l] = 1
  <2>1. init \in [L -> V] /\ x = Memory(T, init)
    BY <1>4, <1>5
  <2>2. Fresh(x, T, L, V, init)
    BY <2>1, MemoryFacts, Zenon
  <2> QED
    BY <2>2 DEF Fresh
<1>7. LastVal(x, 0) = init[0] /\ \A k \in L : LastView(x, 0)[k] = 1
  BY <1>6, Numbers DEF LastVal, LastView
<1>8. /\ DOMAIN vl = T /\ (\A t \in T : st[t] = "start") /\ \A t \in T : WroteOnce(x, st, t)
  BY <1>2, <1>6, Numbers DEF WroteOnce
<1>9. ASSUME use = "refs" PROVE RefsOK(x, st, vl)
  <2>1. GaveUp(st) = {} /\ Cardinality({}) = 0
    BY <1>8, FS_EmptySet DEF GaveUp
  <2>2. LastVal(x, 0) = N - Cardinality(GaveUp(st))
    BY <1>4, <1>7, <1>9, <2>1, Numbers
  <2>3. st \in [T -> {"start", "release", "last?", "destroy"}]
    BY <1>2
  <2> QED
    BY <1>8, <2>1, <2>2, <2>3 DEF RefsOK
<1>10. ASSUME use = "count" PROVE CountOK(x, st, vl)
  <2>1. st \in [T -> {"start", "add", "load", "look"}]
    BY <1>2
  <2>0. Len(x.hist[0]) = 1 /\ x.hist[0][1].val = 0 /\ \A u \in T : x.hist[0][1].view[u] = 1
    BY <1>4, <1>6, <1>10, Numbers
  <2>2. \A i \in 1 .. Len(x.hist[0]) : i = 1
    BY <2>0
  <2>3. x.hist[0][1].val = 0 /\ Has(x.hist[0][1].view) = {} /\ Cardinality({}) = 0
    BY <2>0, FS_EmptySet DEF Has
  <2>4. \A t \in T : \A u \in T \ {t} : x.known[t][u] = 1
    BY <1>6, Numbers
  <2> QED
    BY <1>8, <2>1, <2>2, <2>3, <2>4 DEF CountOK
<1>11. ASSUME use = "lock" PROVE LockOK(x, st, vl)
  <2>1. st \in [T -> {"start", "work", "update", "unlock"}]
    BY <1>2
  <2>2. Len(x.hist[1]) = 1 /\ x.hist[1][1].val = 0 /\ LastView(x, 0)[1] = 1
    BY <1>4, <1>6, <1>7, Numbers
  <2> QED
    BY <1>8, <2>1, <2>2 DEF LockOK
<1>12. ASSUME use = "bit" PROVE BitOK(x, st)
  <2>1. st \in [T -> {"start", "own"}]
    BY <1>2
  <2>2. LastVal(x, 0) = {}
    BY <1>4, <1>7, <1>12
  <2> QED
    BY <1>8, <2>1, <2>2 DEF BitOK
<1>14. OnlyTwo(st)
  BY <1>8 DEF OnlyTwo
<1>13. ASSUME use = "announce" PROVE AnnounceOK(x, st, vl)
  <2>1. st \in [T -> {"start", "acquire", "release", "looked"}]
    BY <1>2
  <2>2. \A t \in {1, 2} : ~Passed(st, t)
    BY <1>8, Numbers DEF Passed
  <2> QED
    BY <1>8, <2>1, <2>2 DEF AnnounceOK
<1> QED
  BY <1>1, <1>6, <1>8, <1>9, <1>10, <1>11, <1>12, <1>13, <1>14 DEF AtmInv

(* Values at the end of a history are values.                              *)
LEMMA LastIn ==
  ASSUME NEW x, Whole(x, T, L, V), NEW l \in L
  PROVE  LastVal(x, l) \in V /\ last(x, l) = LastVal(x, l) /\ Len(x.hist[l]) \in 1 .. Len(x.hist[l])
  BY WholeFacts, KnownFacts DEF LastVal, last

LEMMA RefsStep ==
  ASSUME AtmInv, NEW t \in T, Atm!Refs(t)
  PROVE  AtmInv'
<1>0. PICK x, st, vl, n, ns, ul : x = m /\ st = step /\ vl = val /\ n = m' /\ ns = step' /\ ul = val'
  OBVIOUS
<1>1. use = "refs" /\ Whole(x, T, L, V) /\ DOMAIN vl = T /\ RefsOK(x, st, vl)
  BY <1>0 DEF AtmInv, Atm!Refs, Atm!At
<1>n. t \in L /\ 0 \in L /\ 1 \in V /\ 0 - 1 = -1
  BY Numbers
<1>2. ASSUME Atm!At(t, "refs", "start"), Atm!Then(t, "release", Atm!Write(t, Atm!Data(t), 1))
      PROVE  use' = "refs" /\ Whole(n, T, L, V) /\ DOMAIN ul = T /\ RefsOK(n, ns, ul)
  <2>1. /\ st[t] = "start" /\ use' = "refs" /\ ns = [st EXCEPT ![t] = "release"]
        /\ n = store(x, t, t, 1, "relaxed") /\ ul = [vl EXCEPT ![t] = vl[t]]
    BY <1>0, <1>1, <1>2, AtmOps DEF Atm!At, Atm!Then, Atm!Write, Atm!Only, Atm!Data
  <2>2. Stored(n, x, T, L, V, t, t, 1, "relaxed")
    BY <1>1, <1>n, <2>1, StoreFacts
  <2>3. DOMAIN ul = T /\ \A u \in T : ul[u] = vl[u]
    BY <1>1, <2>1
  <2>4. RefsOK(n, [st EXCEPT ![t] = "release"], ul)
    BY <1>1, <2>1, <2>2, <2>3, RefsWrite, Zenon
  <2> QED
    BY <2>1, <2>2, <2>3, <2>4 DEF Stored
<1>3. ASSUME Atm!At(t, "refs", "release"), Atm!Then(t, "last?", Atm!android_atomic_dec(m, t, Atm!counter))
      PROVE  use' = "refs" /\ Whole(n, T, L, V) /\ DOMAIN ul = T /\ RefsOK(n, ns, ul)
  <2>0. LastVal(x, 0) \in Int /\ LastVal(x, 0) + (-1) = LastVal(x, 0) - 1 /\ last(x, 0) = LastVal(x, 0)
    <3>1. IsFiniteSet(GaveUp(st))
      BY Numbers, FS_Subset DEF GaveUp
    <3>2. Cardinality(GaveUp(st)) \in Nat
      BY <3>1, FS_CardinalityType
    <3>3. LastVal(x, 0) = N - Cardinality(GaveUp(st))
      BY <1>1 DEF RefsOK
    <3> QED
      BY <1>1, <3>2, <3>3, Numbers, LastIn
  <2>1. /\ st[t] = "release" /\ use' = "refs" /\ ns = [st EXCEPT ![t] = "last?"]
        /\ n = rmw(x, t, 0, LastVal(x, 0) + (-1), "release") /\ ul = [vl EXCEPT ![t] = LastVal(x, 0)]
    BY <1>0, <1>1, <1>3, <2>0, AtmOps DEF Atm!At, Atm!Then, Atm!android_atomic_dec, Atm!android_atomic_add, Atm!counter
  <2>2. LastVal(x, 0) - 1 \in V
    BY <2>0, Numbers
  <2>3. Changed(n, x, T, L, V, t, 0, LastVal(x, 0) - 1, "release")
    BY <1>1, <1>n, <2>0, <2>1, <2>2, RmwFacts
  <2>4. DOMAIN ul = T /\ ul[t] = LastVal(x, 0) /\ \A u \in T \ {t} : ul[u] = vl[u]
    BY <1>1, <2>1
  <2>5. RefsOK(n, [st EXCEPT ![t] = "last?"], ul)
    BY <1>1, <2>1, <2>3, <2>4, RefsRelease, Zenon
  <2> QED
    BY <2>1, <2>3, <2>4, <2>5 DEF Changed
<1>4. ASSUME Atm!At(t, "refs", "last?"), val[t] = 1, Atm!Then(t, "destroy", Atm!Only(Atm!android_memory_barrier(m, t), t))
      PROVE  use' = "refs" /\ Whole(n, T, L, V) /\ DOMAIN ul = T /\ RefsOK(n, ns, ul)
  <2>1. /\ st[t] = "last?" /\ use' = "refs" /\ ns = [st EXCEPT ![t] = "destroy"] /\ vl[t] = 1
        /\ n = fence(x, t) /\ ul = [vl EXCEPT ![t] = vl[t]]
    BY <1>0, <1>1, <1>4, AtmOps DEF Atm!At, Atm!Then, Atm!Only, Atm!android_memory_barrier
  <2>2. Exchanged(n, x, T, L, V, t)
    BY <1>1, <2>1, FenceFacts
  <2>3. DOMAIN ul = T /\ \A u \in T : ul[u] = vl[u]
    BY <1>1, <2>1
  <2>4. RefsOK(n, [st EXCEPT ![t] = "destroy"], ul)
    BY <1>1, <2>1, <2>2, <2>3, RefsBarrier, Zenon
  <2> QED
    BY <2>1, <2>2, <2>3, <2>4 DEF Exchanged
<1>5. use' = "refs" /\ Whole(n, T, L, V) /\ DOMAIN ul = T /\ RefsOK(n, ns, ul)
  BY <1>2, <1>3, <1>4, Zenon DEF Atm!Refs
<1> QED
  BY <1>0, <1>5 DEF AtmInv

LEMMA CountStep ==
  ASSUME AtmInv, NEW t \in T, Atm!Count(t)
  PROVE  AtmInv'
<1>0. PICK x, st, vl, n, ns, ul : x = m /\ st = step /\ vl = val /\ n = m' /\ ns = step' /\ ul = val'
  OBVIOUS
<1>1. use = "count" /\ Whole(x, T, L, V) /\ DOMAIN vl = T /\ CountOK(x, st, vl)
  BY <1>0 DEF AtmInv, Atm!Count, Atm!At
<1>n. t \in L /\ 0 \in L /\ 1 \in V
  BY Numbers
<1>2. ASSUME Atm!At(t, "count", "start"), Atm!Then(t, "add", Atm!Write(t, Atm!Data(t), 1))
      PROVE  use' = "count" /\ Whole(n, T, L, V) /\ DOMAIN ul = T /\ CountOK(n, ns, ul)
  <2>1. /\ st[t] = "start" /\ use' = "count" /\ ns = [st EXCEPT ![t] = "add"]
        /\ n = store(x, t, t, 1, "relaxed") /\ ul = [vl EXCEPT ![t] = vl[t]]
    BY <1>0, <1>1, <1>2, AtmOps DEF Atm!At, Atm!Then, Atm!Write, Atm!Only, Atm!Data
  <2>2. Stored(n, x, T, L, V, t, t, 1, "relaxed")
    BY <1>1, <1>n, <2>1, StoreFacts
  <2>3. DOMAIN ul = T /\ \A u \in T : ul[u] = vl[u]
    BY <1>1, <2>1
  <2>4. CountOK(n, [st EXCEPT ![t] = "add"], ul)
    BY <1>1, <2>1, <2>2, <2>3, CountWrite, Zenon
  <2> QED
    BY <2>1, <2>2, <2>3, <2>4 DEF Stored
<1>3. ASSUME Atm!At(t, "count", "add"), Atm!Then(t, "load", Atm!android_atomic_inc(m, t, Atm!counter))
      PROVE  use' = "count" /\ Whole(n, T, L, V) /\ DOMAIN ul = T /\ CountOK(n, ns, ul)
  <2>0. LastVal(x, 0) \in Nat /\ last(x, 0) = LastVal(x, 0)
    <3>0. Len(x.hist[0]) \in 1 .. Len(x.hist[0]) /\ last(x, 0) = LastVal(x, 0)
      BY <1>1, <1>n, LastIn
    <3> DEFINE has == Has(LastView(x, 0))
    <3>1. IsFiniteSet(has)
      BY Numbers, FS_Subset DEF Has
    <3>2. Cardinality(has) \in Nat
      BY <3>1, FS_CardinalityType
    <3>3. LastVal(x, 0) = Cardinality(has)
      BY <1>1, <3>0 DEF CountOK, LastVal, LastView
    <3> QED
      BY <3>0, <3>2, <3>3
  <2>1. /\ st[t] = "add" /\ use' = "count" /\ ns = [st EXCEPT ![t] = "load"]
        /\ n = rmw(x, t, 0, LastVal(x, 0) + 1, "release") /\ ul = [vl EXCEPT ![t] = LastVal(x, 0)]
    BY <1>0, <1>1, <1>3, <2>0, AtmOps DEF Atm!At, Atm!Then, Atm!android_atomic_inc, Atm!android_atomic_add, Atm!counter
  <2>2. LastVal(x, 0) + 1 \in V
    BY <2>0, Numbers
  <2>3. Changed(n, x, T, L, V, t, 0, LastVal(x, 0) + 1, "release")
    BY <1>1, <1>n, <2>0, <2>1, <2>2, RmwFacts
  <2>4. DOMAIN ul = T /\ \A u \in T \ {t} : ul[u] = vl[u]
    BY <1>1, <2>1
  <2>5. CountOK(n, [st EXCEPT ![t] = "load"], ul)
    BY <1>1, <2>1, <2>3, <2>4, CountAdd, Zenon
  <2> QED
    BY <2>1, <2>3, <2>4, <2>5 DEF Changed
<1>4. ASSUME Atm!At(t, "count", "load"), NEW r \in Atm!android_atomic_acquire_load(m, t, Atm!counter), Atm!Then(t, "look", r)
      PROVE  use' = "count" /\ Whole(n, T, L, V) /\ DOMAIN ul = T /\ CountOK(n, ns, ul)
  <2>1. /\ st[t] = "load" /\ use' = "count" /\ ns = [st EXCEPT ![t] = "look"]
        /\ r \in loads(x, t, 0, "acquire") /\ n = r.m /\ ul = [vl EXCEPT ![t] = r.val]
    BY <1>0, <1>1, <1>4, AtmOps DEF Atm!At, Atm!Then, Atm!counter, Atm!android_atomic_acquire_load
  <2>2. PICK i \in 1 .. Len(x.hist[0]) : Learned(n, x, T, L, V, t, 0, i, "acquire") /\ r.val = x.hist[0][i].val
    BY <1>1, <1>n, <2>1, LoadFacts
  <2>3. DOMAIN ul = T /\ ul[t] = x.hist[0][i].val /\ \A u \in T \ {t} : ul[u] = vl[u]
    BY <1>1, <2>1, <2>2
  <2>4. CountOK(n, [st EXCEPT ![t] = "look"], ul)
    BY <1>1, <2>1, <2>2, <2>3, CountLoad, Zenon
  <2> QED
    BY <2>1, <2>2, <2>3, <2>4 DEF Learned
<1>5. use' = "count" /\ Whole(n, T, L, V) /\ DOMAIN ul = T /\ CountOK(n, ns, ul)
  BY <1>2, <1>3, <1>4, Zenon DEF Atm!Count
<1> QED
  BY <1>0, <1>5 DEF AtmInv

LEMMA BitStep ==
  ASSUME AtmInv, NEW t \in T, Atm!Bit(t)
  PROVE  AtmInv'
<1>0. PICK x, st, vl, n, ns, ul : x = m /\ st = step /\ vl = val /\ n = m' /\ ns = step' /\ ul = val'
  OBVIOUS
<1>1. use = "bit" /\ Whole(x, T, L, V) /\ DOMAIN vl = T /\ BitOK(x, st)
  BY <1>0 DEF AtmInv, Atm!Bit, Atm!At
<1>n. 0 \in L
  BY Numbers
<1>m. LastVal(x, 0) \in SUBSET {0, 1} /\ last(x, 0) = LastVal(x, 0)
  BY <1>1, <1>n, LastIn DEF BitOK
<1>2. ASSUME Atm!At(t, "bit", "start"),
             LET r == Atm!android_atomic_or(m, t, {0}, Atm!counter)
             IN  Atm!Then(t, IF 0 \notin r.val THEN "own" ELSE "start", r)
      PROVE  use' = "bit" /\ Whole(n, T, L, V) /\ DOMAIN ul = T /\ BitOK(n, ns)
  <2>1. /\ st[t] = "start" /\ use' = "bit" /\ ns = [st EXCEPT ![t] = IF 0 \notin LastVal(x, 0) THEN "own" ELSE "start"]
        /\ n = rmw(x, t, 0, LastVal(x, 0) \cup {0}, "release") /\ ul = [vl EXCEPT ![t] = LastVal(x, 0)]
    BY <1>0, <1>1, <1>2, <1>m, AtmOps DEF Atm!At, Atm!Then, Atm!android_atomic_or, Atm!counter
  <2>2. LastVal(x, 0) \cup {0} \in V
    BY <1>m, Numbers
  <2>3. Changed(n, x, T, L, V, t, 0, LastVal(x, 0) \cup {0}, "release")
    BY <1>1, <1>n, <2>1, <2>2, RmwFacts
  <2>4. PICK s : s = IF 0 \notin LastVal(x, 0) THEN "own" ELSE "start"
    OBVIOUS
  <2>5. BitOK(n, [st EXCEPT ![t] = s])
    BY <1>1, <2>1, <2>3, <2>4, BitSet, Zenon
  <2>6. DOMAIN ul = T
    BY <1>1, <2>1
  <2> QED
    BY <2>1, <2>3, <2>4, <2>5, <2>6 DEF Changed
<1>3. ASSUME Atm!At(t, "bit", "own"), Atm!Then(t, "start", Atm!android_atomic_and(m, t, {1}, Atm!counter))
      PROVE  use' = "bit" /\ Whole(n, T, L, V) /\ DOMAIN ul = T /\ BitOK(n, ns)
  <2>1. /\ st[t] = "own" /\ use' = "bit" /\ ns = [st EXCEPT ![t] = "start"]
        /\ n = rmw(x, t, 0, LastVal(x, 0) \cap {1}, "release") /\ ul = [vl EXCEPT ![t] = LastVal(x, 0)]
    BY <1>0, <1>1, <1>3, <1>m, AtmOps DEF Atm!At, Atm!Then, Atm!android_atomic_and, Atm!counter
  <2>2. LastVal(x, 0) \cap {1} \in V
    BY <1>m, Numbers
  <2>3. Changed(n, x, T, L, V, t, 0, LastVal(x, 0) \cap {1}, "release")
    BY <1>1, <1>n, <2>1, <2>2, RmwFacts
  <2>5. BitOK(n, [st EXCEPT ![t] = "start"])
    BY <1>1, <2>1, <2>3, BitCleared, Zenon
  <2>6. DOMAIN ul = T
    BY <1>1, <2>1
  <2> QED
    BY <2>1, <2>3, <2>5, <2>6 DEF Changed
<1>5. use' = "bit" /\ Whole(n, T, L, V) /\ DOMAIN ul = T /\ BitOK(n, ns)
  BY <1>2, <1>3, Zenon DEF Atm!Bit
<1> QED
  BY <1>0, <1>5 DEF AtmInv

LEMMA LockingStep ==
  ASSUME AtmInv, NEW t \in T, Atm!Lock(t)
  PROVE  AtmInv'
<1>0. PICK x, st, vl, n, ns, ul : x = m /\ st = step /\ vl = val /\ n = m' /\ ns = step' /\ ul = val'
  OBVIOUS
<1>1. use = "lock" /\ Whole(x, T, L, V) /\ DOMAIN vl = T /\ LockOK(x, st, vl)
  BY <1>0 DEF AtmInv, Atm!Lock, Atm!At
<1>n. 0 \in L /\ 1 \in L /\ 0 \in V /\ 1 \in V
  BY Numbers
<1>m. last(x, 0) = LastVal(x, 0) /\ Len(x.hist[0]) \in 1 .. Len(x.hist[0])
  BY <1>1, <1>n, LastIn
<1>2. ASSUME Atm!At(t, "lock", "start"),
             LET r == Atm!android_atomic_acquire_cas(m, t, 0, 1, Atm!counter)
             IN  Atm!Then(t, IF r.val = 0 THEN "work" ELSE "start", r)
      PROVE  use' = "lock" /\ Whole(n, T, L, V) /\ DOMAIN ul = T /\ LockOK(n, ns, ul)
  <2>1. /\ st[t] = "start" /\ use' = "lock"
        /\ LET r == IF LastVal(x, 0) = 0 THEN [m |-> rmw(x, t, 0, 1, "acquire"), val |-> 0]
                    ELSE [m |-> Learn(x, t, 0, Len(x.hist[0]), "acquire"), val |-> 1]
           IN  /\ ns = [st EXCEPT ![t] = IF r.val = 0 THEN "work" ELSE "start"]
               /\ n = r.m /\ ul = [vl EXCEPT ![t] = r.val]
    BY <1>0, <1>1, <1>2, <1>m, AtmOps DEF Atm!At, Atm!Then, Atm!android_atomic_acquire_cas, Atm!cas, Atm!counter
  <2>2. CASE LastVal(x, 0) = 0
    <3>1. ns = [st EXCEPT ![t] = "work"] /\ n = rmw(x, t, 0, 1, "acquire") /\ ul = [vl EXCEPT ![t] = 0]
      BY <2>1, <2>2
    <3>2. Changed(n, x, T, L, V, t, 0, 1, "acquire")
      BY <1>1, <1>n, <3>1, RmwFacts
    <3>3. LockOK(n, [st EXCEPT ![t] = "work"], ul)
      BY <1>1, <2>2, <3>2, LockTaken, Zenon
    <3> QED
      BY <1>1, <2>1, <3>1, <3>2, <3>3 DEF Changed
  <2>3. CASE LastVal(x, 0) # 0
    <3>1. /\ ns = [st EXCEPT ![t] = "start"] /\ n = Learn(x, t, 0, Len(x.hist[0]), "acquire")
          /\ ul = [vl EXCEPT ![t] = 1]
      BY <2>1, <2>3
    <3>2. Learned(n, x, T, L, V, t, 0, Len(x.hist[0]), "acquire")
      BY <1>1, <1>n, <1>m, <3>1, LearnFacts
    <3>3. DOMAIN ul = T /\ \A u \in T \ {t} : ul[u] = vl[u]
      BY <1>1, <3>1
    <3>4. LockOK(n, [st EXCEPT ![t] = "start"], ul)
      BY <1>1, <2>1, <3>2, <3>3, LockBusy, Zenon
    <3> QED
      BY <2>1, <3>1, <3>2, <3>3, <3>4 DEF Learned
  <2> QED
    BY <2>2, <2>3
<1>3. ASSUME Atm!At(t, "lock", "work"), NEW r \in Atm!loads(m, t, Atm!Data(1), "relaxed"), Atm!Then(t, "update", r)
      PROVE  use' = "lock" /\ Whole(n, T, L, V) /\ DOMAIN ul = T /\ LockOK(n, ns, ul)
  <2>1. /\ st[t] = "work" /\ use' = "lock" /\ ns = [st EXCEPT ![t] = "update"]
        /\ r \in loads(x, t, 1, "relaxed") /\ n = r.m /\ ul = [vl EXCEPT ![t] = r.val]
    BY <1>0, <1>1, <1>3, AtmOps DEF Atm!At, Atm!Then, Atm!Data
  <2>2. PICK i \in 1 .. Len(x.hist[1]) :
          i >= x.known[t][1] /\ Learned(n, x, T, L, V, t, 1, i, "relaxed") /\ r.val = x.hist[1][i].val
    BY <1>1, <1>n, <2>1, LoadFacts
  <2>3. DOMAIN ul = T /\ ul[t] = x.hist[1][i].val
    BY <1>1, <2>1, <2>2
  <2>4. LockOK(n, [st EXCEPT ![t] = "update"], ul)
    BY <1>1, <2>1, <2>2, <2>3, LockRead, Zenon
  <2> QED
    BY <2>1, <2>2, <2>3, <2>4 DEF Learned
<1>4. ASSUME Atm!At(t, "lock", "update"), Atm!Then(t, "unlock", Atm!Write(t, Atm!Data(1), val[t] + 1))
      PROVE  use' = "lock" /\ Whole(n, T, L, V) /\ DOMAIN ul = T /\ LockOK(n, ns, ul)
  <2>1. /\ st[t] = "update" /\ use' = "lock" /\ ns = [st EXCEPT ![t] = "unlock"]
        /\ n = store(x, t, 1, vl[t] + 1, "relaxed") /\ ul = [vl EXCEPT ![t] = vl[t]]
    BY <1>0, <1>1, <1>4, AtmOps DEF Atm!At, Atm!Then, Atm!Write, Atm!Only, Atm!Data
  <2>2. vl[t] + 1 \in V
    <3>1. vl[t] = Len(x.hist[1]) - 1 /\ Len(x.hist[1]) \in Nat
      BY <1>1, <1>n, <2>1, KnownFacts DEF LockOK
    <3> QED
      BY <3>1, Numbers
  <2>3. Stored(n, x, T, L, V, t, 1, vl[t] + 1, "relaxed")
    BY <1>1, <1>n, <2>1, <2>2, StoreFacts
  <2>4. LockOK(n, [st EXCEPT ![t] = "unlock"], ul)
    BY <1>1, <2>1, <2>3, LockUpdate, Zenon
  <2> QED
    BY <1>1, <2>1, <2>3, <2>4 DEF Stored
<1>5. ASSUME Atm!At(t, "lock", "unlock"),
             Atm!Then(t, "start", Atm!Only(Atm!android_atomic_release_store(m, t, 0, Atm!counter), t))
      PROVE  use' = "lock" /\ Whole(n, T, L, V) /\ DOMAIN ul = T /\ LockOK(n, ns, ul)
  <2>1. /\ st[t] = "unlock" /\ use' = "lock" /\ ns = [st EXCEPT ![t] = "start"]
        /\ n = store(x, t, 0, 0, "release") /\ ul = [vl EXCEPT ![t] = vl[t]]
    BY <1>0, <1>1, <1>5, AtmOps DEF Atm!At, Atm!Then, Atm!Only, Atm!android_atomic_release_store, Atm!counter
  <2>2. Stored(n, x, T, L, V, t, 0, 0, "release")
    BY <1>1, <1>n, <2>1, StoreFacts
  <2>3. LockOK(n, [st EXCEPT ![t] = "start"], ul)
    BY <1>1, <2>1, <2>2, LockGiven, Zenon
  <2> QED
    BY <1>1, <2>1, <2>2, <2>3 DEF Stored
<1>6. ASSUME Atm!At(t, "lock", "unlock"),
             Atm!Then(t, "start", Atm!android_atomic_release_cas(m, t, 1, 0, Atm!counter))
      PROVE  use' = "lock" /\ Whole(n, T, L, V) /\ DOMAIN ul = T /\ LockOK(n, ns, ul)
  <2>0. st[t] = "unlock" /\ LastVal(x, 0) = 1
    BY <1>0, <1>1, <1>6 DEF Atm!At, LockOK
  <2>1. /\ use' = "lock" /\ ns = [st EXCEPT ![t] = "start"]
        /\ n = rmw(x, t, 0, 0, "release") /\ ul = [vl EXCEPT ![t] = 0]
    BY <1>0, <1>1, <1>6, <1>m, <2>0, AtmOps DEF Atm!Then, Atm!android_atomic_release_cas, Atm!cas, Atm!counter
  <2>2. Changed(n, x, T, L, V, t, 0, 0, "release")
    BY <1>1, <1>n, <2>1, RmwFacts
  <2>3. LockOK(n, [st EXCEPT ![t] = "start"], ul)
    BY <1>1, <2>0, <2>2, LockGiven, Zenon
  <2> QED
    BY <1>1, <2>1, <2>2, <2>3 DEF Changed
<1>7. use' = "lock" /\ Whole(n, T, L, V) /\ DOMAIN ul = T /\ LockOK(n, ns, ul)
  BY <1>2, <1>3, <1>4, <1>5, <1>6, Zenon DEF Atm!Lock
<1> QED
  BY <1>0, <1>7 DEF AtmInv

LEMMA AnnounceStep ==
  ASSUME AtmInv, NEW t \in T, Atm!Announce(t)
  PROVE  AtmInv'
<1>0. PICK x, st, vl, n, ns, ul : x = m /\ st = step /\ vl = val /\ n = m' /\ ns = step' /\ ul = val'
  OBVIOUS
<1>1. use = "announce" /\ Whole(x, T, L, V) /\ DOMAIN vl = T /\ AnnounceOK(x, st, vl) /\ OnlyTwo(st)
  BY <1>0 DEF AtmInv, Atm!Announce, Atm!At
<1>n. t \in L /\ 1 \in V /\ DOMAIN st = T
  BY <1>1, Numbers DEF AnnounceOK
<1> DEFINE Good == use' = "announce" /\ Whole(n, T, L, V) /\ DOMAIN ul = T /\ AnnounceOK(n, ns, ul) /\ OnlyTwo(ns)
<1>2. PICK u : u = 3 - t
  OBVIOUS
<1>3. ASSUME t <= 2 PROVE Pair(t, u) /\ u \in L /\ \A s : OnlyTwo([st EXCEPT ![t] = s])
  <2>1. t \in {1, 2}
    BY <1>3, Numbers DEF T
  <2>2. Pair(t, u)
    BY <1>2, <2>1 DEF Pair
  <2>3. \A s : OnlyTwo([st EXCEPT ![t] = s])
    BY <1>1, <1>3, <1>n DEF OnlyTwo
  <2> QED
    BY <2>2, <2>3, PairFacts
<1>4. ASSUME Atm!At(t, "announce", "start"), t <= 2,
             Atm!Then(t, "acquire", Atm!Only(Atm!android_atomic_acquire_store(m, t, 1, Atm!Data(t)), t))
      PROVE  Good
  <2>1. /\ st[t] = "start" /\ use' = "announce" /\ ns = [st EXCEPT ![t] = "acquire"]
        /\ n = fence(store(x, t, t, 1, "relaxed"), t) /\ ul = [vl EXCEPT ![t] = vl[t]]
    BY <1>0, <1>1, <1>4, AtmOps DEF Atm!At, Atm!Then, Atm!Only, Atm!android_atomic_acquire_store, Atm!Data
  <2>2. PICK y : y = store(x, t, t, 1, "relaxed")
    OBVIOUS
  <2>3. Stored(y, x, T, L, V, t, t, 1, "relaxed")
    BY <1>1, <1>n, <2>2, StoreFacts
  <2>4. Whole(y, T, L, V) /\ n = fence(y, t)
    BY <2>1, <2>2, <2>3 DEF Stored
  <2>5. Exchanged(n, y, T, L, V, t)
    BY <2>4, FenceFacts
  <2>6. DOMAIN ul = T /\ \A v \in T : ul[v] = vl[v]
    BY <1>1, <2>1
  <2>7. Pair(t, u) /\ OnlyTwo([st EXCEPT ![t] = "acquire"])
    BY <1>3, <1>4
  <2>8. AnnounceOK(n, [st EXCEPT ![t] = "acquire"], ul)
    BY <1>1, <2>1, <2>3, <2>5, <2>6, <2>7, AnnounceStoreFence, Zenon
  <2> QED
    BY <2>1, <2>5, <2>6, <2>7, <2>8 DEF Exchanged
<1>5. ASSUME Atm!At(t, "announce", "start"), t <= 2,
             Atm!Then(t, "release", Atm!Only(Atm!android_atomic_release_store(m, t, 1, Atm!Data(t)), t))
      PROVE  Good
  <2>1. /\ st[t] = "start" /\ use' = "announce" /\ ns = [st EXCEPT ![t] = "release"]
        /\ n = store(x, t, t, 1, "release") /\ ul = [vl EXCEPT ![t] = vl[t]]
    BY <1>0, <1>1, <1>5, AtmOps DEF Atm!At, Atm!Then, Atm!Only, Atm!android_atomic_release_store, Atm!Data
  <2>3. Stored(n, x, T, L, V, t, t, 1, "release")
    BY <1>1, <1>n, <2>1, StoreFacts
  <2>6. DOMAIN ul = T /\ \A v \in T : ul[v] = vl[v]
    BY <1>1, <2>1
  <2>7. Pair(t, u) /\ OnlyTwo([st EXCEPT ![t] = "release"])
    BY <1>3, <1>5
  <2>8. AnnounceOK(n, [st EXCEPT ![t] = "release"], ul)
    BY <1>1, <2>1, <2>3, <2>6, <2>7, AnnounceStore, Zenon
  <2> QED
    BY <2>1, <2>3, <2>6, <2>7, <2>8 DEF Stored
<1>6. ASSUME Atm!At(t, "announce", "acquire"),
             NEW r \in Atm!android_atomic_acquire_load(m, t, Atm!Data(Atm!Other(t))), Atm!Then(t, "looked", r)
      PROVE  Good
  <2>1. /\ st[t] = "acquire" /\ use' = "announce" /\ ns = [st EXCEPT ![t] = "looked"]
        /\ r \in loads(x, t, u, "acquire") /\ n = r.m /\ ul = [vl EXCEPT ![t] = r.val]
    BY <1>0, <1>1, <1>2, <1>6, AtmOps DEF Atm!At, Atm!Then, Atm!Data, Atm!Other, Atm!android_atomic_acquire_load
  <2>2. t <= 2
    BY <1>1, <2>1 DEF OnlyTwo
  <2>3. Pair(t, u) /\ u \in L /\ OnlyTwo([st EXCEPT ![t] = "looked"])
    BY <1>3, <2>2
  <2>4. PICK i \in 1 .. Len(x.hist[u]) :
          i >= x.known[t][u] /\ Learned(n, x, T, L, V, t, u, i, "acquire") /\ r.val = x.hist[u][i].val
    BY <1>1, <2>1, <2>3, LoadFacts
  <2>5. DOMAIN ul = T /\ ul[t] = x.hist[u][i].val /\ \A v \in T \ {t} : ul[v] = vl[v]
    BY <1>1, <2>1, <2>4
  <2>6. AnnounceOK(n, [st EXCEPT ![t] = "looked"], ul)
    BY <1>1, <2>1, <2>3, <2>4, <2>5, AnnounceLook, Zenon
  <2> QED
    BY <2>1, <2>3, <2>4, <2>5, <2>6 DEF Learned
<1>7. ASSUME Atm!At(t, "announce", "release"),
             NEW r \in Atm!android_atomic_release_load(m, t, Atm!Data(Atm!Other(t))), Atm!Then(t, "looked", r)
      PROVE  Good
  <2>1. /\ st[t] = "release" /\ use' = "announce" /\ ns = [st EXCEPT ![t] = "looked"]
        /\ r \in loads(fence(x, t), t, u, "relaxed") /\ n = r.m /\ ul = [vl EXCEPT ![t] = r.val]
    BY <1>0, <1>1, <1>2, <1>7, AtmOps DEF Atm!At, Atm!Then, Atm!Data, Atm!Other, Atm!android_atomic_release_load
  <2>2. t <= 2
    BY <1>1, <2>1 DEF OnlyTwo
  <2>3. Pair(t, u) /\ u \in L /\ OnlyTwo([st EXCEPT ![t] = "looked"])
    BY <1>3, <2>2
  <2>4. PICK y : y = fence(x, t)
    OBVIOUS
  <2>5. Exchanged(y, x, T, L, V, t)
    BY <1>1, <2>4, FenceFacts
  <2>6. Whole(y, T, L, V) /\ r \in loads(y, t, u, "relaxed")
    BY <2>1, <2>4, <2>5 DEF Exchanged
  <2>7. PICK i \in 1 .. Len(y.hist[u]) :
          i >= y.known[t][u] /\ Learned(n, y, T, L, V, t, u, i, "relaxed") /\ r.val = y.hist[u][i].val
    BY <2>1, <2>3, <2>6, LoadFacts
  <2>8. DOMAIN ul = T /\ ul[t] = y.hist[u][i].val /\ \A v \in T \ {t} : ul[v] = vl[v]
    BY <1>1, <2>1, <2>7
  <2>9. PICK s : s = [st EXCEPT ![t] = "acquire"]
    OBVIOUS
  <2>10. AnnounceOK(y, [st EXCEPT ![t] = "acquire"], vl)
    BY <1>1, <2>1, <2>3, <2>5, AnnounceFence, Zenon
  <2>11. AnnounceOK(y, s, vl) /\ s[t] = "acquire" /\ [s EXCEPT ![t] = "looked"] = ns
    BY <1>n, <2>1, <2>9, <2>10
  <2>12. AnnounceOK(n, [s EXCEPT ![t] = "looked"], ul)
    BY <2>3, <2>6, <2>7, <2>8, <2>11, AnnounceLook, Zenon
  <2> QED
    BY <2>1, <2>3, <2>7, <2>8, <2>11, <2>12 DEF Learned
<1>8. Good
  BY <1>4, <1>5, <1>6, <1>7, Zenon DEF Atm!Announce
<1> QED
  BY <1>0, <1>8 DEF AtmInv

LEMMA AtmNext == AtmInv /\ Atm!Next => AtmInv'
  BY RefsStep, CountStep, LockingStep, BitStep, AnnounceStep, Zenon DEF Atm!Next, T

LEMMA AtmStutters == AtmInv /\ UNCHANGED atomicVars => AtmInv'
  BY DEF AtmInv, atomicVars

(* Who knows the latest entry of a history reads that one.                 *)
LEMMA ReadsLast ==
  ASSUME NEW x, NEW l, NEW t, NEW z \in Nat, Len(x.hist[l]) = z, x.known[t][l] = z
  PROVE  {x.hist[l][i].val : i \in x.known[t][l] .. Len(x.hist[l])} = {x.hist[l][z].val}
<1>1. x.known[t][l] .. Len(x.hist[l]) = {z}
  OBVIOUS
<1> QED
  BY <1>1

(* The invariant says what Atomics promises.                               *)
LEMMA AtmMeans ==
  AtmInv => Atm!LastSeesAll /\ Atm!CountAnnounces /\ Atm!LockProtects /\ Atm!OneOwner /\ Atm!OneSeesOther
<1> SUFFICES ASSUME AtmInv
             PROVE  Atm!LastSeesAll /\ Atm!CountAnnounces /\ Atm!LockProtects /\ Atm!OneOwner /\ Atm!OneSeesOther
  OBVIOUS
<1>0. PICK x, st, vl : x = m /\ st = step /\ vl = val
  OBVIOUS
<1>1. /\ Whole(x, T, L, V) /\ (use = "refs" => RefsOK(x, st, vl)) /\ (use = "count" => CountOK(x, st, vl))
      /\ (use = "lock" => LockOK(x, st, vl)) /\ (use = "bit" => BitOK(x, st)) /\ (use = "announce" => AnnounceOK(x, st, vl))
  BY <1>0 DEF AtmInv
<1>2. ASSUME NEW t \in T, NEW u \in T, WroteOnce(x, st, u), st[u] # "start", x.known[t][u] = 2
      PROVE  u \in Atm!Written(t)
  <2>1. Len(x.hist[u]) = 2 /\ x.hist[u][2].val = 1
    BY <1>2 DEF WroteOnce
  <2>2. {x.hist[u][i].val : i \in x.known[t][u] .. Len(x.hist[u])} = {x.hist[u][2].val}
    BY <1>2, <2>1, ReadsLast
  <2>3. Atm!MayRead(t, Atm!Data(u)) = {1}
    BY <1>0, <2>1, <2>2, Zenon DEF Atm!MayRead, Atm!Data
  <2> QED
    BY <2>3 DEF Atm!Written, T
<1>3. Atm!LastSeesAll
  <2> SUFFICES ASSUME NEW t \in T, use = "refs", st[t] = "destroy" PROVE Atm!Written(t) = T
    BY <1>0 DEF Atm!LastSeesAll, Atm!At, T
  <2>1. /\ GaveUp(st) = T /\ \A u \in T : x.known[t][u] = 2
        /\ \A u \in T : WroteOnce(x, st, u)
    BY <1>1 DEF RefsOK
  <2>2. \A u \in T : st[u] # "start"
    BY <2>1 DEF GaveUp
  <2>3. T \subseteq Atm!Written(t)
    BY <1>2, <2>1, <2>2
  <2> QED
    BY <2>3 DEF Atm!Written, T
<1>4. Atm!CountAnnounces
  <2> SUFFICES ASSUME NEW t \in T, use = "count", st[t] = "look" PROVE Cardinality(Atm!Written(t)) >= vl[t]
    BY <1>0, AtmOps, Zenon DEF Atm!CountAnnounces, Atm!At, T
  <2>1. /\ vl[t] \in Nat /\ Cardinality(Has(x.known[t])) >= vl[t]
        /\ \A u \in T : WroteOnce(x, st, u)
    BY <1>1 DEF CountOK
  <2>2. Has(x.known[t]) \subseteq Atm!Written(t)
    <3> SUFFICES ASSUME NEW u \in T, x.known[t][u] = 2 PROVE u \in Atm!Written(t)
      BY DEF Has
    <3>1. Len(x.hist[u]) \in Nat /\ Len(x.hist[u]) >= 2
      BY <1>1, KnownFacts, Numbers
    <3>2. WroteOnce(x, st, u)
      BY <2>1
    <3>3. ASSUME st[u] = "start" PROVE FALSE
      <4>1. Len(x.hist[u]) = 1
        BY <3>2, <3>3, Zenon DEF WroteOnce
      <4> QED
        BY <3>1, <4>1
    <3> QED
      BY <1>2, <3>2, <3>3
  <2>3. IsFiniteSet(Atm!Written(t))
    BY Numbers, FS_Subset DEF Atm!Written, T
  <2>4. /\ Cardinality(Has(x.known[t])) \in Nat /\ Cardinality(Atm!Written(t)) \in Nat
        /\ Cardinality(Has(x.known[t])) <= Cardinality(Atm!Written(t))
    BY <2>2, <2>3, FS_Subset, FS_CardinalityType
  <2> QED
    BY <2>1, <2>4
<1>5. Atm!LockProtects
  <2> SUFFICES ASSUME NEW t \in T, NEW u \in T, use = "lock", st[t] \in {"work", "update", "unlock"}
               PROVE  /\ Atm!MayRead(t, Atm!Data(1)) = {Atm!last(m, Atm!Data(1))}
                      /\ Atm!last(m, Atm!Data(1)) = Len(m.hist[Atm!Data(1)]) - 1
                      /\ u # t => st[u] = "start"
    BY <1>0, Zenon DEF Atm!LockProtects, T
  <2>1. Len(x.hist[1]) \in Nat /\ Len(x.hist[1]) \in 1 .. Len(x.hist[1])
    BY <1>1, KnownFacts, Numbers
  <2>2. /\ x.known[t][1] = Len(x.hist[1]) /\ (u # t => st[u] = "start")
        /\ x.hist[1][Len(x.hist[1])].val = Len(x.hist[1]) - 1
    BY <1>1, <2>1 DEF LockOK
  <2>3. {x.hist[1][i].val : i \in x.known[t][1] .. Len(x.hist[1])} = {x.hist[1][Len(x.hist[1])].val}
    BY <2>1, <2>2, ReadsLast
  <2>4. Atm!MayRead(t, Atm!Data(1)) = {x.hist[1][Len(x.hist[1])].val}
    BY <1>0, <2>3, Zenon DEF Atm!MayRead, Atm!Data
  <2>5. Atm!last(m, Atm!Data(1)) = x.hist[1][Len(x.hist[1])].val /\ Len(m.hist[Atm!Data(1)]) = Len(x.hist[1])
    BY <1>0 DEF Atm!last, Atm!Data
  <2> QED
    BY <2>2, <2>4, <2>5
<1>6. Atm!OneOwner
  BY <1>0, <1>1, Zenon DEF Atm!OneOwner, Atm!At, BitOK, T
<1>7. Atm!OneSeesOther
  BY <1>0, <1>1 DEF Atm!OneSeesOther, Atm!At, AnnounceOK, Passed, Sees
<1> QED
  BY <1>3, <1>4, <1>5, <1>6, <1>7

-----------------------------------------------------------------------------
(* The variables of the trace marker *)

Ready == "atrace_is_ready"
Enabled == "atrace_enabled_tags"
Fd == "atrace_marker_fd"
Locs == {Ready, Enabled, Fd}
Unset == {"ATRACE_TAG_NOT_READY"}
Traced == {"tag"}
TagSets == {{}, Traced}
Vals == {-1, 0, 1, 3, Unset} \cup TagSets

(* The descriptor is opened once; tags that enable anything go with one of *)
(* G; and the entry that says "ready" carries both.                        *)
HistOK(x, on, G) ==
  /\ IF on = "new" THEN Len(x.hist[Fd]) = 1 ELSE Len(x.hist[Fd]) = 2 /\ x.hist[Fd][2].val \in {3, -1}
  /\ \A i \in 1 .. Len(x.hist[Enabled]) : i >= 2 =>
       /\ x.hist[Enabled][i].val \in TagSets
       /\ x.hist[Enabled][i].val = Traced => Len(x.hist[Fd]) = 2 /\ x.hist[Fd][2].val \in G
  /\ x.hist[Ready][1].val = 0
  /\ IF on # "done" THEN Len(x.hist[Ready]) = 1
     ELSE /\ Len(x.hist[Ready]) = 2 /\ x.hist[Ready][2].val = 1
          /\ x.hist[Ready][2].view[Enabled] >= 2 /\ x.hist[Ready][2].view[Fd] >= 2

(* A thread that goes on knows of them.                                    *)
ThreadOK(x, on, c, t, G) ==
  /\ c \in {"setup tags", "setup ready"} => on = t
  /\ c = "setup tags" => x.known[t][Fd] >= 2
  /\ c \in {"setup ready", "tags", "write"} => x.known[t][Enabled] >= 2 /\ x.known[t][Fd] >= 2
  /\ c = "write" => Len(x.hist[Fd]) = 2 /\ x.hist[Fd][2].val \in G

TraceOK(x, on, cl, G) ==
  /\ Whole(x, Threads, Locs, Vals) /\ HistOK(x, on, G)
  /\ DOMAIN cl = Threads /\ \A u \in Threads : ThreadOK(x, on, cl[u], u, G)
(* What was written went to the descriptor that was opened.                *)
OutputOK(x, tg, out, G) ==
  /\ DOMAIN tg = Threads /\ DOMAIN out = Threads
  /\ \A u \in Threads : /\ tg[u] # Unset /\ out[u] \subseteq G
                        /\ out[u] # {} => Len(x.hist[Fd]) = 2 /\ out[u] \subseteq {x.hist[Fd][2].val}

(* The descriptors that tags may go with: an update enables them also      *)
(* where none was opened.                                                  *)
Fds(k) == IF k = 0 THEN {3} ELSE {3, -1}

TrcInv ==
  /\ updates \in Nat
  /\ TraceOK(memory, once, call, Fds(updates)) /\ OutputOK(memory, tags, output, Fds(updates))

LEMMA Names ==
  /\ Ready \in Locs /\ Enabled \in Locs /\ Fd \in Locs /\ Ready # Enabled /\ Ready # Fd /\ Enabled # Fd
  /\ "new" \notin Threads /\ "done" \notin Threads
  /\ -1 \in Vals /\ 0 \in Vals /\ 1 \in Vals /\ 3 \in Vals /\ Unset \in Vals /\ TagSets \subseteq Vals
  /\ Unset # {} /\ Unset \notin TagSets
  BY AtomicsAssumption DEF Locs, Ready, Enabled, Fd, Vals, Unset, TagSets, Traced

LEMMA TrcInit == Trc!Init => TrcInv
<1> SUFFICES ASSUME Trc!Init PROVE TrcInv
  OBVIOUS
<1>0. PICK x, cl, tg, out, G : x = memory /\ cl = call /\ tg = tags /\ out = output /\ G = Fds(updates)
  OBVIOUS
<1> DEFINE init == [l \in Locs |-> CASE l = Ready -> 0 [] l = Enabled -> Unset [] l = Fd -> -1]
<1>1. once = "new" /\ x = Memory(Threads, init)
  BY <1>0, TrcOps, Zenon DEF Trc!Init, Trc!ready, Trc!enabled, Trc!fd, Trc!NotReady, Locs, Ready, Enabled, Fd, Unset
<1>2. cl = [t \in Threads |-> "none"] /\ tg = [t \in Threads |-> {}] /\ out = [t \in Threads |-> {}]
  BY <1>0, Zenon DEF Trc!Init
<1>3. init[Ready] = 0 /\ init[Enabled] = Unset /\ init[Fd] = -1
  BY Names
<1>4. init \in [Locs -> Vals]
  <2>1. \A l \in Locs : init[l] \in Vals
    BY <1>3, Names DEF Locs
  <2> QED
    BY <2>1
<1> HIDE DEF init
<1>5. Fresh(x, Threads, Locs, Vals, init)
  BY <1>1, <1>4, MemoryFacts, Zenon
<1>6. /\ Whole(x, Threads, Locs, Vals)
      /\ \A l \in Locs : Len(x.hist[l]) = 1 /\ x.hist[l][1].val = init[l]
  BY <1>5 DEF Fresh
<1>7. HistOK(x, "new", G)
  <2>1. /\ Len(x.hist[Fd]) = 1 /\ Len(x.hist[Enabled]) = 1 /\ Len(x.hist[Ready]) = 1 /\ x.hist[Ready][1].val = 0
    BY <1>3, <1>6, Names
  <2> QED
    BY <2>1 DEF HistOK
<1>8. DOMAIN cl = Threads /\ \A u \in Threads : ThreadOK(x, "new", cl[u], u, G)
  BY <1>2 DEF ThreadOK
<1>9. OutputOK(x, tg, out, G) /\ updates \in Nat
  BY <1>2, Names DEF OutputOK, Trc!Init
<1> QED
  BY <1>0, <1>1, <1>6, <1>7, <1>8, <1>9 DEF TrcInv, TraceOK

(* What is left to say of a step that writes nothing.                      *)
LEMMA TrcKept ==
  ASSUME TrcInv, NEW G, G = Fds(updates), TraceOK(memory', once', call', G), memory'.hist[Fd] = memory.hist[Fd],
         tags' = tags, output' = output, updates' = updates
  PROVE  TrcInv'
<1>1. OutputOK(memory, tags, output, G) /\ updates' \in Nat /\ Fds(updates') = G
  BY DEF TrcInv
<1>2. OutputOK(memory', tags', output', G)
  BY <1>1, Zenon DEF OutputOK
<1> QED
  BY <1>1, <1>2 DEF TrcInv

(* A load changes nothing for the other threads.                           *)
LEMMA TraceLoad ==
  ASSUME NEW x, NEW n, NEW G, NEW on, NEW cl, TraceOK(x, on, cl, G), NEW t \in Threads, NEW l, NEW i, NEW order, NEW c,
         Learned(n, x, Threads, Locs, Vals, t, l, i, order), ThreadOK(n, on, c, t, G)
  PROVE  TraceOK(n, on, [cl EXCEPT ![t] = c], G)
<1>1. n.hist = x.hist /\ Whole(n, Threads, Locs, Vals) /\ \A u \in Threads \ {t} : n.known[u] = x.known[u]
  BY DEF Learned
<1>2. HistOK(n, on, G)
  BY <1>1 DEF HistOK, TraceOK
<1>3. \A u \in Threads : ThreadOK(n, on, [cl EXCEPT ![t] = c][u], u, G)
  BY <1>1 DEF TraceOK, ThreadOK
<1> QED
  BY <1>1, <1>2, <1>3 DEF TraceOK

(* What a load of entry i brings.                                          *)
LEMMA TraceLearns ==
  ASSUME NEW x, NEW n, Whole(x, Threads, Locs, Vals), NEW t \in Threads, NEW l \in Locs, NEW i \in 1 .. Len(x.hist[l]),
         NEW order, Learned(n, x, Threads, Locs, Vals, t, l, i, order), NEW k \in Locs
  PROVE  /\ n.known[t][k] >= x.known[t][k]
         /\ order = "acquire" => n.known[t][k] >= x.hist[l][i].view[k] \/ k = l
         /\ n.known[t][k] \in Nat /\ x.known[t][k] \in Nat
<1>1. n.known[t][k] \in Nat /\ x.known[t][k] \in Nat /\ x.hist[l][i].view[k] \in Nat
  BY KnownFacts DEF Learned
<1>2. CASE k = l
  BY <1>1, <1>2 DEF Learned
<1>3. CASE k # l
  BY <1>1, <1>3 DEF Learned, Later
<1> QED
  BY <1>2, <1>3

(* The lengths as numbers.                                                 *)
LEMMA TraceLens ==
  ASSUME NEW x, Whole(x, Threads, Locs, Vals), NEW l \in Locs
  PROVE  Len(x.hist[l]) \in Nat /\ \A t \in Threads : x.known[t][l] \in Nat /\ x.known[t][l] <= Len(x.hist[l])
  BY KnownFacts

LEMMA TraceInitStep ==
  ASSUME TrcInv, NEW t \in Threads, Trc!atrace_init(t)
  PROVE  TrcInv'
<1>0. PICK x, on, cl, n, G : x = memory /\ on = once /\ cl = call /\ n = memory' /\ G = Fds(updates)
  OBVIOUS
<1>1. TraceOK(x, on, cl, G) /\ Whole(x, Threads, Locs, Vals) /\ HistOK(x, on, G)
  BY <1>0 DEF TrcInv, TraceOK
<1>2. PICK r \in Trc!IsReady(t) : Trc!Goes(t, IF r.val = 0 THEN "setup" ELSE "tags", r.m)
  BY DEF Trc!atrace_init
<1>3. PICK c : c = IF r.val = 0 THEN "setup" ELSE "tags"
  OBVIOUS
<1>4. r \in loads(x, t, Ready, "acquire") /\ n = r.m /\ call' = [cl EXCEPT ![t] = c] /\ once' = on
  BY <1>0, <1>2, <1>3, TrcOps DEF Trc!IsReady, Trc!Goes, Trc!ready, Ready, Trc!atrace_init
<1>5. PICK i \in 1 .. Len(x.hist[Ready]) : Learned(n, x, Threads, Locs, Vals, t, Ready, i, "acquire") /\ r.val = x.hist[Ready][i].val
  BY <1>1, <1>4, LoadFacts, Names
<1>6. ThreadOK(n, on, c, t, G)
  <2>1. CASE r.val = 0
    BY <1>3, <2>1 DEF ThreadOK
  <2>2. CASE r.val # 0
    <3>0. Len(x.hist[Ready]) \in Nat
      BY <1>1, TraceLens, Names
    <3>1. i # 1
      BY <1>1, <1>5, <2>2 DEF HistOK
    <3>a. ASSUME on # "done" PROVE FALSE
      <4>1. Len(x.hist[Ready]) = 1
        BY <1>1, <3>a, Zenon DEF HistOK
      <4> QED
        BY <3>1, <4>1
    <3>b. Len(x.hist[Ready]) = 2
      BY <1>1, <3>a, Zenon DEF HistOK
    <3>2. i = 2 /\ on = "done"
      BY <3>1, <3>a, <3>b
    <3>3. x.hist[Ready][i].view[Enabled] >= 2 /\ x.hist[Ready][i].view[Fd] >= 2
      BY <1>1, <3>2 DEF HistOK
    <3>4. n.known[t][Enabled] >= x.hist[Ready][i].view[Enabled] /\ n.known[t][Fd] >= x.hist[Ready][i].view[Fd]
          /\ n.known[t][Enabled] \in Nat /\ n.known[t][Fd] \in Nat
      BY <1>1, <1>5, TraceLearns, Names
    <3>5. x.hist[Ready][i].view[Enabled] \in Nat /\ x.hist[Ready][i].view[Fd] \in Nat
      BY <1>1, KnownFacts, Names
    <3>6. n.known[t][Enabled] >= 2 /\ n.known[t][Fd] >= 2
      BY <3>3, <3>4, <3>5, AsMuch, Zenon
    <3> QED
      BY <1>3, <2>2, <3>6 DEF ThreadOK
  <2> QED
    BY <2>1, <2>2
<1>7. TraceOK(n, on, [cl EXCEPT ![t] = c], G)
  BY <1>1, <1>5, <1>6, TraceLoad, Zenon
<1>8. n.hist[Fd] = x.hist[Fd] /\ UNCHANGED <<tags, output, updates>>
  BY <1>5 DEF Learned, Trc!atrace_init
<1> QED
  BY <1>0, <1>4, <1>7, <1>8, TrcKept

LEMMA TraceSetupStep ==
  ASSUME TrcInv, NEW t \in Threads, Trc!atrace_setup(t)
  PROVE  TrcInv'
<1>0. PICK x, on, cl, n, G : x = memory /\ on = once /\ cl = call /\ n = memory' /\ G = Fds(updates)
  OBVIOUS
<1>1. TraceOK(x, on, cl, G) /\ Whole(x, Threads, Locs, Vals) /\ HistOK(x, on, G) /\ DOMAIN cl = Threads
  BY <1>0 DEF TrcInv, TraceOK
<1>2. ASSUME on = "new", once' = t, NEW f \in {3, -1}, Trc!Goes(t, "setup tags", Trc!store(memory, t, Trc!fd, f, "relaxed"))
      PROVE  TraceOK(n, once', call', G) /\ Len(x.hist[Fd]) = 1
  <2>1. n = store(x, t, Fd, f, "relaxed") /\ call' = [cl EXCEPT ![t] = "setup tags"]
    BY <1>0, <1>2, TrcOps DEF Trc!Goes, Trc!fd, Fd
  <2>2. f \in Vals /\ Fd \in Locs
    BY Names
  <2>3. Stored(n, x, Threads, Locs, Vals, t, Fd, f, "relaxed")
    BY <1>1, <2>1, <2>2, StoreFacts
  <2>4. /\ Whole(n, Threads, Locs, Vals) /\ n.hist[Ready] = x.hist[Ready] /\ n.hist[Enabled] = x.hist[Enabled]
        /\ n.known[t][Fd] = 2 /\ Len(n.hist[Fd]) = 2 /\ n.hist[Fd][2].val = f
        /\ \A u \in Threads \ {t} : n.known[u] = x.known[u]
        /\ Len(x.hist[Fd]) = 1
    <3>1. Len(x.hist[Fd]) = 1
      BY <1>1, <1>2 DEF HistOK
    <3> QED
      BY <2>3, <3>1, Names DEF Stored
  <2>5. t # "new" /\ t # "done"
    BY Names
  <2>a. \A i \in 1 .. Len(x.hist[Enabled]) : i >= 2 => x.hist[Enabled][i].val \in TagSets /\ x.hist[Enabled][i].val # Traced
    <3> SUFFICES ASSUME NEW i \in 1 .. Len(x.hist[Enabled]), i >= 2
                 PROVE  x.hist[Enabled][i].val \in TagSets /\ x.hist[Enabled][i].val # Traced
      OBVIOUS
    <3>1. /\ x.hist[Enabled][i].val \in TagSets
          /\ x.hist[Enabled][i].val = Traced => Len(x.hist[Fd]) = 2
      BY <1>1, Zenon DEF HistOK
    <3> QED
      BY <2>4, <3>1
  <2>b. x.hist[Ready][1].val = 0 /\ Len(x.hist[Ready]) = 1
    <3>1. x.hist[Ready][1].val = 0
      BY <1>1, Zenon DEF HistOK
    <3>2. on # "done" => Len(x.hist[Ready]) = 1
      BY <1>1, Zenon DEF HistOK
    <3> QED
      BY <1>2, <3>1, <3>2
  <2>6. HistOK(n, t, G)
    BY <2>4, <2>5, <2>a, <2>b DEF HistOK
  <2>7. ASSUME NEW u \in Threads PROVE ThreadOK(n, t, [cl EXCEPT ![t] = "setup tags"][u], u, G)
    <3>1. CASE u = t
      BY <1>1, <2>4, <3>1 DEF ThreadOK
    <3>2. CASE u # t
      <4>1. ThreadOK(x, "new", cl[u], u, G) /\ u # "new" /\ n.known[u] = x.known[u]
        BY <1>1, <1>2, <2>4, <3>2, Names DEF TraceOK
      <4>c. cl[u] = "write" => Len(x.hist[Fd]) = 2
        BY <4>1, Zenon DEF ThreadOK
      <4>d. cl[u] \notin {"setup tags", "setup ready"}
        BY <4>1, Zenon DEF ThreadOK
      <4>e. cl[u] # "write"
        BY <2>4, <4>c
      <4>a. cl[u] \notin {"setup tags", "setup ready"} /\ cl[u] # "write"
        BY <4>d, <4>e
      <4>b. cl[u] = "tags" => n.known[u][Enabled] >= 2 /\ n.known[u][Fd] >= 2
        BY <4>1 DEF ThreadOK
      <4>2. ThreadOK(n, t, cl[u], u, G)
        BY <4>a, <4>b, Zenon DEF ThreadOK
      <4> QED
        BY <3>2, <4>2
    <3> QED
      BY <3>1, <3>2
  <2> QED
    BY <1>1, <1>2, <2>1, <2>4, <2>6, <2>7 DEF TraceOK
<1>3. ASSUME on = "done", once' = once, Trc!Goes(t, "tags", Trc!Learn(memory, t, Trc!ready, Len(memory.hist[Trc!ready]), "acquire"))
      PROVE  TraceOK(n, once', call', G) /\ n.hist = x.hist
  <2>1. n = Learn(x, t, Ready, Len(x.hist[Ready]), "acquire") /\ call' = [cl EXCEPT ![t] = "tags"] /\ once' = on
    BY <1>0, <1>3, TrcOps DEF Trc!Goes, Trc!ready, Ready
  <2>2. Len(x.hist[Ready]) = 2 /\ x.hist[Ready][2].view[Enabled] >= 2 /\ x.hist[Ready][2].view[Fd] >= 2
    BY <1>1, <1>3 DEF HistOK
  <2>3. Len(x.hist[Ready]) \in 1 .. Len(x.hist[Ready]) /\ 2 \in 1 .. Len(x.hist[Ready])
    BY <2>2
  <2>4. Learned(n, x, Threads, Locs, Vals, t, Ready, 2, "acquire")
    BY <1>1, <2>1, <2>2, <2>3, LearnFacts, Names
  <2>5. n.known[t][Enabled] >= x.hist[Ready][2].view[Enabled] /\ n.known[t][Fd] >= x.hist[Ready][2].view[Fd]
        /\ n.known[t][Enabled] \in Nat /\ n.known[t][Fd] \in Nat
    BY <1>1, <2>3, <2>4, TraceLearns, Names
  <2>6. x.hist[Ready][2].view[Enabled] \in Nat /\ x.hist[Ready][2].view[Fd] \in Nat
    BY <1>1, <2>3, KnownFacts, Names
  <2>7. ThreadOK(n, on, "tags", t, G)
    BY <2>2, <2>5, <2>6 DEF ThreadOK
  <2>8. TraceOK(n, on, [cl EXCEPT ![t] = "tags"], G)
    BY <1>1, <2>4, <2>7, TraceLoad, Zenon
  <2> QED
    BY <2>1, <2>4, <2>8 DEF Learned
<1>4. UNCHANGED <<tags, output, updates>>
  BY DEF Trc!atrace_setup
<1>5. TraceOK(n, once', call', G) /\ (n.hist = x.hist \/ Len(x.hist[Fd]) = 1)
  BY <1>0, <1>2, <1>3, Zenon DEF Trc!atrace_setup, Trc!Marker
<1>6. CASE n.hist = x.hist
  BY <1>0, <1>4, <1>5, <1>6, TrcKept
<1>7. CASE Len(x.hist[Fd]) = 1
  <2>1. OutputOK(x, tags, output, G) /\ updates \in Nat
    BY <1>0 DEF TrcInv
  <2>2. OutputOK(n, tags, output, G)
    BY <1>7, <2>1 DEF OutputOK
  <2>3. OutputOK(n, tags', output', G) /\ Fds(updates') = G /\ updates' \in Nat
    BY <1>0, <1>4, <2>1, <2>2
  <2> QED
    BY <1>0, <1>5, <2>3 DEF TrcInv
<1> QED
  BY <1>5, <1>6, <1>7

(* Tags are stored by a thread that knows of the descriptor.               *)
Opened(x, G) == x.hist[Fd][2].val \in G
MayStore(x, on, c, t) == c = "none" \/ (c = "setup ready" /\ on = t /\ x.known[t][Fd] >= 2)

LEMMA TraceStoresTags ==
  ASSUME NEW x, NEW n, NEW G, NEW on, NEW cl, TraceOK(x, on, cl, G), NEW t \in Threads, NEW c, NEW s \in TagSets, on # "new",
         s = Traced => Opened(x, G), Stored(n, x, Threads, Locs, Vals, t, Enabled, s, "relaxed"), MayStore(x, on, c, t)
  PROVE  TraceOK(n, on, [cl EXCEPT ![t] = c], G)
<1>1. Whole(x, Threads, Locs, Vals) /\ HistOK(x, on, G) /\ DOMAIN cl = Threads
  BY DEF TraceOK
<1>2. PICK z \in Nat : z = Len(x.hist[Enabled]) /\ z >= 1
  <2>1. Len(x.hist[Enabled]) \in Nat \ {0}
    BY <1>1, KnownFacts, Names, Zenon
  <2> QED
    BY <2>1
<1>3. /\ Whole(n, Threads, Locs, Vals) /\ n.hist[Ready] = x.hist[Ready] /\ n.hist[Fd] = x.hist[Fd]
      /\ n.known[t][Enabled] = z + 1 /\ n.known[t][Fd] = x.known[t][Fd]
      /\ Len(n.hist[Enabled]) = z + 1 /\ n.hist[Enabled][z + 1].val = s
      /\ \A i \in 1 .. z : n.hist[Enabled][i] = x.hist[Enabled][i]
      /\ \A u \in Threads \ {t} : n.known[u] = x.known[u]
  BY <1>2, Names DEF Stored
<1>4. HistOK(n, on, G)
  <2>1. Len(x.hist[Fd]) = 2
    BY <1>1 DEF HistOK
  <2>2. ASSUME NEW i \in 1 .. Len(n.hist[Enabled]), i >= 2
        PROVE  /\ n.hist[Enabled][i].val \in TagSets
               /\ n.hist[Enabled][i].val = Traced => Len(n.hist[Fd]) = 2 /\ n.hist[Fd][2].val \in G
    <3>1. CASE i = z + 1
      BY <1>3, <2>1, <3>1 DEF Opened
    <3>2. CASE i # z + 1
      <4>0. i \in 1 .. (z + 1) /\ z \in Nat
        BY <1>3
      <4>1. i \in 1 .. z
        BY <3>2, <4>0
      <4>2. n.hist[Enabled][i] = x.hist[Enabled][i] /\ i \in 1 .. Len(x.hist[Enabled])
        BY <1>2, <1>3, <4>1
      <4> QED
        BY <1>1, <1>3, <2>2, <4>2 DEF HistOK
    <3> QED
      BY <3>1, <3>2
  <2> QED
    BY <1>1, <1>3, <2>2 DEF HistOK
<1>5. ASSUME NEW u \in Threads PROVE ThreadOK(n, on, [cl EXCEPT ![t] = c][u], u, G)
  <2>1. CASE u = t
    <3>1. n.known[t][Enabled] >= 2
      BY <1>2, <1>3
    <3>2. c = "none" \/ (c = "setup ready" /\ on = t /\ n.known[t][Fd] >= 2)
      BY <1>3, Zenon DEF MayStore
    <3>3. ThreadOK(n, on, c, t, G)
      BY <3>1, <3>2 DEF ThreadOK
    <3> QED
      BY <1>1, <2>1, <3>3
  <2>2. CASE u # t
    <3>1. ThreadOK(x, on, cl[u], u, G) /\ n.known[u] = x.known[u]
      BY <1>3, <2>2 DEF TraceOK
    <3>2. ThreadOK(n, on, cl[u], u, G)
      BY <1>3, <3>1, Zenon DEF ThreadOK
    <3> QED
      BY <1>1, <2>2, <3>2
  <2> QED
    BY <2>1, <2>2
<1> QED
  BY <1>1, <1>3, <1>4, <1>5 DEF TraceOK

LEMMA TraceSetupTagsStep ==
  ASSUME TrcInv, NEW t \in Threads, Trc!SetupTags(t)
  PROVE  TrcInv'
<1>0. PICK x, on, cl, n, G : x = memory /\ on = once /\ cl = call /\ n = memory' /\ G = Fds(updates)
  OBVIOUS
<1>1. TraceOK(x, on, cl, G) /\ Whole(x, Threads, Locs, Vals) /\ HistOK(x, on, G)
  BY <1>0 DEF TrcInv, TraceOK
<1>2. PICK s \in IF Trc!last(memory, Trc!fd) = -1 THEN {{}} ELSE {{}, {Trc!Tag}} :
        Trc!Goes(t, "setup ready", Trc!store(memory, t, Trc!enabled, s, "relaxed"))
  BY DEF Trc!SetupTags
<1>3. /\ cl[t] = "setup tags" /\ n = store(x, t, Enabled, s, "relaxed") /\ call' = [cl EXCEPT ![t] = "setup ready"]
      /\ once' = on /\ tags' = tags /\ output' = output
  BY <1>0, <1>2, TrcOps, Zenon DEF Trc!Goes, Trc!enabled, Enabled, Trc!SetupTags
<1>4. s \in TagSets /\ (s = Traced => last(x, Fd) # -1)
  <2>1. s \in IF last(x, Fd) = -1 THEN {{}} ELSE {{}, {"tag"}}
    BY <1>0, <1>2, TrcOps, Zenon DEF Trc!fd, Fd, Trc!Tag
  <2>2. {} # {"tag"}
    OBVIOUS
  <2> QED
    BY <2>1, <2>2, Zenon DEF TagSets, Traced
<1>5. on = t /\ x.known[t][Fd] >= 2
  BY <1>1, <1>3, Zenon DEF TraceOK, ThreadOK
<1>6. on # "new"
  BY <1>5, Names
<1>7. Len(x.hist[Fd]) = 2 /\ x.hist[Fd][2].val \in {3, -1}
  BY <1>1, <1>6, Zenon DEF HistOK
<1>8. s = Traced => Opened(x, G)
  BY <1>0, <1>4, <1>7 DEF Opened, last, Fds
<1>9. Stored(n, x, Threads, Locs, Vals, t, Enabled, s, "relaxed")
  <2>1. s \in Vals /\ Enabled \in Locs
    BY <1>4, Names
  <2> QED
    BY <1>1, <1>3, <2>1, StoreFacts, Zenon
<1>10. MayStore(x, on, "setup ready", t)
  BY <1>5, Zenon DEF MayStore
<1>11. TraceOK(n, on, [cl EXCEPT ![t] = "setup ready"], G)
  BY <1>1, <1>4, <1>6, <1>8, <1>9, <1>10, TraceStoresTags, Zenon
<1>12. n.hist[Fd] = x.hist[Fd] /\ updates' = updates
  BY <1>9, Names DEF Stored, Trc!SetupTags
<1> QED
  BY <1>0, <1>3, <1>11, <1>12, TrcKept

LEMMA TraceUpdateStep ==
  ASSUME TrcInv, NEW t \in Threads, Trc!atrace_update_tags(t)
  PROVE  TrcInv'
<1>0. PICK x, on, cl, n, G : x = memory /\ on = once /\ cl = call /\ n = memory' /\ G = Fds(updates)
  OBVIOUS
<1>1. TraceOK(x, on, cl, G) /\ Whole(x, Threads, Locs, Vals) /\ HistOK(x, on, G) /\ DOMAIN cl = Threads
  BY <1>0 DEF TrcInv, TraceOK
<1>2. PICK r \in loads(x, t, Ready, "acquire") : r.val = 1
  BY <1>0, TrcOps, Zenon DEF Trc!atrace_update_tags, Trc!ready, Ready
<1>3. PICK i \in 1 .. Len(x.hist[Ready]) : r.val = x.hist[Ready][i].val
  BY <1>1, <1>2, LoadFacts, Names
<1>4. on = "done"
  <2> SUFFICES ASSUME on # "done" PROVE FALSE
    OBVIOUS
  <2>1. Len(x.hist[Ready]) = 1 /\ x.hist[Ready][1].val = 0
    BY <1>1, Zenon DEF HistOK
  <2> QED
    BY <1>2, <1>3, <2>1
<1>5. PICK s \in {{}, {"tag"}} :
        Trc!Goes(t, "none", Trc!store(Trc!Learn(memory, t, Trc!ready, Len(memory.hist[Trc!ready]), "acquire"),
                                      t, Trc!enabled, s, "relaxed"))
  BY Zenon DEF Trc!atrace_update_tags, Trc!Tag
<1>6. PICK y : y = Learn(x, t, Ready, Len(x.hist[Ready]), "acquire")
  OBVIOUS
<1>7. /\ n = store(y, t, Enabled, s, "relaxed") /\ call' = [cl EXCEPT ![t] = "none"]
      /\ once' = on /\ tags' = tags /\ output' = output
  BY <1>0, <1>5, <1>6, TrcOps, Zenon DEF Trc!Goes, Trc!enabled, Enabled, Trc!ready, Ready, Trc!atrace_update_tags
<1>8. Learned(y, x, Threads, Locs, Vals, t, Ready, Len(x.hist[Ready]), "acquire")
  <2>1. Len(x.hist[Ready]) \in 1 .. Len(x.hist[Ready])
    BY <1>1, KnownFacts, Names, Zenon
  <2> QED
    BY <1>1, <1>6, <2>1, LearnFacts, Names, Zenon
<1>9. TraceOK(y, on, [cl EXCEPT ![t] = "none"], G)
  <2>1. ThreadOK(y, on, "none", t, G)
    BY DEF ThreadOK
  <2> QED
    BY <1>1, <1>8, <2>1, TraceLoad, Zenon
<1>10. PICK cm : cm = [cl EXCEPT ![t] = "none"]
  OBVIOUS
<1>11. [cm EXCEPT ![t] = "none"] = call' /\ TraceOK(y, on, cm, G)
  BY <1>1, <1>7, <1>9, <1>10
<1>12. s \in TagSets /\ s \in Vals /\ Enabled \in Locs /\ Whole(y, Threads, Locs, Vals)
  BY <1>5, <1>8, Names DEF TagSets, Traced, Learned
<1>13. Stored(n, y, Threads, Locs, Vals, t, Enabled, s, "relaxed")
  BY <1>7, <1>12, StoreFacts, Zenon
<1>14. PICK H : H = {3, -1}
  OBVIOUS
<1>15. Opened(y, H) /\ y.hist = x.hist
  <2>1. Len(x.hist[Fd]) = 2 /\ x.hist[Fd][2].val \in {3, -1} /\ y.hist = x.hist
    BY <1>1, <1>4, <1>8 DEF HistOK, Learned
  <2> QED
    BY <1>14, <2>1 DEF Opened
<1>16. MayStore(y, on, "none", t) /\ on # "new"
  BY <1>4 DEF MayStore
<1>17. G \subseteq H /\ updates \in Nat /\ updates' \in Nat /\ Fds(updates') = H
  BY <1>0, <1>14 DEF Fds, TrcInv, Trc!atrace_update_tags
<1>18. TraceOK(y, on, cm, H)
  <2>1. Whole(y, Threads, Locs, Vals) /\ HistOK(y, on, G) /\ DOMAIN cm = Threads
        /\ \A u \in Threads : ThreadOK(y, on, cm[u], u, G)
    BY <1>11 DEF TraceOK
  <2>2. HistOK(y, on, H)
    BY <1>17, <2>1, Zenon DEF HistOK
  <2>3. \A u \in Threads : ThreadOK(y, on, cm[u], u, H)
    BY <1>17, <2>1, Zenon DEF ThreadOK
  <2> QED
    BY <2>1, <2>2, <2>3 DEF TraceOK
<1>19. TraceOK(n, on, [cm EXCEPT ![t] = "none"], H)
  BY <1>12, <1>13, <1>15, <1>16, <1>18, TraceStoresTags, Zenon
<1>20. n.hist[Fd] = x.hist[Fd]
  BY <1>13, <1>15, Names DEF Stored
<1>21. OutputOK(n, tags', output', H)
  <2>1. OutputOK(x, tags, output, G)
    BY <1>0 DEF TrcInv
  <2>2. OutputOK(n, tags, output, H)
    <3> SUFFICES ASSUME NEW u \in Threads
                 PROVE  /\ tags[u] # Unset /\ output[u] \subseteq H
                        /\ output[u] # {} => Len(n.hist[Fd]) = 2 /\ output[u] \subseteq {n.hist[Fd][2].val}
      BY <2>1, Zenon DEF OutputOK
    <3>1. /\ tags[u] # Unset /\ output[u] \subseteq G
          /\ output[u] # {} => Len(x.hist[Fd]) = 2 /\ output[u] \subseteq {x.hist[Fd][2].val}
      BY <2>1, Zenon DEF OutputOK
    <3> QED
      BY <1>17, <1>20, <3>1, Zenon
  <2> QED
    BY <1>7, <2>2, Zenon
<1> QED
  BY <1>0, <1>7, <1>11, <1>17, <1>19, <1>21 DEF TrcInv

LEMMA TraceReadyStep ==
  ASSUME TrcInv, NEW t \in Threads, Trc!SetupReady(t)
  PROVE  TrcInv'
<1>0. PICK x, on, cl, n, G : x = memory /\ on = once /\ cl = call /\ n = memory' /\ G = Fds(updates)
  OBVIOUS
<1>1. TraceOK(x, on, cl, G) /\ Whole(x, Threads, Locs, Vals) /\ HistOK(x, on, G) /\ DOMAIN cl = Threads
  BY <1>0 DEF TrcInv, TraceOK
<1>2. /\ cl[t] = "setup ready" /\ n = store(x, t, Ready, 1, "release") /\ call' = [cl EXCEPT ![t] = "tags"]
      /\ once' = "done" /\ tags' = tags /\ output' = output
  BY <1>0, TrcOps, Zenon DEF Trc!Goes, Trc!ready, Ready, Trc!SetupReady
<1>3. on = t /\ x.known[t][Fd] >= 2 /\ x.known[t][Enabled] >= 2
  BY <1>1, <1>2, Zenon DEF TraceOK, ThreadOK
<1>4. on # "new" /\ on # "done"
  BY <1>3, Names
<1>5. Stored(n, x, Threads, Locs, Vals, t, Ready, 1, "release")
  BY <1>1, <1>2, StoreFacts, Names, Zenon
<1>6. Len(x.hist[Ready]) = 1
  BY <1>1, <1>4, Zenon DEF HistOK
<1>7. /\ Whole(n, Threads, Locs, Vals) /\ n.hist[Enabled] = x.hist[Enabled] /\ n.hist[Fd] = x.hist[Fd]
      /\ n.known[t][Enabled] = x.known[t][Enabled] /\ n.known[t][Fd] = x.known[t][Fd]
      /\ Len(n.hist[Ready]) = 2 /\ n.hist[Ready][2].val = 1 /\ n.hist[Ready][1] = x.hist[Ready][1]
      /\ n.hist[Ready][2].view[Enabled] = x.known[t][Enabled] /\ n.hist[Ready][2].view[Fd] = x.known[t][Fd]
      /\ \A u \in Threads \ {t} : n.known[u] = x.known[u]
  BY <1>5, <1>6, Names DEF Stored
<1>8. HistOK(n, "done", G)
  <2>1. /\ Len(x.hist[Fd]) = 2 /\ x.hist[Fd][2].val \in {3, -1} /\ x.hist[Ready][1].val = 0
        /\ \A i \in 1 .. Len(x.hist[Enabled]) : i >= 2 =>
             /\ x.hist[Enabled][i].val \in TagSets
             /\ x.hist[Enabled][i].val = Traced => Len(x.hist[Fd]) = 2 /\ x.hist[Fd][2].val \in G
    BY <1>1, <1>4, Zenon DEF HistOK
  <2> QED
    BY <1>3, <1>7, <2>1, Zenon DEF HistOK
<1>9. ASSUME NEW u \in Threads PROVE ThreadOK(n, "done", [cl EXCEPT ![t] = "tags"][u], u, G)
  <2>1. CASE u = t
    <3>1. ThreadOK(n, "done", "tags", t, G)
      BY <1>3, <1>7 DEF ThreadOK
    <3> QED
      BY <1>1, <2>1, <3>1
  <2>2. CASE u # t
    <3>1. ThreadOK(x, on, cl[u], u, G) /\ n.known[u] = x.known[u] /\ on # u
      <4>1. ThreadOK(x, on, cl[u], u, G) /\ on # u
        BY <1>1, <1>3, <2>2 DEF TraceOK
      <4>2. n.known[u] = x.known[u]
        BY <1>7, <2>2
      <4> QED
        BY <4>1, <4>2
    <3>2. ThreadOK(n, "done", cl[u], u, G)
      BY <1>7, <3>1, Zenon DEF ThreadOK
    <3> QED
      BY <1>1, <2>2, <3>2
  <2> QED
    BY <2>1, <2>2
<1>10. TraceOK(n, "done", [cl EXCEPT ![t] = "tags"], G)
  BY <1>1, <1>7, <1>8, <1>9 DEF TraceOK
<1> QED
  BY <1>0, <1>2, <1>7, <1>10, TrcKept DEF Trc!SetupReady

LEMMA TraceReadStep ==
  ASSUME TrcInv, NEW t \in Threads, Trc!atrace_get_enabled_tags(t)
  PROVE  TrcInv'
<1>0. PICK x, on, cl, n, tg, out, G :
        x = memory /\ on = once /\ cl = call /\ n = memory' /\ tg = tags /\ out = output /\ G = Fds(updates)
  OBVIOUS
<1>1. TraceOK(x, on, cl, G) /\ Whole(x, Threads, Locs, Vals) /\ HistOK(x, on, G) /\ OutputOK(x, tg, out, G)
  BY <1>0 DEF TrcInv, TraceOK
<1>2. PICK r \in loads(x, t, Enabled, "relaxed") :
        /\ tags' = [tg EXCEPT ![t] = r.val]
        /\ Trc!Goes(t, IF "tag" \in r.val THEN "write" ELSE "none", r.m)
  BY <1>0, TrcOps, Zenon DEF Trc!atrace_get_enabled_tags, Trc!enabled, Enabled, Trc!Tag
<1>3. PICK c : c = IF "tag" \in r.val THEN "write" ELSE "none"
  OBVIOUS
<1>4. n = r.m /\ call' = [cl EXCEPT ![t] = c] /\ once' = on /\ output' = out /\ cl[t] = "tags"
  BY <1>0, <1>2, <1>3, Zenon DEF Trc!Goes, Trc!atrace_get_enabled_tags
<1>5. PICK i \in 1 .. Len(x.hist[Enabled]) :
        /\ i >= x.known[t][Enabled] /\ Learned(n, x, Threads, Locs, Vals, t, Enabled, i, "relaxed")
        /\ r.val = x.hist[Enabled][i].val
  BY <1>1, <1>2, <1>4, LoadFacts, Names
<1>6. x.known[t][Enabled] >= 2 /\ x.known[t][Fd] >= 2
  BY <1>1, <1>4, Zenon DEF TraceOK, ThreadOK
<1>7. x.known[t][Enabled] \in Nat /\ Len(x.hist[Enabled]) \in Nat
  BY <1>1, TraceLens, Names, Zenon
<1>8. i >= 2
  BY <1>5, <1>6, <1>7
<1>9. r.val \in TagSets /\ (r.val = Traced => Len(x.hist[Fd]) = 2 /\ x.hist[Fd][2].val \in G)
  BY <1>1, <1>5, <1>8, Zenon DEF HistOK
<1>10. ThreadOK(n, on, c, t, G)
  <2>1. /\ n.known[t][Enabled] >= x.known[t][Enabled] /\ n.known[t][Enabled] \in Nat
        /\ n.known[t][Fd] >= x.known[t][Fd] /\ n.known[t][Fd] \in Nat /\ x.known[t][Fd] \in Nat /\ n.hist = x.hist
    <3>1. \A k \in Locs : n.known[t][k] >= x.known[t][k] /\ n.known[t][k] \in Nat /\ x.known[t][k] \in Nat
      BY <1>1, <1>5, TraceLearns, Names, Zenon
    <3>2. n.hist = x.hist
      BY <1>5 DEF Learned
    <3> QED
      BY <3>1, <3>2, Names, Zenon
  <2>2. n.known[t][Enabled] >= 2 /\ n.known[t][Fd] >= 2
    BY <1>6, <1>7, <2>1
  <2>3. c = "write" => r.val = Traced
    BY <1>3, <1>9 DEF TagSets, Traced
  <2>4. c = "write" => Len(n.hist[Fd]) = 2 /\ n.hist[Fd][2].val \in G
    BY <1>9, <2>1, <2>3, Zenon
  <2>5. c \in {"write", "none"}
    BY <1>3
  <2> QED
    BY <2>2, <2>4, <2>5 DEF ThreadOK
<1>11. TraceOK(n, on, [cl EXCEPT ![t] = c], G)
  BY <1>1, <1>5, <1>10, TraceLoad, Zenon
<1>12. n.hist = x.hist
  BY <1>5 DEF Learned
<1>13. OutputOK(n, [tg EXCEPT ![t] = r.val], out, G)
  <2>1. r.val # Unset
    BY <1>9, Names, Zenon
  <2>2. DOMAIN tg = Threads /\ \A u \in Threads : tg[u] # Unset
    BY <1>1, Zenon DEF OutputOK
  <2>3. DOMAIN [tg EXCEPT ![t] = r.val] = Threads /\ \A u \in Threads : [tg EXCEPT ![t] = r.val][u] # Unset
    BY <2>1, <2>2
  <2> QED
    BY <1>1, <1>12, <2>3, Zenon DEF OutputOK
<1>14. updates' = updates /\ updates \in Nat
  BY DEF TrcInv, Trc!atrace_get_enabled_tags
<1> QED
  BY <1>0, <1>2, <1>4, <1>11, <1>13, <1>14 DEF TrcInv

LEMMA TraceWriteStep ==
  ASSUME TrcInv, NEW t \in Threads, Trc!atrace_write(t)
  PROVE  TrcInv'
<1>0. PICK x, on, cl, n, tg, out, G :
        x = memory /\ on = once /\ cl = call /\ n = memory' /\ tg = tags /\ out = output /\ G = Fds(updates)
  OBVIOUS
<1>1. TraceOK(x, on, cl, G) /\ Whole(x, Threads, Locs, Vals) /\ HistOK(x, on, G) /\ OutputOK(x, tg, out, G)
  BY <1>0 DEF TrcInv, TraceOK
<1>2. PICK r \in loads(x, t, Fd, "relaxed") :
        output' = [out EXCEPT ![t] = @ \cup {r.val}] /\ Trc!Goes(t, "none", r.m)
  BY <1>0, TrcOps, Zenon DEF Trc!atrace_write, Trc!fd, Fd
<1>4. n = r.m /\ call' = [cl EXCEPT ![t] = "none"] /\ once' = on /\ tags' = tg /\ cl[t] = "write"
  BY <1>0, <1>2, Zenon DEF Trc!Goes, Trc!atrace_write
<1>5. PICK i \in 1 .. Len(x.hist[Fd]) :
        /\ i >= x.known[t][Fd] /\ Learned(n, x, Threads, Locs, Vals, t, Fd, i, "relaxed")
        /\ r.val = x.hist[Fd][i].val
  BY <1>1, <1>2, <1>4, LoadFacts, Names
<1>6. x.known[t][Fd] >= 2 /\ Len(x.hist[Fd]) = 2 /\ x.hist[Fd][2].val \in G
  BY <1>1, <1>4, Zenon DEF TraceOK, ThreadOK
<1>7. x.known[t][Fd] \in Nat
  BY <1>1, TraceLens, Names, Zenon
<1>8. i = 2
  BY <1>5, <1>6, <1>7
<1>9. r.val = x.hist[Fd][2].val /\ r.val \in G /\ n.hist = x.hist
  BY <1>5, <1>6, <1>8 DEF Learned
<1>10. ThreadOK(n, on, "none", t, G)
  BY DEF ThreadOK
<1>11. TraceOK(n, on, [cl EXCEPT ![t] = "none"], G)
  BY <1>1, <1>5, <1>10, TraceLoad, Zenon
<1>12. OutputOK(n, tg, [out EXCEPT ![t] = @ \cup {r.val}], G)
  BY <1>1, <1>6, <1>9 DEF OutputOK
<1>13. updates' = updates /\ updates \in Nat
  BY DEF TrcInv, Trc!atrace_write
<1> QED
  BY <1>0, <1>2, <1>4, <1>11, <1>12, <1>13 DEF TrcInv

LEMMA TrcNext == TrcInv /\ Trc!Next => TrcInv'
  BY TraceInitStep, TraceSetupStep, TraceSetupTagsStep, TraceReadyStep, TraceUpdateStep, TraceReadStep,
     TraceWriteStep, Zenon DEF Trc!Next

LEMMA TrcStutters == TrcInv /\ UNCHANGED traceVars => TrcInv'
  BY DEF TrcInv, traceVars

LEMMA TrcMeans == TrcInv => Trc!TracesToMarker
<1> SUFFICES ASSUME TrcInv, NEW t \in Threads
             PROVE  /\ tags[t] # Unset /\ output[t] \subseteq {last(memory, Fd)}
                    /\ updates = 0 => output[t] \subseteq {3}
  BY TrcOps, Zenon DEF Trc!TracesToMarker, Trc!NotReady, Trc!Marker, Trc!fd, Fd, Unset
<1>1. OutputOK(memory, tags, output, Fds(updates))
  BY DEF TrcInv
<1>2. /\ tags[t] # Unset /\ output[t] \subseteq Fds(updates)
      /\ output[t] # {} => Len(memory.hist[Fd]) = 2 /\ output[t] \subseteq {memory.hist[Fd][2].val}
  BY <1>1, Zenon DEF OutputOK
<1>3. output[t] \subseteq {last(memory, Fd)}
  BY <1>2 DEF last
<1>4. updates = 0 => Fds(updates) = {3}
  BY DEF Fds
<1> QED
  BY <1>2, <1>3, <1>4, Zenon

-----------------------------------------------------------------------------
(* The orders of atomic.h are enough for what its comments say they are    *)
(* for, however many threads count, lock, set bits or trace: the last to   *)
(* drop a reference sees everybody's data, a count is never ahead of the   *)
(* data it announces, the lock protects, a bit has one owner, of two that  *)
(* announce themselves one sees the other (cutils/atomic.h), and tracing   *)
(* writes to the descriptor the setup has left only, which is an open one  *)
(* as long as nobody updates the tags after a failed setup                 *)
(* (cutils/trace.h).                                                       *)
THEOREM AtomicsAreOrdered == Spec => []AtomicsOrder
<1>1. Init => AtmInv /\ TrcInv
  BY AtmInit, TrcInit, Zenon DEF Init
<1>2. AtmInv /\ TrcInv /\ [Next]_vars => (AtmInv /\ TrcInv)'
  <2> SUFFICES ASSUME AtmInv, TrcInv, [Next]_vars PROVE AtmInv' /\ TrcInv'
    OBVIOUS
  <2>1. CASE AtomicStep
    BY <2>1, AtmNext, TrcStutters, Zenon DEF AtomicStep
  <2>2. CASE TraceStep
    BY <2>2, TrcNext, AtmStutters, Zenon DEF TraceStep
  <2>3. CASE UNCHANGED atomicVars /\ UNCHANGED traceVars
    BY <2>3, TrcStutters, AtmStutters, Zenon
  <2>4. LockStep \/ PointerStep \/ OrderStep \/ UNCHANGED vars => UNCHANGED atomicVars /\ UNCHANGED traceVars
    BY DEF LockStep, PointerStep, OrderStep, vars
  <2> QED
    BY <2>1, <2>2, <2>3, <2>4, Zenon DEF Next
<1>3. AtmInv /\ TrcInv => AtomicsOrder
  BY AtmMeans, TrcMeans, Zenon DEF AtomicsOrder
<1> QED
  BY <1>1, <1>2, <1>3, PTL DEF Spec
=============================================================================
