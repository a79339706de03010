----------------------------- MODULE WeakMemory -----------------------------
(***************************************************************************)
(* The memory that <stdatomic.h> gives (external): a location has the      *)
(* history of its values, and a thread may read any value that is not      *)
(* older than the last one it knows of.  A release store carries what its  *)
(* thread knows, an acquire load takes it over, a sequentially consistent  *)
(* fence exchanges it with all earlier fences.  Stores go to the end of a  *)
(* history, and no thread runs ahead of its program.                       *)
(***************************************************************************)
EXTENDS Integers, Sequences

Newer(v, w) == [l \in DOMAIN v |-> IF v[l] < w[l] THEN w[l] ELSE v[l]]

(* hist: the values; known: of a thread, the position it is at in every    *)
(* history; read, carried: what relaxed loads have brought for the next    *)
(* fence, and what relaxed stores carry since the last one.                *)
Memory(threads, init) ==
  LET start == [l \in DOMAIN init |-> 1]
  IN  [hist |-> [l \in DOMAIN init |-> <<[val |-> init[l], view |-> start]>>],
       known |-> [t \in threads |-> start], read |-> [t \in threads |-> start],
       carried |-> [t \in threads |-> start], fenced |-> start]

Learn(m, t, l, i, order) ==
  LET v == Newer(m.known[t], [m.known[t] EXCEPT ![l] = i])
      w == m.hist[l][i].view
  IN  [m EXCEPT !.known[t] = IF order = "acquire" THEN Newer(v, w) ELSE v,
                !.read[t] = Newer(@, w)]

(* What a load may give.                                                   *)
loads(m, t, l, order) ==
  {[m |-> Learn(m, t, l, i, order), val |-> m.hist[l][i].val] :
     i \in m.known[t][l] .. Len(m.hist[l])}

Carries(m, t, order) == IF order = "release" THEN m.known[t] ELSE m.carried[t]

store(m, t, l, val, order) ==
  LET at == Len(m.hist[l]) + 1
      n == [m EXCEPT !.known[t][l] = at]
  IN  [n EXCEPT !.hist[l] = Append(@, [val |-> val, view |-> [Carries(n, t, order) EXCEPT ![l] = at]])]

(* Reads the last value; a release sequence goes on through it.            *)
rmw(m, t, l, val, order) ==
  LET old == m.hist[l][Len(m.hist[l])]
      n == store(Learn(m, t, l, Len(m.hist[l]), order), t, l, val, order)
  IN  [n EXCEPT !.hist[l][Len(n.hist[l])].view = Newer(@, old.view)]
last(m, l) == m.hist[l][Len(m.hist[l])].val

fence(m, t) ==
  LET v == Newer(Newer(m.known[t], m.read[t]), m.fenced)
  IN  [m EXCEPT !.known[t] = v, !.carried[t] = v, !.fenced = v]
=============================================================================
