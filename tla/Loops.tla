------------------------------- MODULE Loops --------------------------------
(***************************************************************************)
(* Counted loops as operators, in a form TLC evaluates eagerly.            *)
(***************************************************************************)
EXTENDS Integers, Sequences, TLC

(* for (k = 1; k <= n; ++k) x = Body(k, x);  CHOOSE only makes TLC compute *)
(* x before it enters the body, and Strict a function once for all uses.   *)
From(start, Body(_, _), n) ==
  LET x[k \in 0 .. n] ==
        IF k = 0 THEN start ELSE CHOOSE y \in {Body(k, z) : z \in {x[k - 1]}} : TRUE
  IN  x[n]
Loop(Body(_, _), x0, n) == CHOOSE y \in {From(z, Body, n) : z \in {x0}} : TRUE
Strict(f) == f @@ <<>>

(* What for (p = start; p != stop; p = next[p]) visits, at most n nodes.   *)
Walk(start, stop, next, n) ==
  LET Node(k, x) == IF x.p = stop THEN x ELSE [p |-> next[x.p], seen |-> Append(x.seen, x.p)]
  IN  Loop(Node, [p |-> start, seen |-> <<>>], n).seen
=============================================================================
