---------------------------- MODULE PointerOrder ----------------------------
(***************************************************************************)
(* What the pointers of StrongPointer.h and RefBase.h compare: sp<T> an    *)
(* address, wp<T> an address and the block with the counts.  Addresses are *)
(* used again as soon as an object is gone, a block (external) only when   *)
(* the last wp is.  m_refs of a pointer to nothing is whatever it was.     *)
(***************************************************************************)
EXTENDS Integers, FiniteSets

CONSTANTS Things,     \* objects, by number in the order of their creation
          Addresses,  \* numbers, not 0
          Blocks,     \* numbers: addresses of the blocks
          Sps, Wps    \* the pointers

VARIABLES thing,  \* of an object: its life, its address and its block
          sps,    \* m_ptr of a strong pointer, and the object it is meant for
          wps     \* m_ptr and m_refs of a weak pointer, and its object
orderVars == <<thing, sps, wps>>

None == 0
Live == {o \in Things : thing[o].life = "live"}
Held(w) == w.m_ptr # None
UsedBlocks ==
  {thing[o].refs : o \in Live} \cup {wps[w].m_refs : w \in {v \in Wps : Held(wps[v])}}

sp_none == [m_ptr |-> None, of |-> None]
wp_none(refs) == [m_ptr |-> None, m_refs |-> refs, of |-> None]

Init ==
  /\ thing = [o \in Things |-> [life |-> "none", at |-> None, refs |-> None]]
  /\ sps = [s \in Sps |-> sp_none]
  /\ wps \in [Wps -> {wp_none(b) : b \in Blocks}]

(* The strong pointers become S: objects without one are deleted.          *)
Becomes(S, made) ==
  /\ sps' = S
  /\ thing' = [o \in Things |-> IF made[o].life = "live" /\ \A s \in Sps : S[s].of # o
                                THEN [made[o] EXCEPT !.life = "gone"] ELSE made[o]]
  /\ UNCHANGED wps

sp_new(s, o, a, b) ==
  /\ thing[o].life = "none" /\ \A p \in Things : p < o => thing[p].life # "none"
  /\ a \notin {thing[p].at : p \in Live} /\ b \notin UsedBlocks
  /\ Becomes([sps EXCEPT ![s] = [m_ptr |-> a, of |-> o]],
             [thing EXCEPT ![o] = [life |-> "live", at |-> a, refs |-> b]])
sp_assign(s, r) == Becomes([sps EXCEPT ![s] = sps[r]], thing)
sp_clear(s) == Becomes([sps EXCEPT ![s] = sp_none], thing)

(* promote: only of an object that still lives.                            *)
promote(s, w) ==
  /\ Held(wps[w]) /\ wps[w].of \in Live
  /\ Becomes([sps EXCEPT ![s] = [m_ptr |-> wps[w].m_ptr, of |-> wps[w].of]], thing)

Weak(w, new) == wps' = [wps EXCEPT ![w] = new] /\ UNCHANGED <<thing, sps>>
FromSp(s, refs) ==
  IF sps[s].m_ptr = None THEN wp_none(refs)
  ELSE [m_ptr |-> sps[s].m_ptr, m_refs |-> thing[sps[s].of].refs, of |-> sps[s].of]

(* A new wp of a strong or weak pointer, which may be to nothing: the      *)
(* members that the constructor does not set are what the memory held.     *)
wp_ctor_sp(w, s) == ~Held(wps[w]) /\ \E b \in Blocks : Weak(w, FromSp(s, b))
wp_ctor_wp(w, v) ==
  /\ ~Held(wps[w])
  /\ \E b \in Blocks \cup {wps[v].m_refs} : Weak(w, IF Held(wps[v]) THEN wps[v] ELSE wp_none(b))
wp_assign_sp(w, s) == Weak(w, FromSp(s, None))
wp_assign_wp(w, v) == Weak(w, wps[v])
set_object_and_refs(w, v) == Held(wps[v]) /\ Weak(w, [m_ptr |-> wps[v].m_ptr, m_refs |-> wps[v].m_refs, of |-> wps[v].of])
wp_clear(w) == Weak(w, [wps[w] EXCEPT !.m_ptr = None, !.of = None])

Next ==
  \/ \E s \in Sps :
       \/ \E o \in Things, a \in Addresses, b \in Blocks : sp_new(s, o, a, b)
       \/ \E r \in Sps : sp_assign(s, r)
       \/ sp_clear(s) \/ \E w \in Wps : promote(s, w)
  \/ \E w \in Wps :
       \/ \E s \in Sps : wp_ctor_sp(w, s) \/ wp_assign_sp(w, s)
       \/ \E v \in Wps : wp_ctor_wp(w, v) \/ wp_assign_wp(w, v) \/ set_object_and_refs(w, v)
       \/ wp_clear(w)

-----------------------------------------------------------------------------
(* COMPARE and COMPARE_WEAK: an sp with either kind of pointer.            *)
equal(p, q) == p.m_ptr = q.m_ptr

weak_equal(v, w) == v.m_ptr = w.m_ptr /\ v.m_refs = w.m_refs
weak_differs(v, w) == v.m_refs # w.m_refs
(* The overloads for a wp<U> of another type look at the address only.     *)
weak_equal_U(v, w) == v.m_ptr = w.m_ptr
weak_differs_U(v, w) == ~weak_equal_U(v, w)
weak_greater(v, w) == IF v.m_ptr = w.m_ptr THEN v.m_refs > w.m_refs ELSE v.m_ptr > w.m_ptr
weak_less(v, w) == IF v.m_ptr = w.m_ptr THEN v.m_refs < w.m_refs ELSE v.m_ptr < w.m_ptr

(* Weak pointers of one type that are set are equal when they were made    *)
(* for the same object and at no other time, although another object may   *)
(* have the address by now; != , which looks only at the block, agrees,    *)
(* and exactly one of <, == and > holds, so that they can be the keys of a *)
(* container.  The operators == and != of two types find the same object   *)
(* equal too, but mistake a dead object for one that has its address: they *)
(* tell two objects apart for certain only while both live.  A pointer to  *)
(* an object that lives is equal to the strong pointers to it and to no    *)
(* others.                                                                 *)
KnowsObjects ==
  /\ \A v, w \in Wps : Held(wps[v]) /\ Held(wps[w]) =>
       LET x == wps[v]  y == wps[w]  same == x.of = y.of
       IN  /\ weak_equal(x, y) <=> same
           /\ weak_differs(x, y) <=> ~same
           /\ same => weak_equal_U(x, y)
           /\ ~same /\ {x.of, y.of} \subseteq Live => weak_differs_U(x, y)
           /\ ~same => (weak_less(x, y) <=> ~weak_greater(x, y))
           /\ same => ~weak_less(x, y) /\ ~weak_greater(x, y)
  /\ \A s, r \in Sps : equal(sps[s], sps[r]) <=> sps[s].of = sps[r].of
  /\ \A w \in Wps, s \in Sps : wps[w].of \in Live => (equal(wps[w], sps[s]) <=> wps[w].of = sps[s].of)
=============================================================================
