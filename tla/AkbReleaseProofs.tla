-------------------------- MODULE AkbReleaseProofs --------------------------
(***************************************************************************)
(* Proofs about AkbRelease, for any kernel tree and any number of makes,   *)
(* failures, interruptions and calls of akb_init.                          *)
(***************************************************************************)
EXTENDS AkbRelease, SequenceTheorems, FiniteSetTheorems, TLAPS

(***************************************************************************)
(* The kernel tree.  The directories sources/ of the tree and of ../tmp    *)
(* are nested without gaps, everything below the top is in one of them,    *)
(* and the tree has no second level while ../tmp has a first one: so the   *)
(* move of sources/ back never finds a directory in its way.               *)
(***************************************************************************)
Roots == {"tree", "tmp"}
Places == (Roots \X Nat) \cup {Gone, Never}
Steps == {"idle", "away", "back", "remove"}

Visible == {i \in Items : i[2] \notin Hidden}
Lasting == {i \in Items : i[1] = "tree"}

TreeTypeOK ==
  /\ loc \in [Items -> Places]
  /\ dirs \subseteq Roots \X (Nat \ {0})
  /\ step \in Steps
  /\ left \subseteq Visible \cup {Sources}
  /\ failedBack \subseteq Items
  /\ inits \in Nat /\ mvfaults \in Nat /\ halts \in Nat

Nested ==
  /\ \A p \in dirs : \A k \in 1 .. p[2] : <<p[1], k>> \in dirs
  /\ \A i \in Items : loc[i] \in Roots \X (Nat \ {0}) => loc[i] \in dirs
  /\ ~ (<<"tree", 2>> \in dirs /\ <<"tmp", 1>> \in dirs)
  /\ \A i \in Lasting : i \notin Visible => loc[i] # <<"tmp", 0>>

(* A stranger's file at the top of ../tmp with the name of an entry: the   *)
(* entry has not left the tree, as it would have taken its place.          *)
Twins ==
  \A i \in Items : i[1] = "tmp" =>
    /\ loc[i] # <<"tree", 0>>
    /\ loc[i] = <<"tmp", 0>> /\ i[2] \in Entries => loc[<<"tree", i[2]>>] = <<"tree", 0>>

(* What is in ../tmp while init.sh moves things back is still to be moved, *)
(* or its move has failed, or it is a stranger's hidden file.              *)
ToBeMoved(i) ==
  \/ i \in failedBack
  \/ loc[i] = <<"tmp", 0>> /\ i \in left
  \/ loc[i] # <<"tmp", 0>> /\ Sources \in left

Moving ==
  /\ step \in {"idle", "remove"} => left = {}
  /\ step \in {"back", "remove"} =>
       /\ <<"tree", 1>> \in dirs
       /\ Sources \in left => <<"tmp", 1>> \in dirs
       /\ \A i \in Visible \cup Lasting : loc[i][1] = "tmp" => ToBeMoved(i)
  /\ step = "away" => \A i \in left : i # Sources => loc[i] = <<"tree", 0>>
  /\ step = "back" => \A i \in left : i # Sources => loc[i] = <<"tmp", 0>>

LostInv == TreeTypeOK /\ Nested /\ Twins /\ Moving /\ LostOnlyByFailedMove

-----------------------------------------------------------------------------
LEMMA PlaceFacts ==
  /\ \A p \in Places : p[1] \in {"tree", "tmp", "gone", "never"} /\ p[2] \in Nat /\ p = <<p[1], p[2]>>
  /\ \A p \in Places : p[1] \in Roots => p \in Roots \X Nat
  /\ \A r, r2, d, d2 : <<r, d>> = <<r2, d2>> <=> r = r2 /\ d = d2
  /\ Gone[1] = "gone" /\ Never[1] = "never"
  BY DEF Places, Roots, Gone, Never

LEMMA ItemFacts ==
  /\ \A i \in Items : i = <<i[1], i[2]>> /\ i[1] \in {"tree", "tmp"} /\ i[2] # "sources" /\ i # Sources
  /\ \A n \in Entries : <<"tree", n>> \in Visible \cap Lasting
  /\ Git \in Lasting /\ Git \notin Visible /\ Git \in Items
  /\ \A i \in Visible : i \in Items /\ (i[1] = "tree" => i[2] \in Entries)
  /\ \A i \in Items : i \notin Visible \cup Lasting => i[1] = "tmp" /\ i[2] \in Hidden
  /\ Lasting \subseteq Items /\ Sources \notin Items
  BY TreeNames DEF Items, Visible, Lasting, Git, Sources

LEMMA LostInit == Init => LostInv
  <1> SUFFICES ASSUME Init PROVE LostInv
    OBVIOUS
  <1>0. dirs = {} /\ step = "idle" /\ left = {} /\ failedBack = {} /\ inits = 0 /\ mvfaults = 0 /\ halts = 0
    BY DEF Init, TreeInit
  <1>1. PICK there \in SUBSET Others :
          loc = [i \in Items |-> IF i[1] = "tree" THEN <<"tree", 0>>
                                ELSE IF i[2] \in there THEN <<"tmp", 0>> ELSE Never]
    BY DEF Init, TreeInit
  <1>2. {<<"tree", 0>>, <<"tmp", 0>>, Never} \subseteq Places
    BY DEF Places, Roots
  <1>3. TreeTypeOK
    BY <1>0, <1>1, <1>2 DEF TreeTypeOK, Steps
  <1>4. Nested
    BY <1>0, <1>1 DEF Nested, Lasting, Roots, Never
  <1>5. Twins
    BY <1>1, ItemFacts DEF Twins, Never, Visible, Lasting
  <1>6. Moving /\ LostOnlyByFailedMove
    BY <1>0, <1>1 DEF Moving, LostOnlyByFailedMove, Gone, Never
  <1> QED BY <1>3, <1>4, <1>5, <1>6 DEF LostInv

LEMMA ShiftPlace ==
  ASSUME NEW p \in Places, NEW root \in Roots, NEW to \in Roots, NEW by \in Nat
  PROVE  /\ Shift(p, root, to, by) \in Places
         /\ p[1] = root /\ p[2] >= 1 => Shift(p, root, to, by) = <<to, p[2] + by>>
         /\ p[1] # root \/ p[2] = 0 => Shift(p, root, to, by) = p
  BY PlaceFacts DEF Shift, Places, Roots

(* The move of sources/ to a place where there is none, or an empty one.   *)
LEMMA SourcesMoved ==
  ASSUME TreeTypeOK, Nested, NEW root \in Roots, NEW to \in Roots, root # to, NEW by \in {0, 1},
         by = 1 => <<to, 1>> \in dirs,
         <<to, 1 + by>> \in dirs => ~ Filled(to, 1 + by),
         loc' = [i \in Items |-> Shift(loc[i], root, to, by)],
         dirs' = {Shift(p, root, to, by) : p \in dirs}
  PROVE  /\ loc' \in [Items -> Places]
         /\ dirs' \subseteq Roots \X (Nat \ {0})
         /\ \A p \in dirs' : \A k \in 1 .. p[2] : <<p[1], k>> \in dirs'
         /\ \A i \in Items : loc'[i] \in Roots \X (Nat \ {0}) => loc'[i] \in dirs'
         /\ \A p \in dirs' : p[1] # root
  <1>0. dirs \subseteq Places
    BY DEF TreeTypeOK, Places
  <1>1. loc' \in [Items -> Places]
    BY ShiftPlace DEF TreeTypeOK
  <1>2. ASSUME NEW p \in dirs
        PROVE  /\ Shift(p, root, to, by) \in Roots \X (Nat \ {0})
               /\ p[1] = root => Shift(p, root, to, by) = <<to, p[2] + by>>
               /\ p[1] = to => Shift(p, root, to, by) = p
               /\ p[1] \in {root, to}
    <2>1. p \in Places /\ p \in Roots \X (Nat \ {0})
      BY <1>0 DEF TreeTypeOK
    <2>2. p[1] \in {root, to} /\ p[2] \in Nat \ {0} /\ p[2] >= 1
      BY <2>1 DEF Roots
    <2>3. CASE p[1] = root
      BY <2>1, <2>2, <2>3, ShiftPlace
    <2>4. CASE p[1] = to
      BY <2>1, <2>2, <2>4, ShiftPlace
    <2> QED BY <2>2, <2>3, <2>4
  <1>3. dirs' \subseteq Roots \X (Nat \ {0}) /\ \A p \in dirs' : p[1] # root
    BY <1>2, PlaceFacts DEF TreeTypeOK
  <1>4. ASSUME NEW q \in dirs, NEW k \in 1 .. q[2] + by, q[1] = root
        PROVE  <<to, k>> \in dirs'
    <2>1. CASE k - by \in 1 .. q[2]
      <3>1. <<root, k - by>> \in dirs
        BY <2>1, <1>4 DEF Nested
      <3>2. Shift(<<root, k - by>>, root, to, by) = <<to, k>>
        BY <3>1, <1>2, <2>1, <1>4
      <3> QED BY <3>1, <3>2
    <2>2. CASE k - by \notin 1 .. q[2]
      <3>1. by = 1 /\ k = 1
        BY <2>2, <1>4 DEF TreeTypeOK
      <3>2. Shift(<<to, 1>>, root, to, by) = <<to, 1>>
        BY <3>1, <1>2
      <3> QED BY <3>1, <3>2
    <2> QED BY <2>1, <2>2
  <1>5. ASSUME NEW q \in dirs, NEW k \in 1 .. q[2], q[1] = to
        PROVE  <<to, k>> \in dirs'
    <2>1. <<to, k>> \in dirs
      BY <1>5 DEF Nested
    <2> QED BY <2>1, <1>2
  <1>6. \A p \in dirs' : \A k \in 1 .. p[2] : <<p[1], k>> \in dirs'
    <2> SUFFICES ASSUME NEW p \in dirs', NEW k \in 1 .. p[2] PROVE <<p[1], k>> \in dirs'
      OBVIOUS
    <2>1. PICK q \in dirs : p = Shift(q, root, to, by)
      OBVIOUS
    <2>2. CASE q[1] = root
      BY <2>1, <2>2, <1>2, <1>4
    <2>3. CASE q[1] = to
      BY <2>1, <2>3, <1>2, <1>5
    <2> QED BY <2>2, <2>3, <1>2
  <1>7. \A i \in Items : loc'[i] \in Roots \X (Nat \ {0}) => loc'[i] \in dirs'
    <2> SUFFICES ASSUME NEW i \in Items, loc'[i] \in Roots \X (Nat \ {0}) PROVE loc'[i] \in dirs'
      OBVIOUS
    <2>1. loc[i] \in Places /\ loc'[i] = Shift(loc[i], root, to, by)
      BY DEF TreeTypeOK
    <2>2. loc[i] \in Roots \X (Nat \ {0})
      <3>1. CASE loc[i][1] = root /\ loc[i][2] >= 1
        BY <2>1, <3>1, PlaceFacts DEF Roots
      <3>2. CASE loc[i][1] # root \/ loc[i][2] = 0
        BY <2>1, <3>2, ShiftPlace
      <3> QED BY <3>1, <3>2, <2>1, PlaceFacts
    <2>3. loc[i] \in dirs
      BY <2>2 DEF Nested
    <2> QED BY <2>1, <2>3
  <1> QED BY <1>1, <1>3, <1>6, <1>7

LEMMA StarFacts ==
  ASSUME TreeTypeOK, NEW root \in Roots
  PROVE  /\ Star(root) \subseteq Visible \cup {Sources}
         /\ Sources \in Star(root) <=> <<root, 1>> \in dirs
         /\ \A i \in Visible : i \in Star(root) <=> loc[i] = <<root, 0>>
         /\ \A i \in Star(root) : i # Sources => loc[i] = <<root, 0>>
  BY ItemFacts DEF Star, Visible, TreeTypeOK

(* What mv does to one item, and whom it may replace.                      *)
LEMMA OneMoved ==
  ASSUME TreeTypeOK, NEW e \in Items, NEW root \in Roots, NEW to \in Roots, NEW by \in {0, 1},
         MoveOne(e, root, to, by), <<to, by>> \in Places
  PROVE  /\ dirs' = dirs /\ loc' \in [Items -> Places]
         /\ \/ loc' = loc /\ Refused(e, to, by)
            \/ /\ ~ Refused(e, to, by) /\ loc'[e] = <<to, by>>
               /\ \A i \in Items : i # e =>
                    loc'[i] = loc[i] \/ (loc'[i] = Gone /\ i[2] = e[2] /\ loc[i] = <<to, by>>)
  <1>1. e # Sources /\ Gone \in Places
    BY ItemFacts DEF Places
  <1>2. CASE Refused(e, to, by)
    BY <1>1, <1>2 DEF MoveOne, TreeTypeOK
  <1>3. CASE ~ Refused(e, to, by)
    <2>1. /\ loc' = [i \in Items |-> IF i = e THEN <<to, by>>
                                 ELSE IF i \in InTheWay(e, to, by) THEN Gone ELSE loc[i]]
          /\ dirs' = dirs
      BY <1>1, <1>3 DEF MoveOne
    <2> QED BY <1>1, <1>3, <2>1 DEF InTheWay, TreeTypeOK
  <1> QED BY <1>2, <1>3

LEMMA LostMoveAway ==
  ASSUME LostInv, NEW e \in Items \cup {Sources}, NEW ok \in BOOLEAN, MoveAway(e, ok)
  PROVE  LostInv'
  <1> USE DEF LostInv
  <1>0. /\ step = "away" /\ UNCHANGED <<step, failedBack, inits, halts>> /\ e \in left
        /\ left' = left \ {e} /\ mvfaults' \in Nat
        /\ \A i \in left : i # Sources => loc[i] = <<"tree", 0>>
        /\ left' \subseteq Visible \cup {Sources}
    BY DEF MoveAway, TreeTypeOK, Moving
  <1>1. step' \in Steps /\ step' = "away"
    BY <1>0 DEF Steps
  <1>2. CASE UNCHANGED <<loc, dirs>>
    BY <1>0, <1>1, <1>2 DEF TreeTypeOK, Nested, Twins, Moving, LostOnlyByFailedMove
  <1>3. CASE e # Sources /\ ok /\ ~ UNCHANGED <<loc, dirs>>
    <2>0. <<"tmp", 0>> \in Places /\ <<"tmp", 0>> \notin Roots \X (Nat \ {0}) /\ <<"tmp", 0>> # Gone
          /\ Gone # <<"tree", 0>> /\ Gone \notin Roots \X (Nat \ {0}) /\ <<"tmp", 0>> # <<"tree", 0>>
      BY DEF Places, Roots, Gone
    <2>1. e \in Items /\ e \in Visible /\ loc[e] = <<"tree", 0>> /\ e[1] = "tree" /\ e[2] \in Entries
      BY <1>0, <1>3, ItemFacts DEF TreeTypeOK, Twins
    <2>2. /\ dirs' = dirs /\ loc' \in [Items -> Places] /\ loc'[e] = <<"tmp", 0>>
          /\ \A i \in Items : i # e =>
                    loc'[i] = loc[i] \/ (loc'[i] = Gone /\ i[2] = e[2] /\ loc[i] = <<"tmp", 0>>)
      BY <1>3, <2>0, <2>1, OneMoved DEF MoveAway, Roots
    <2>3. ASSUME NEW i \in Items, i # e, loc'[i] # loc[i]
          PROVE  loc'[i] = Gone /\ i[1] = "tmp" /\ i[2] = e[2] /\ loc[i] = <<"tmp", 0>> /\ i \notin left
      <3>1. i[2] = e[2] /\ loc[i] = <<"tmp", 0>> /\ loc'[i] = Gone
        BY <2>2, <2>3
      <3>2. i[1] = "tmp"
        BY <3>1, <2>1, <2>3, ItemFacts
      <3> QED BY <3>1, <3>2, <1>0, <2>0, ItemFacts
    <2>4. Nested'
      <3>1. \A i \in Items : loc'[i] \in Roots \X (Nat \ {0}) => loc'[i] \in dirs'
        BY <2>0, <2>2 DEF Nested
      <3>2. \A i \in Lasting : i \notin Visible => loc'[i] # <<"tmp", 0>>
        BY <2>0, <2>1, <2>2, ItemFacts DEF Nested
      <3> QED BY <3>1, <3>2, <2>2 DEF Nested
    <2>5. Twins'
      <3> SUFFICES ASSUME NEW i \in Items, i[1] = "tmp"
                   PROVE  /\ loc'[i] # <<"tree", 0>>
                          /\ loc'[i] = <<"tmp", 0>> /\ i[2] \in Entries => loc'[<<"tree", i[2]>>] = <<"tree", 0>>
        BY DEF Twins
      <3>1. i # e
        BY <2>1
      <3>2. CASE loc'[i] # loc[i]
        BY <3>1, <3>2, <2>0, <2>3
      <3>3. CASE loc'[i] = loc[i]
        <4>1. loc'[i] # <<"tree", 0>>
          BY <3>3 DEF Twins
        <4>2. ASSUME loc'[i] = <<"tmp", 0>>, i[2] \in Entries PROVE loc'[<<"tree", i[2]>>] = <<"tree", 0>>
          <5>1. loc[<<"tree", i[2]>>] = <<"tree", 0>> /\ <<"tree", i[2]>> \in Items
            BY <3>3, <4>2, ItemFacts DEF Twins
          <5>2. <<"tree", i[2]>> # e
            <6>1. SUFFICES ASSUME <<"tree", i[2]>> = e PROVE FALSE
              OBVIOUS
            <6>2. i[2] = e[2]
              BY <6>1
            <6>3. ~ Refused(e, "tmp", 0)
              BY <1>3, <2>1, <2>0, OneMoved, ItemFacts DEF MoveAway, MoveOne
            <6>4. i \in InTheWay(e, "tmp", 0)
              BY <6>2, <3>1, <3>3, <4>2 DEF InTheWay
            <6>5. loc'[i] = Gone
              BY <1>3, <2>1, <3>1, <6>3, <6>4, ItemFacts DEF MoveAway, MoveOne
            <6> QED BY <6>5, <4>2, <2>0
          <5> QED BY <5>1, <5>2, <2>0, <2>3, ItemFacts
        <4> QED BY <4>1, <4>2
      <3> QED BY <3>2, <3>3
    <2>6. Moving'
      <3>1. \A i \in left' : i # Sources => i \in Items /\ i # e
        BY <1>0 DEF Visible
      <3>2. \A i \in left' : i # Sources => loc'[i] = <<"tree", 0>>
        BY <3>1, <1>0, <2>3
      <3> QED BY <1>0, <1>1, <3>2 DEF Moving
    <2>7. LostOnlyByFailedMove'
      <3> SUFFICES ASSUME NEW i \in Items, loc'[i] = Gone
                   PROVE  i \in failedBack' \/ (i[1] = "tmp" /\ i[2] \in Hidden \cup Entries)
        BY DEF LostOnlyByFailedMove
      <3>1. i # e
        BY <2>0, <2>2
      <3> QED BY <3>1, <2>1, <2>3, <1>0 DEF LostOnlyByFailedMove
    <2>8. TreeTypeOK'
      BY <1>0, <1>1, <2>2 DEF TreeTypeOK
    <2> QED BY <2>4, <2>5, <2>6, <2>7, <2>8
  <1>4. CASE e = Sources /\ ok /\ ~ UNCHANGED <<loc, dirs>>
    <2>1. /\ loc' = [i \in Items |-> Shift(loc[i], "tree", "tmp", 0)]
          /\ dirs' = {Shift(p, "tree", "tmp", 0) : p \in dirs}
          /\ <<"tmp", 1 + 0>> \in dirs => ~ Filled("tmp", 1 + 0)
      BY <1>4 DEF MoveAway, MoveOne, MoveSources
    <2>2. /\ loc' \in [Items -> Places]
          /\ dirs' \subseteq Roots \X (Nat \ {0})
          /\ \A p \in dirs' : \A k \in 1 .. p[2] : <<p[1], k>> \in dirs'
          /\ \A i \in Items : loc'[i] \in Roots \X (Nat \ {0}) => loc'[i] \in dirs'
          /\ \A p \in dirs' : p[1] # "tree"
      BY <2>1, SourcesMoved DEF Roots
    <2>3. ASSUME NEW i \in Items
          PROVE  /\ loc'[i] = Gone => loc[i] = Gone
                 /\ loc'[i] = <<"tmp", 0>> => loc[i] = <<"tmp", 0>>
                 /\ loc'[i] = <<"tree", 0>> <=> loc[i] = <<"tree", 0>>
      <3>1. loc[i] \in Places /\ loc'[i] = Shift(loc[i], "tree", "tmp", 0)
        BY <2>1 DEF TreeTypeOK
      <3>2. CASE loc[i][1] = "tree" /\ loc[i][2] >= 1
        <4>1. loc'[i] = <<"tmp", loc[i][2] + 0>> /\ loc[i][2] \in Nat
          BY <3>1, <3>2, ShiftPlace, PlaceFacts, ZenonT(60) DEF Roots
        <4> QED BY <4>1, <3>2 DEF Gone
      <3>3. CASE loc[i][1] # "tree" \/ loc[i][2] = 0
        BY <3>1, <3>3, ShiftPlace DEF Roots
      <3> QED BY <3>1, <3>2, <3>3, PlaceFacts
    <2>4. <<"tree", 2>> \notin dirs'
      BY <2>2
    <2>5. Nested'
      BY <2>2, <2>3, <2>4, ItemFacts DEF Nested
    <2>6. Twins'
      <3>1. \A n \in Entries : <<"tree", n>> \in Items
        BY ItemFacts
      <3> QED BY <2>3, <3>1 DEF Twins
    <2>7. Moving'
      <3>1. \A i \in left' : i # Sources => i \in Items
        BY <1>0 DEF Visible
      <3>2. \A i \in left' : i # Sources => loc'[i] = <<"tree", 0>>
        BY <3>1, <1>0, <2>3
      <3> QED BY <1>0, <1>1, <3>2 DEF Moving
    <2>8. LostOnlyByFailedMove'
      BY <2>3, <1>0 DEF LostOnlyByFailedMove
    <2>9. TreeTypeOK'
      BY <1>0, <1>1, <2>2 DEF TreeTypeOK
    <2> QED BY <2>5, <2>6, <2>7, <2>8, <2>9
  <1> QED BY <1>2, <1>3, <1>4 DEF MoveAway

LEMMA LostMoveBack ==
  ASSUME LostInv, NEW e \in Items \cup {Sources}, NEW ok \in BOOLEAN, MoveBack(e, ok)
  PROVE  LostInv'
  <1> USE DEF LostInv
  <1>0. /\ step = "back" /\ UNCHANGED <<step, inits, halts>> /\ e \in left
        /\ left' = left \ {e} /\ mvfaults' \in Nat
        /\ left' \subseteq Visible \cup {Sources} /\ step' \in Steps
        /\ <<"tree", 1>> \in dirs /\ (Sources \in left => <<"tmp", 1>> \in dirs)
        /\ \A i \in Visible \cup Lasting : loc[i][1] = "tmp" => ToBeMoved(i)
        /\ \A i \in left : i # Sources => loc[i] = <<"tmp", 0>>
    BY DEF MoveBack, TreeTypeOK, Moving, Steps
  <1>1. CASE UNCHANGED <<loc, dirs>> /\ failedBack' = failedBack \cup
                 (IF e = Sources THEN Under("tmp", 1) ELSE {e})
    <2>1. failedBack' \subseteq Items
      BY <1>1, <1>0 DEF TreeTypeOK, Under
    <2>2. ASSUME NEW i \in Visible \cup Lasting, loc[i][1] = "tmp"
          PROVE  ToBeMoved(i)'
      <3>1. ToBeMoved(i) /\ i \in Items
        BY <1>0, <2>2 DEF Visible, Lasting
      <3>2. loc[i] \in Places /\ (loc[i] # <<"tmp", 0>> => loc[i][2] >= 1)
        BY <2>2, <3>1, PlaceFacts DEF TreeTypeOK
      <3> QED BY <3>1, <3>2, <1>1, <1>0, <2>2, ItemFacts DEF ToBeMoved, Under
    <2>3. LostOnlyByFailedMove'
      BY <1>1 DEF LostOnlyByFailedMove
    <2>4. Moving'
      BY <1>0, <1>1, <2>2 DEF Moving
    <2>5. TreeTypeOK' /\ Nested' /\ Twins'
      BY <1>0, <1>1, <2>1 DEF TreeTypeOK, Nested, Twins
    <2> QED BY <2>3, <2>4, <2>5
  <1>2. CASE e # Sources /\ ok
    <2>0. <<"tree", 1>> \in Places /\ <<"tree", 1>> # Gone /\ <<"tree", 1>>[1] # "tmp"
          /\ <<"tree", 1>> # <<"tmp", 0>> /\ <<"tree", 1>> # <<"tree", 0>> /\ Gone[1] # "tmp"
          /\ Gone # <<"tmp", 0>> /\ Gone # <<"tree", 0>> /\ Gone \notin Roots \X (Nat \ {0})
      BY DEF Places, Roots, Gone
    <2>1. e \in Items /\ e \in Visible /\ loc[e] = <<"tmp", 0>>
      BY <1>0, <1>2 DEF TreeTypeOK
    <2>2. MoveOne(e, "tmp", "tree", 1)
          /\ failedBack' = failedBack \cup (IF Refused(e, "tree", 1) THEN {e} ELSE {})
      BY <1>2 DEF MoveBack
    <2>3. CASE Refused(e, "tree", 1)
      BY <1>1, <1>2, <2>1, <2>2, <2>3, ItemFacts DEF MoveOne
    <2>4. CASE ~ Refused(e, "tree", 1)
      <3>1. /\ dirs' = dirs /\ loc' \in [Items -> Places] /\ loc'[e] = <<"tree", 1>>
            /\ \A i \in Items : i # e =>
                    loc'[i] = loc[i] \/ (loc'[i] = Gone /\ i[2] = e[2] /\ loc[i] = <<"tree", 1>>)
        BY <2>0, <2>1, <2>2, <2>4, OneMoved DEF Roots
      <3>2. failedBack' = failedBack
        BY <2>2, <2>4
      <3>3. ASSUME NEW i \in Items, i # e, loc'[i] # loc[i]
            PROVE  loc'[i] = Gone /\ loc[i] = <<"tree", 1>> /\ i[1] = "tmp" /\ i[2] \in Entries
        <4>1. loc'[i] = Gone /\ i[2] = e[2] /\ loc[i] = <<"tree", 1>>
          BY <3>1, <3>3
        <4>2. i[1] # e[1]
          BY <4>1, <3>3, <2>1, ItemFacts
        <4>3. i \in Visible
          BY <4>1, <2>1 DEF Visible
        <4>4. CASE i[1] = "tree"
          <5>1. e[1] = "tmp" /\ i[2] \in Entries /\ i = <<"tree", e[2]>>
            BY <4>1, <4>2, <4>3, <4>4, <2>1, ItemFacts
          <5>2. loc[i] = <<"tree", 0>>
            BY <5>1, <4>1, <2>1 DEF Twins
          <5> QED BY <5>2, <4>1, <2>0
        <4>5. CASE i[1] = "tmp"
          <5>1. e[1] = "tree" /\ e[2] \in Entries
            BY <4>2, <4>5, <2>1, ItemFacts
          <5> QED BY <5>1, <4>1, <4>5
        <4> QED BY <4>4, <4>5, <3>3, ItemFacts
      <3>4. Nested'
        <4>1. \A i \in Items : loc'[i] \in Roots \X (Nat \ {0}) => loc'[i] \in dirs'
          BY <1>0, <2>0, <3>1 DEF Nested
        <4>2. \A i \in Lasting : i \notin Visible => loc'[i] # <<"tmp", 0>>
          BY <2>0, <2>1, <3>1, ItemFacts DEF Nested
        <4> QED BY <4>1, <4>2, <3>1 DEF Nested
      <3>5. Twins'
        <4> SUFFICES ASSUME NEW i \in Items, i[1] = "tmp"
                     PROVE  /\ loc'[i] # <<"tree", 0>>
                            /\ loc'[i] = <<"tmp", 0>> /\ i[2] \in Entries => loc'[<<"tree", i[2]>>] = <<"tree", 0>>
          BY DEF Twins
        <4>1. loc'[i] # <<"tree", 0>>
          BY <2>0, <3>1 DEF Twins
        <4>2. ASSUME loc'[i] = <<"tmp", 0>>, i[2] \in Entries PROVE loc'[<<"tree", i[2]>>] = <<"tree", 0>>
          <5>1. loc[i] = <<"tmp", 0>>
            BY <4>2, <2>0, <3>1
          <5>2. loc[<<"tree", i[2]>>] = <<"tree", 0>> /\ <<"tree", i[2]>> \in Items
            BY <5>1, <4>2, ItemFacts DEF Twins
          <5>3. <<"tree", i[2]>> # e
            BY <5>2, <2>1
          <5> QED BY <5>2, <5>3, <3>3, <2>0
        <4> QED BY <4>1, <4>2
      <3>6. Moving'
        <4>1. ASSUME NEW i \in Visible \cup Lasting, loc'[i][1] = "tmp" PROVE ToBeMoved(i)'
          <5>1. i \in Items /\ i # e /\ loc'[i] = loc[i]
            BY <4>1, <3>1, <2>0 DEF Visible, Lasting
          <5> QED BY <5>1, <4>1, <1>0, <1>2, <3>2 DEF ToBeMoved
        <4>2. \A i \in left' : i # Sources => i \in Items /\ i # e
          BY <1>0 DEF Visible
        <4>3. \A i \in left' : i # Sources => loc'[i] = <<"tmp", 0>>
          BY <4>2, <1>0, <3>3, <2>0
        <4> QED BY <1>0, <3>1, <4>1, <4>3 DEF Moving
      <3>7. LostOnlyByFailedMove'
        <4> SUFFICES ASSUME NEW i \in Items, loc'[i] = Gone
                     PROVE  i \in failedBack' \/ (i[1] = "tmp" /\ i[2] \in Hidden \cup Entries)
          BY DEF LostOnlyByFailedMove
        <4>1. i # e
          BY <2>0, <3>1
        <4> QED BY <4>1, <3>2, <3>3 DEF LostOnlyByFailedMove
      <3>8. TreeTypeOK'
        BY <1>0, <3>1, <3>2 DEF TreeTypeOK
      <3> QED BY <3>4, <3>5, <3>6, <3>7, <3>8
    <2> QED BY <2>3, <2>4
  <1>3. CASE e = Sources /\ ok
    <2>0. <<"tree", 1 + 1>> \notin dirs
      BY <1>0, <1>3 DEF Nested
    <2>1. /\ loc' = [i \in Items |-> Shift(loc[i], "tmp", "tree", 1)]
          /\ dirs' = {Shift(p, "tmp", "tree", 1) : p \in dirs}
          /\ failedBack' = failedBack
      <3>1. ~ Refused(Sources, "tree", 1)
        <4>1. Sources[2] = "sources"
          BY DEF Sources
        <4> QED BY <4>1, ItemFacts DEF Refused, InTheWay
      <3> QED BY <1>3, <2>0, <3>1 DEF MoveBack, MoveOne, MoveSources
    <2>2. /\ loc' \in [Items -> Places]
          /\ dirs' \subseteq Roots \X (Nat \ {0})
          /\ \A p \in dirs' : \A k \in 1 .. p[2] : <<p[1], k>> \in dirs'
          /\ \A i \in Items : loc'[i] \in Roots \X (Nat \ {0}) => loc'[i] \in dirs'
          /\ \A p \in dirs' : p[1] # "tmp"
      BY <1>0, <2>0, <2>1, SourcesMoved DEF Roots
    <2>3. ASSUME NEW i \in Items
          PROVE  /\ loc'[i] = Gone => loc[i] = Gone
                 /\ loc'[i][1] = "tmp" => loc[i] = <<"tmp", 0>> /\ loc'[i] = loc[i]
                 /\ loc[i] = <<"tmp", 0>> => loc'[i] = <<"tmp", 0>>
                 /\ loc'[i] = <<"tree", 0>> <=> loc[i] = <<"tree", 0>>
      <3>1. loc[i] \in Places /\ loc'[i] = Shift(loc[i], "tmp", "tree", 1)
        BY <2>1 DEF TreeTypeOK
      <3>2. CASE loc[i][1] = "tmp" /\ loc[i][2] >= 1
        <4>1. loc'[i] = <<"tree", loc[i][2] + 1>>
          BY <3>1, <3>2, ShiftPlace DEF Roots
        <4>2. loc[i][2] \in Nat
          BY <3>1, PlaceFacts
        <4> QED BY <4>1, <4>2, <3>2 DEF Gone
      <3>3. CASE loc[i][1] # "tmp" \/ loc[i][2] = 0
        <4>1. loc'[i] = loc[i]
          BY <3>1, <3>3, ShiftPlace DEF Roots
        <4> QED BY <4>1, <3>1, <3>3, PlaceFacts
      <3> QED BY <3>1, <3>2, <3>3, PlaceFacts
    <2>4. ASSUME NEW i \in Visible \cup Lasting, loc'[i][1] = "tmp"
          PROVE  ToBeMoved(i)'
      <3>1. i \in Items
        BY <2>4 DEF Visible, Lasting
      <3>2. loc'[i] = <<"tmp", 0>> /\ loc[i] = <<"tmp", 0>> /\ i # Sources
        BY <3>1, <2>3, <2>4, ItemFacts
      <3>3. ToBeMoved(i)
        BY <3>2, <2>4, <1>0
      <3> QED BY <3>2, <3>3, <1>0, <1>3, <2>1 DEF ToBeMoved
    <2>5. <<"tmp", 1>> \notin dirs' /\ <<"tree", 1>> \in dirs'
      <3>1. <<"tmp", 1>> \notin dirs'
        BY <2>2
      <3>2. <<"tree", 1>> \in Places /\ Shift(<<"tree", 1>>, "tmp", "tree", 1) = <<"tree", 1>>
        BY DEF Shift, Places, Roots
      <3> QED BY <3>1, <3>2, <1>0, <2>1
    <2>6. Nested'
      <3>1. \A i \in Lasting : i \notin Visible => loc'[i] # <<"tmp", 0>>
        BY <2>3, ItemFacts DEF Nested
      <3> QED BY <2>2, <2>5, <3>1 DEF Nested
    <2>7. Twins'
      <3>1. \A n \in Entries : <<"tree", n>> \in Items
        BY ItemFacts
      <3>2. \A i \in Items : loc'[i] = <<"tmp", 0>> => loc[i] = <<"tmp", 0>>
        <4>1. <<"tmp", 0>>[1] = "tmp"
          OBVIOUS
        <4> QED BY <2>3, <4>1
      <3>3. \A i \in Items : loc'[i] = <<"tree", 0>> <=> loc[i] = <<"tree", 0>>
        BY <2>3
      <3> QED BY <3>1, <3>2, <3>3 DEF Twins
    <2>8. Moving'
      <3>1. \A i \in left' : i # Sources => i \in Items
        BY <1>0 DEF Visible
      <3>2. \A i \in left' : i # Sources => loc'[i] = <<"tmp", 0>>
        BY <3>1, <1>0, <2>3
      <3>3. Sources \notin left'
        BY <1>0, <1>3
      <3> QED BY <1>0, <2>4, <2>5, <3>2, <3>3 DEF Moving
    <2>9. LostOnlyByFailedMove' /\ TreeTypeOK'
      BY <1>0, <2>1, <2>2, <2>3 DEF LostOnlyByFailedMove, TreeTypeOK
    <2> QED BY <2>6, <2>7, <2>8, <2>9
  <1>4. CASE ~ok
    BY <1>1, <1>4 DEF MoveBack
  <1> QED BY <1>2, <1>3, <1>4

LEMMA LostMakeDirs == LostInv /\ MakeDirs => LostInv'
  <1> SUFFICES ASSUME LostInv, MakeDirs PROVE LostInv'
    OBVIOUS
  <1> USE DEF LostInv
  <1>0. /\ dirs' = dirs \cup {<<"tree", 1>>} /\ step' = "back" /\ left' = Star("tmp") /\ step = "away"
        /\ UNCHANGED <<loc, failedBack, inits, mvfaults, halts>>
    BY DEF MakeDirs
  <1>1. /\ left' \subseteq Visible \cup {Sources}
        /\ Sources \in left' <=> <<"tmp", 1>> \in dirs
        /\ \A i \in Visible : i \in left' <=> loc[i] = <<"tmp", 0>>
        /\ \A i \in left' : i # Sources => loc[i] = <<"tmp", 0>>
    BY <1>0, StarFacts DEF Roots
  <1>2. TreeTypeOK'
    BY <1>0, <1>1 DEF TreeTypeOK, Roots, Steps
  <1>3. Nested'
    <2>1. ASSUME NEW p \in dirs', NEW k \in 1 .. p[2] PROVE <<p[1], k>> \in dirs'
      <3>1. CASE p \in dirs
        BY <3>1, <1>0 DEF Nested
      <3>2. CASE p = <<"tree", 1>>
        <4>1. p[1] = "tree" /\ k = 1
          BY <3>2
        <4> QED BY <4>1, <1>0
      <3> QED BY <3>1, <3>2, <1>0
    <2> QED BY <1>0, <2>1 DEF Nested
  <1>4. ASSUME NEW i \in Visible \cup Lasting, loc[i][1] = "tmp"
        PROVE  ToBeMoved(i)'
    <2>0. i \in Items
      BY <1>4 DEF Visible, Lasting
    <2>1. CASE loc[i] = <<"tmp", 0>>
      BY <2>1, <1>0, <1>1 DEF Nested, ToBeMoved
    <2>2. CASE loc[i] # <<"tmp", 0>>
      <3>1. loc[i] \in Places /\ loc[i] = <<"tmp", loc[i][2]>> /\ loc[i][2] \in Nat \ {0}
        BY <2>0, <2>2, <1>4, PlaceFacts DEF TreeTypeOK
      <3>2. loc[i] \in dirs
        BY <2>0, <3>1, <1>4 DEF Nested, Roots
      <3>3. <<"tmp", 1>> \in dirs
        BY <3>1, <3>2 DEF Nested
      <3> QED BY <3>3, <2>2, <1>0, <1>1 DEF ToBeMoved
    <2> QED BY <2>1, <2>2
  <1>5. Moving'
    BY <1>0, <1>1, <1>4 DEF Moving
  <1> QED BY <1>0, <1>2, <1>3, <1>5 DEF LostOnlyByFailedMove, Twins

LEMMA LostMoveGit == LostInv /\ MoveGit => LostInv'
  <1> SUFFICES ASSUME LostInv, MoveGit PROVE LostInv'
    OBVIOUS
  <1> USE DEF LostInv
  <1>0. /\ step = "back" /\ left = {} /\ step' = "remove" /\ <<"tree", 1>> \in dirs
        /\ UNCHANGED <<dirs, left, failedBack, inits, mvfaults, halts>>
    BY DEF MoveGit, Moving
  <1>1. <<"tree", 1>> \in Places /\ <<"tree", 1>> # Gone /\ <<"tree", 1>>[1] # "tmp"
    BY DEF Places, Roots, Gone
  <1>2. CASE loc' = loc
    BY <1>0, <1>2 DEF TreeTypeOK, Nested, Twins, Moving, ToBeMoved, LostOnlyByFailedMove, Steps
  <1>3. CASE loc' = [loc EXCEPT ![Git] = <<"tree", 1>>]
    <2>1. \A i \in Items : loc'[i] = IF i = Git THEN <<"tree", 1>> ELSE loc[i]
      BY <1>3 DEF TreeTypeOK
    <2>2. TreeTypeOK'
      BY <1>0, <1>1, <1>3, <2>1 DEF TreeTypeOK, Steps
    <2>3. Nested'
      <3>1. \A i \in Items : loc'[i] \in Roots \X (Nat \ {0}) => loc'[i] \in dirs'
        BY <1>0, <2>1 DEF Nested
      <3>2. \A i \in Lasting : i \notin Visible => loc'[i] # <<"tmp", 0>>
        BY <2>1, ItemFacts DEF Nested
      <3> QED BY <1>0, <3>1, <3>2 DEF Nested
    <2>4. Twins'
      <3>1. Git[1] = "tree" /\ \A n \in Entries : <<"tree", n>> # Git /\ <<"tree", n>> \in Items
        BY ItemFacts DEF Git
      <3> QED BY <2>1, <3>1 DEF Twins
    <2>5. Moving'
      <3>1. Visible \cup Lasting \subseteq Items
        BY ItemFacts
      <3> QED BY <1>0, <1>1, <2>1, <3>1 DEF Moving, ToBeMoved
    <2> QED BY <1>0, <1>1, <2>1, <2>2, <2>3, <2>4, <2>5 DEF LostOnlyByFailedMove
  <1> QED BY <1>2, <1>3 DEF MoveGit

LEMMA LostRemoveTmpDir == LostInv /\ RemoveTmpDir => LostInv'
  <1> SUFFICES ASSUME LostInv, RemoveTmpDir PROVE LostInv'
    OBVIOUS
  <1> USE DEF LostInv
  <1>0. /\ step = "remove" /\ left = {} /\ step' = "idle"
        /\ UNCHANGED <<left, failedBack, inits, mvfaults, halts>>
        /\ loc' = [i \in Items |-> IF loc[i][1] = "tmp" THEN Gone ELSE loc[i]]
        /\ dirs' = {p \in dirs : p[1] # "tmp"}
        /\ \A i \in Visible \cup Lasting : loc[i][1] = "tmp" => i \in failedBack
    BY DEF RemoveTmpDir, Moving, ToBeMoved
  <1>1. Gone \in Places /\ Gone \notin Roots \X (Nat \ {0}) /\ Gone # <<"tmp", 0>> /\ Gone # <<"tree", 0>>
    BY DEF Places, Gone, Roots
  <1>2. TreeTypeOK'
    BY <1>0, <1>1 DEF TreeTypeOK, Steps
  <1>3. Nested'
    <2>1. \A p \in dirs' : \A k \in 1 .. p[2] : <<p[1], k>> \in dirs'
      BY <1>0 DEF Nested
    <2>2. ASSUME NEW i \in Items, loc'[i] \in Roots \X (Nat \ {0}) PROVE loc'[i] \in dirs'
      BY <2>2, <1>0, <1>1 DEF Nested
    <2>3. \A i \in Lasting : i \notin Visible => loc'[i] # <<"tmp", 0>>
      BY <1>0, <1>1, ItemFacts
    <2> QED BY <1>0, <1>1, <2>1, <2>2, <2>3 DEF Nested
  <1>4. Twins'
    <2>2. ASSUME NEW i \in Items, loc'[i] = <<"tmp", 0>> PROVE FALSE
      <3>1. CASE loc[i][1] = "tmp"
        BY <1>0, <1>1, <2>2, <3>1
      <3>2. CASE loc[i][1] # "tmp"
        <4>1. loc[i] = <<"tmp", 0>>
          BY <1>0, <2>2, <3>2
        <4> QED BY <4>1, <3>2
      <3> QED BY <3>1, <3>2
    <2>3. \A i \in Items : loc'[i] = <<"tree", 0>> => loc[i] = <<"tree", 0>>
      BY <1>0, <1>1
    <2> QED BY <2>2, <2>3 DEF Twins
  <1>5. LostOnlyByFailedMove'
    BY <1>0, ItemFacts DEF LostOnlyByFailedMove
  <1> QED BY <1>0, <1>2, <1>3, <1>4, <1>5 DEF Moving

LEMMA LostStep == LostInv /\ [Next]_vars => LostInv'
  <1> SUFFICES ASSUME LostInv, [Next]_vars PROVE LostInv'
    OBVIOUS
  <1>1. CASE UNCHANGED <<loc, dirs, step, left, failedBack, inits, mvfaults, halts>>
    BY <1>1 DEF LostInv, TreeTypeOK, Nested, Twins, Moving, ToBeMoved, LostOnlyByFailedMove
  <1>2. CASE RunInit
    <2>1. left' = Star("tree") /\ step' = "away" /\ inits' = inits + 1
          /\ UNCHANGED <<loc, dirs, failedBack, mvfaults, halts>>
      BY <1>2 DEF RunInit
    <2>2. left' \subseteq Visible \cup {Sources} /\ \A i \in left' : i # Sources => loc[i] = <<"tree", 0>>
      BY <2>1, StarFacts DEF LostInv, Roots
    <2> QED BY <2>1, <2>2 DEF LostInv, TreeTypeOK, Nested, Twins, Moving, LostOnlyByFailedMove, Steps
  <1>3. CASE Halt
    BY <1>3 DEF Halt, LostInv, TreeTypeOK, Nested, Twins, Moving, LostOnlyByFailedMove, Steps
  <1>4. CASE \E e \in Items \cup {Sources}, ok \in BOOLEAN : MoveAway(e, ok) \/ MoveBack(e, ok)
    BY <1>4, LostMoveAway, LostMoveBack
  <1> QED
    BY <1>1, <1>2, <1>3, <1>4, LostMakeDirs, LostMoveGit, LostRemoveTmpDir
    DEF Next, vars, treevars, TreeNext, Install, Build, Clean, PrepareTree

-----------------------------------------------------------------------------
(* Undisturbed calls: Kernel, without the directories whose name was taken *)
(* in ../tmp, is where the calls so far have put it.  The                  *)
(* first one moves its entries one by one; the later ones find everything  *)
(* in sources/, and nothing of it is at the top of ../tmp.                 *)
Kernel == {i \in {"tree"} \X (Entries \cup {".git"}) : ~ Blocked(i)}
AllAt(p) == \A i \in Kernel : loc[i] = p
Levels(root, n) == {root} \X (1 .. n)

FirstCall ==
  /\ inits = 1 /\ Sources \notin left
  /\ step = "away" => dirs = {} /\ loc[Git] = <<"tree", 0>>
       /\ \A i \in Kernel \ {Git} : loc[i] = IF i \in left THEN <<"tree", 0>> ELSE <<"tmp", 0>>
  /\ step = "back" => dirs = Levels("tree", 1) /\ loc[Git] = <<"tree", 0>>
       /\ \A i \in Kernel \ {Git} : loc[i] = IF i \in left THEN <<"tmp", 0>> ELSE <<"tree", 1>>

LaterCall ==
  LET m == inits - 1
  IN  /\ inits > 1 /\ left \cap Kernel = {}
      /\ step = "away" => IF Sources \in left
                          THEN AllAt(<<"tree", m>>) /\ dirs = Levels("tree", m)
                          ELSE AllAt(<<"tmp", m>>) /\ dirs = Levels("tmp", m)
      /\ step = "back" => IF Sources \in left
                          THEN AllAt(<<"tmp", m>>) /\ dirs = Levels("tree", 1) \cup Levels("tmp", m)
                          ELSE AllAt(<<"tree", inits>>) /\ dirs = Levels("tree", inits)

Undisturbed ==
  halts = 0 /\ mvfaults = 0 =>
    /\ step \in {"idle", "remove"} => AllAt(<<"tree", inits>>) /\ dirs = Levels("tree", inits)
    /\ step \in {"away", "back"} => FirstCall \/ LaterCall

LEMMA KernelFacts ==
  /\ \A i \in Kernel : i \in Items /\ i # Sources /\ i[1] = "tree" /\ i \in Lasting /\ ~ Blocked(i)
  /\ \A i \in Kernel \ {Git} : i \in Visible /\ i[2] \in Entries
  /\ Git \in Kernel /\ Git \notin Visible
  <1>1. \A n \in Entries \cup {".git"} : <<"tree", n>> \in Items
    BY TreeNames DEF Items
  <1>2. \A i \in {"tree"} \X (Entries \cup {".git"}) : i = <<"tree", i[2]>> /\ i[1] = "tree"
                                                 /\ i[2] \in Entries \cup {".git"}
    OBVIOUS
  <1>3. \A i \in Kernel : i \in Items /\ i[1] = "tree" /\ i \in Lasting /\ i # Sources /\ ~ Blocked(i)
    BY <1>1, <1>2, ItemFacts DEF Kernel, Lasting
  <1>4. \A i \in Kernel \ {Git} : i \in Visible /\ i[2] \in Entries
    <2> SUFFICES ASSUME NEW i \in Kernel \ {Git} PROVE i \in Visible /\ i[2] \in Entries
      OBVIOUS
    <2>1. i = <<"tree", i[2]>> /\ i[2] \in Entries \cup {".git"}
      BY <1>2 DEF Kernel
    <2>2. i[2] \in Entries
      BY <2>1 DEF Git
    <2> QED BY <2>1, <2>2, ItemFacts
  <1>5. Git \in {"tree"} \X (Entries \cup {".git"}) /\ Git[2] = ".git"
    BY DEF Git
  <1>6. ~ Blocked(Git)
    BY <1>5, TreeNames DEF Blocked
  <1> QED BY <1>3, <1>4, <1>5, <1>6, ItemFacts DEF Kernel

(* What is there at first stays known: no step makes or unmakes a          *)
(* stranger's file.                                                        *)
LEMMA KernelKept ==
  ASSUME \A i \in Items : loc'[i] = Never <=> loc[i] = Never
  PROVE  Kernel' = Kernel
  <1>1. \A n \in Others : <<"tmp", n>> \in Items
    BY DEF Items
  <1>2. \A i : Blocked(i)' <=> Blocked(i)
    BY <1>1 DEF Blocked
  <1> QED BY <1>2 DEF Kernel

LEMMA NeverShifted ==
  ASSUME NEW p \in Places, NEW root \in Roots, NEW to \in Roots, NEW by \in {0, 1}
  PROVE  Shift(p, root, to, by) = Never <=> p = Never
  BY PlaceFacts DEF Shift, Never, Roots

LEMMA KernelMoved ==
  ASSUME TreeTypeOK, NEW e \in Items \cup {Sources}, NEW root \in Roots, NEW to \in Roots,
         NEW by \in {0, 1}, MoveOne(e, root, to, by), e # Sources => loc[e] = <<root, 0>>
  PROVE  Kernel' = Kernel
  <1>0. <<root, 0>> # Never /\ <<to, by>> # Never /\ Gone # Never /\ <<to, by>> \in Places
    BY DEF Roots, Never, Gone, Places
  <1>1. CASE e # Sources
    <2>0. e \in Items /\ loc[e] = <<root, 0>>
      BY <1>1
    <2>1. \/ loc' = loc
          \/ /\ loc'[e] = <<to, by>>
             /\ \A i \in Items : i # e =>
                  loc'[i] = loc[i] \/ (loc'[i] = Gone /\ i[2] = e[2] /\ loc[i] = <<to, by>>)
      BY <1>0, <2>0, OneMoved
    <2>2. \A i \in Items : loc'[i] = Never <=> loc[i] = Never
      BY <1>0, <2>0, <2>1
    <2> QED BY <2>2, KernelKept
  <1>2. CASE e = Sources
    <2>1. UNCHANGED <<loc, dirs>> \/ loc' = [i \in Items |-> Shift(loc[i], root, to, by)]
      BY <1>2 DEF MoveOne, MoveSources
    <2>2. \A i \in Items : loc'[i] = Never <=> loc[i] = Never
      BY <2>1, NeverShifted DEF TreeTypeOK
    <2> QED BY <2>2, KernelKept
  <1> QED BY <1>1, <1>2

LEMMA UndisturbedInit == Init => Undisturbed
  <1> SUFFICES ASSUME Init PROVE Undisturbed
    OBVIOUS
  <1>1. \A i \in Items : i[1] = "tree" => loc[i] = <<"tree", 0>>
    BY DEF Init, TreeInit
  <1>2. Levels("tree", 0) = {}
    BY DEF Levels
  <1>3. dirs = {} /\ step = "idle" /\ inits = 0
    BY DEF Init, TreeInit
  <1> QED BY <1>1, <1>2, <1>3, KernelFacts DEF Undisturbed, AllAt

LEMMA LevelFacts ==
  /\ \A r, s, n, k : <<r, k>> \in Levels(s, n) <=> r = s /\ k \in 1 .. n
  /\ \A r : Levels(r, 0) = {}
  BY DEF Levels

(* The move of all of sources/ when nothing is in its way.                 *)
LEMMA LevelsMoved ==
  ASSUME NEW n \in Nat, n > 0, NEW root \in Roots, NEW to \in Roots, root # to, NEW by \in {0, 1},
         dirs = IF by = 0 THEN Levels(root, n) ELSE Levels(to, 1) \cup Levels(root, n),
         TreeTypeOK, AllAt(<<root, n>>), MoveSources(root, to, by)
  PROVE  (\A i \in Kernel : loc'[i] = <<to, n + by>>) /\ dirs' = Levels(to, n + by)
  <1>1. <<to, 1 + by>> \notin dirs
    BY LevelFacts
  <1>2. /\ loc' = [i \in Items |-> Shift(loc[i], root, to, by)]
        /\ dirs' = {Shift(p, root, to, by) : p \in dirs}
    BY <1>1 DEF MoveSources
  <1>3. \A i \in Kernel : loc'[i] = <<to, n + by>>
    BY <1>2, KernelFacts DEF AllAt, Shift
  <1>4. \A k \in 1 .. n : Shift(<<root, k>>, root, to, by) = <<to, k + by>>
    BY DEF Shift
  <1>5. Shift(<<to, 1>>, root, to, by) = <<to, 1>>
    BY DEF Shift
  <1>6. ASSUME NEW q \in dirs' PROVE q \in Levels(to, n + by)
    <2>1. PICK p \in dirs : q = Shift(p, root, to, by)
      BY <1>2
    <2>2. CASE p \in Levels(root, n)
      <3>1. PICK k \in 1 .. n : p = <<root, k>>
        BY <2>2 DEF Levels
      <3>2. q = <<to, k + by>> /\ k + by \in 1 .. n + by
        BY <3>1, <2>1, <1>4
      <3> QED BY <3>2, LevelFacts
    <2>3. CASE p \in Levels(to, 1) /\ by = 1
      <3>1. p = <<to, 1>>
        BY <2>3 DEF Levels
      <3>2. q = <<to, 1>> /\ 1 \in 1 .. n + by
        BY <3>1, <2>1, <1>5
      <3> QED BY <3>2, LevelFacts
    <2> QED BY <2>2, <2>3
  <1>7. ASSUME NEW q \in Levels(to, n + by) PROVE q \in dirs'
    <2>1. PICK k \in 1 .. n + by : q = <<to, k>>
      BY DEF Levels
    <2>2. CASE k - by \in 1 .. n
      <3>1. <<root, k - by>> \in dirs
        BY <2>2, LevelFacts
      <3>2. Shift(<<root, k - by>>, root, to, by) = <<to, k>>
        BY <2>2, <1>4
      <3> QED BY <2>1, <3>1, <3>2, <1>2
    <2>3. CASE k - by \notin 1 .. n
      <3>1. by = 1 /\ k = 1
        BY <2>3
      <3>2. <<to, 1>> \in dirs
        BY <3>1, LevelFacts
      <3> QED BY <2>1, <3>1, <3>2, <1>2, <1>5
    <2> QED BY <2>2, <2>3
  <1> QED BY <1>3, <1>6, <1>7

LEMMA UndisturbedRunInit == LostInv /\ Undisturbed /\ RunInit => Undisturbed'
  <1> SUFFICES ASSUME LostInv, Undisturbed, RunInit, halts = 0, mvfaults = 0 PROVE Undisturbed'
    BY DEF Undisturbed, RunInit
  <1>1. /\ step = "idle" /\ step' = "away" /\ inits' = inits + 1 /\ left' = Star("tree")
        /\ UNCHANGED <<loc, dirs, halts, mvfaults>>
    BY DEF RunInit
  <1>0. Kernel' = Kernel
    BY <1>1, KernelKept
  <1>2. AllAt(<<"tree", inits>>) /\ dirs = Levels("tree", inits) /\ inits \in Nat
    BY <1>1 DEF Undisturbed, LostInv, TreeTypeOK
  <1>3. /\ Sources \in left' <=> <<"tree", 1>> \in dirs
        /\ \A i \in Kernel \ {Git} : i \in left' <=> loc[i] = <<"tree", 0>>
        /\ Git \notin left'
    <2>1. TreeTypeOK /\ "tree" \in Roots
      BY DEF LostInv, Roots
    <2> HIDE DEF Undisturbed
    <2> QED BY <1>1, <2>1, StarFacts, KernelFacts, ItemFacts
  <1>4. CASE inits = 0
    <2>1. dirs = {} /\ Sources \notin left'
      BY <1>2, <1>3, <1>4, LevelFacts
    <2>2. FirstCall'
      BY <1>0, <1>1, <1>2, <1>3, <1>4, <2>1, KernelFacts DEF FirstCall, AllAt
    <2> QED BY <1>1, <2>2 DEF Undisturbed
  <1>5. CASE inits > 0
    <2>1. Sources \in left'
      BY <1>2, <1>3, <1>5, LevelFacts
    <2>2. left' \cap Kernel = {}
      <3>1. \A i \in Kernel : loc[i] # <<"tree", 0>>
        BY <1>2, <1>5 DEF AllAt
      <3> QED BY <3>1, <1>3, KernelFacts
    <2>3. inits' - 1 = inits
      BY <1>1, <1>2
    <2>4. LaterCall'
      BY <1>0, <1>1, <1>2, <1>5, <2>1, <2>2, <2>3 DEF LaterCall, AllAt
    <2> QED BY <1>1, <2>4 DEF Undisturbed
  <1> QED BY <1>2, <1>4, <1>5

LEMMA UndisturbedMoveAway ==
  ASSUME LostInv, Undisturbed, NEW e \in Items \cup {Sources}, NEW ok \in BOOLEAN, MoveAway(e, ok),
         halts' = 0, mvfaults' = 0
  PROVE  Undisturbed'
  <1>1. /\ step = "away" /\ e \in left /\ left' = left \ {e} /\ ok
        /\ MoveOne(e, "tree", "tmp", 0)
        /\ UNCHANGED <<step, inits, halts, mvfaults>>
    BY DEF MoveAway, LostInv, TreeTypeOK
  <1>0. /\ Kernel' = Kernel /\ TreeTypeOK /\ (e # Sources => loc[e] = <<"tree", 0>>)
        /\ e # Sources => e \in Visible
    <2>1. TreeTypeOK /\ (e # Sources => loc[e] = <<"tree", 0>>) /\ (e # Sources => e \in Visible)
      BY <1>1 DEF LostInv, Moving, TreeTypeOK
    <2> QED BY <1>1, <2>1, KernelMoved DEF Roots
  <1>2. FirstCall \/ LaterCall
    BY <1>1 DEF Undisturbed
  <1>6. ASSUME e # Sources
        PROVE  /\ dirs' = dirs
               /\ \A i \in Kernel : loc'[i] = IF i = e THEN <<"tmp", 0>> ELSE loc[i]
               /\ e # Git
    <2>1. e \in Items /\ e \in Visible /\ loc[e] = <<"tree", 0>> /\ <<"tmp", 0>> \in Places
      BY <1>0, <1>6 DEF Visible, Places, Roots
    <2>2. /\ dirs' = dirs
          /\ \/ loc' = loc /\ Refused(e, "tmp", 0)
             \/ /\ ~ Refused(e, "tmp", 0) /\ loc'[e] = <<"tmp", 0>>
                /\ \A i \in Items : i # e =>
                     loc'[i] = loc[i] \/ (loc'[i] = Gone /\ i[2] = e[2] /\ loc[i] = <<"tmp", 0>>)
      BY <1>0, <1>1, <2>1, OneMoved DEF Roots
    <2>3. ASSUME NEW i \in Kernel, i = e PROVE loc'[i] = <<"tmp", 0>>
      <3>1. i \in Visible /\ i # Git /\ i[1] = "tree" /\ i[2] \in Entries /\ ~ Blocked(i)
        BY <2>1, <2>3, KernelFacts
      <3>2. ~ Refused(e, "tmp", 0)
        <4> SUFFICES ASSUME e[2] \in Folders, NEW j \in Items, j # e, j[2] = e[2], loc[j] = <<"tmp", 0>>
                     PROVE  FALSE
          BY DEF Refused, InTheWay
        <4>1. j[1] = "tmp" /\ j = <<"tmp", e[2]>> /\ j[2] \in Others
          BY <3>1, <2>1, <2>3, ItemFacts DEF Items
        <4>2. loc[j] # Never
          BY DEF Never
        <4> QED BY <4>1, <4>2, <3>1, <2>3 DEF Blocked
      <3> QED BY <3>2, <2>2, <2>3
    <2>4. ASSUME NEW i \in Kernel, i # e PROVE loc'[i] = loc[i]
      <3>1. i \in Items /\ i[1] = "tree"
        BY KernelFacts
      <3>2. SUFFICES ASSUME i[2] = e[2], loc[i] = <<"tmp", 0>> PROVE FALSE
        BY <3>1, <2>2, <2>4
      <3>3. e[1] = "tmp" /\ i \in Visible
        BY <3>1, <3>2, <2>1, <2>4, ItemFacts DEF Visible
      <3>4. i[2] \in Entries /\ i = <<"tree", e[2]>>
        BY <3>1, <3>2, <3>3, ItemFacts
      <3>5. loc[e] # <<"tree", 0>> /\ (loc[e] = <<"tmp", 0>> => loc[i] = <<"tree", 0>>)
        BY <2>1, <3>2, <3>3, <3>4 DEF LostInv, Twins
      <3> QED BY <3>2, <3>5, <2>1
    <2>5. e # Git
      BY <2>1, ItemFacts
    <2> QED BY <2>2, <2>3, <2>4, <2>5
  <1>3. CASE FirstCall
    <2>1. e # Sources
      BY <1>1, <1>3 DEF FirstCall
    <2>2. FirstCall'
      BY <1>0, <1>1, <1>3, <1>6, <2>1, KernelFacts DEF FirstCall
    <2> QED BY <1>1, <2>2 DEF Undisturbed
  <1>4. CASE LaterCall /\ e # Sources
    <2>1. e \notin Kernel
      BY <1>1, <1>4 DEF LaterCall
    <2>2. \A i \in Kernel : loc'[i] = loc[i]
      BY <1>6, <1>4, <2>1
    <2>3. LaterCall'
      BY <1>0, <1>1, <1>4, <1>6, <2>2 DEF LaterCall, AllAt
    <2> QED BY <1>1, <2>3 DEF Undisturbed
  <1>5. CASE LaterCall /\ e = Sources
    <2>1. /\ AllAt(<<"tree", inits - 1>>) /\ dirs = Levels("tree", inits - 1) /\ inits > 1 /\ inits \in Nat
          /\ MoveSources("tree", "tmp", 0) /\ TreeTypeOK
      BY <1>1, <1>5 DEF MoveOne, LaterCall, LostInv, TreeTypeOK
    <2>2. (\A i \in Kernel : loc'[i] = <<"tmp", inits - 1>>) /\ dirs' = Levels("tmp", inits - 1)
      <3>1. inits - 1 \in Nat /\ inits - 1 > 0 /\ "tree" \in Roots /\ "tmp" \in Roots
        BY <2>1 DEF Roots
      <3>2. \A n \in Nat : n > 0 /\ dirs = Levels("tree", n) /\ AllAt(<<"tree", n>>)
                 => (\A i \in Kernel : loc'[i] = <<"tmp", n + 0>>) /\ dirs' = Levels("tmp", n + 0)
        <4> TAKE n \in Nat
        <4> HAVE n > 0 /\ dirs = Levels("tree", n) /\ AllAt(<<"tree", n>>)
        <4> QED BY <2>1, <3>1, LevelsMoved
      <3>3. inits - 1 + 0 = inits - 1
        BY <2>1
      <3> QED BY <2>1, <3>1, <3>2, <3>3
    <2>3. inits' = inits /\ Sources \notin left'
      BY <1>1, <1>5
    <2>4. LaterCall'
      BY <1>0, <1>1, <1>5, <2>2, <2>3 DEF LaterCall, AllAt
    <2> QED BY <1>1, <2>4 DEF Undisturbed
  <1> QED BY <1>2, <1>3, <1>4, <1>5

LEMMA UndisturbedMakeDirs == LostInv /\ Undisturbed /\ MakeDirs => Undisturbed'
  <1> SUFFICES ASSUME LostInv, Undisturbed, MakeDirs, halts = 0, mvfaults = 0 PROVE Undisturbed'
    BY DEF Undisturbed, MakeDirs
  <1>1. /\ step = "away" /\ left = {} /\ step' = "back" /\ left' = Star("tmp")
        /\ dirs' = dirs \cup Levels("tree", 1)
        /\ UNCHANGED <<loc, inits, halts, mvfaults>>
    BY DEF MakeDirs, Levels
  <1>0. Kernel' = Kernel
    BY <1>1, KernelKept
  <1>2. FirstCall \/ LaterCall
    BY <1>1 DEF Undisturbed
  <1>3. /\ Sources \in left' <=> <<"tmp", 1>> \in dirs
        /\ \A i \in Kernel \ {Git} : i \in left' <=> loc[i] = <<"tmp", 0>>
        /\ Git \notin left'
    <2>1. TreeTypeOK /\ "tmp" \in Roots
      BY DEF LostInv, Roots
    <2> QED BY <1>1, <2>1, StarFacts, KernelFacts, ItemFacts
  <1>4. CASE FirstCall
    <2>1. /\ dirs = {} /\ Sources \notin left' /\ loc[Git] = <<"tree", 0>>
          /\ \A i \in Kernel \ {Git} : loc[i] = <<"tmp", 0>>
      BY <1>1, <1>3, <1>4 DEF FirstCall
    <2>2. FirstCall'
      BY <1>0, <1>1, <1>3, <1>4, <2>1, KernelFacts DEF FirstCall
    <2> QED BY <1>1, <2>2 DEF Undisturbed
  <1>5. CASE LaterCall
    <2>1. /\ AllAt(<<"tmp", inits - 1>>) /\ dirs = Levels("tmp", inits - 1) /\ inits > 1 /\ inits \in Nat
      BY <1>1, <1>5 DEF LaterCall, LostInv, TreeTypeOK
    <2>2. Sources \in left'
      BY <2>1, <1>3, LevelFacts
    <2>3. left' \cap Kernel = {}
      <3>1. \A i \in Kernel : loc[i] # <<"tmp", 0>>
        BY <2>1 DEF AllAt
      <3> QED BY <3>1, <1>3, KernelFacts
    <2>4. LaterCall'
      BY <1>0, <1>1, <2>1, <2>2, <2>3 DEF LaterCall, AllAt
    <2> QED BY <1>1, <2>4 DEF Undisturbed
  <1> QED BY <1>2, <1>4, <1>5

LEMMA UndisturbedMoveBack ==
  ASSUME LostInv, Undisturbed, NEW e \in Items \cup {Sources}, NEW ok \in BOOLEAN, MoveBack(e, ok),
         halts' = 0, mvfaults' = 0
  PROVE  Undisturbed'
  <1>1. /\ step = "back" /\ e \in left /\ left' = left \ {e} /\ ok
        /\ MoveOne(e, "tmp", "tree", 1)
        /\ UNCHANGED <<step, inits, halts, mvfaults>>
    BY DEF MoveBack, LostInv, TreeTypeOK
  <1>0. /\ Kernel' = Kernel /\ TreeTypeOK /\ (e # Sources => loc[e] = <<"tmp", 0>>)
        /\ e # Sources => e \in Visible
    <2>1. TreeTypeOK /\ (e # Sources => loc[e] = <<"tmp", 0>>) /\ (e # Sources => e \in Visible)
      BY <1>1 DEF LostInv, Moving, TreeTypeOK
    <2> QED BY <1>1, <2>1, KernelMoved DEF Roots
  <1>2. FirstCall \/ LaterCall
    BY <1>1 DEF Undisturbed
  <1>6. ASSUME e # Sources
        PROVE  /\ dirs' = dirs
               /\ \A i \in Kernel : loc'[i] = IF i = e THEN <<"tree", 1>> ELSE loc[i]
               /\ e # Git
    <2>1. e \in Items /\ e \in Visible /\ loc[e] = <<"tmp", 0>> /\ <<"tree", 1>> \in Places
      BY <1>0, <1>6 DEF Visible, Places, Roots
    <2>2. /\ dirs' = dirs
          /\ \/ loc' = loc /\ Refused(e, "tree", 1)
             \/ /\ ~ Refused(e, "tree", 1) /\ loc'[e] = <<"tree", 1>>
                /\ \A i \in Items : i # e =>
                     loc'[i] = loc[i] \/ (loc'[i] = Gone /\ i[2] = e[2] /\ loc[i] = <<"tree", 1>>)
      BY <1>0, <1>1, <2>1, OneMoved DEF Roots
    <2>3. ASSUME NEW i \in Kernel, i = e PROVE loc'[i] = <<"tree", 1>>
      <3>1. i \in Visible /\ i # Git /\ i[1] = "tree" /\ i[2] \in Entries /\ ~ Blocked(i)
        BY <2>1, <2>3, KernelFacts
      <3>2. ~ Refused(e, "tree", 1)
        <4> SUFFICES ASSUME e[2] \in Folders, NEW j \in Items, j # e, j[2] = e[2], loc[j] = <<"tree", 1>>
                     PROVE  FALSE
          BY DEF Refused, InTheWay
        <4>1. j[1] = "tmp" /\ j = <<"tmp", e[2]>> /\ j[2] \in Others
          BY <3>1, <2>1, <2>3, ItemFacts DEF Items
        <4>2. loc[j] # Never
          BY DEF Never
        <4> QED BY <4>1, <4>2, <3>1, <2>3 DEF Blocked
      <3> QED BY <3>2, <2>2, <2>3
    <2>4. ASSUME NEW i \in Kernel, i # e PROVE loc'[i] = loc[i]
      <3>1. i \in Items /\ i[1] = "tree"
        BY KernelFacts
      <3>2. SUFFICES ASSUME i[2] = e[2], loc[i] = <<"tree", 1>> PROVE FALSE
        BY <3>1, <2>2, <2>4
      <3>3. e[1] = "tmp" /\ i \in Visible
        BY <3>1, <3>2, <2>1, <2>4, ItemFacts DEF Visible
      <3>4. i[2] \in Entries /\ i = <<"tree", e[2]>>
        BY <3>1, <3>2, <3>3, ItemFacts
      <3>5. loc[e] # <<"tree", 0>> /\ (loc[e] = <<"tmp", 0>> => loc[i] = <<"tree", 0>>)
        BY <2>1, <3>2, <3>3, <3>4 DEF LostInv, Twins
      <3> QED BY <3>2, <3>5, <2>1
    <2>5. e # Git
      BY <2>1, ItemFacts
    <2> QED BY <2>2, <2>3, <2>4, <2>5
  <1>3. CASE FirstCall
    <2>1. e # Sources
      BY <1>1, <1>3 DEF FirstCall
    <2>2. FirstCall'
      BY <1>0, <1>1, <1>3, <1>6, <2>1, KernelFacts DEF FirstCall
    <2> QED BY <1>1, <2>2 DEF Undisturbed
  <1>4. CASE LaterCall /\ e # Sources
    <2>1. e \notin Kernel
      BY <1>1, <1>4 DEF LaterCall
    <2>2. \A i \in Kernel : loc'[i] = loc[i]
      BY <1>6, <1>4, <2>1
    <2>3. LaterCall'
      BY <1>0, <1>1, <1>4, <1>6, <2>2 DEF LaterCall, AllAt
    <2> QED BY <1>1, <2>3 DEF Undisturbed
  <1>5. CASE LaterCall /\ e = Sources
    <2>1. /\ AllAt(<<"tmp", inits - 1>>) /\ dirs = Levels("tree", 1) \cup Levels("tmp", inits - 1)
          /\ inits > 1 /\ inits \in Nat /\ MoveSources("tmp", "tree", 1) /\ TreeTypeOK
      BY <1>1, <1>5 DEF MoveOne, LaterCall, LostInv, TreeTypeOK
    <2>2. (\A i \in Kernel : loc'[i] = <<"tree", inits>>) /\ dirs' = Levels("tree", inits)
      <3>1. inits - 1 \in Nat /\ inits - 1 > 0 /\ "tree" \in Roots /\ "tmp" \in Roots
        BY <2>1 DEF Roots
      <3>2. \A n \in Nat : n > 0 /\ dirs = Levels("tree", 1) \cup Levels("tmp", n) /\ AllAt(<<"tmp", n>>)
                 => (\A i \in Kernel : loc'[i] = <<"tree", n + 1>>) /\ dirs' = Levels("tree", n + 1)
        <4> TAKE n \in Nat
        <4> HAVE n > 0 /\ dirs = Levels("tree", 1) \cup Levels("tmp", n) /\ AllAt(<<"tmp", n>>)
        <4>0. dirs = IF 1 = 0 THEN Levels("tmp", n) ELSE Levels("tree", 1) \cup Levels("tmp", n)
          OBVIOUS
        <4>1. (\A i \in Kernel : loc'[i] = <<"tree", n + 1>>) /\ dirs' = Levels("tree", n + 1)
          <5>1. 1 \in {0, 1} /\ "tmp" # "tree" /\ MoveSources("tmp", "tree", 1) /\ TreeTypeOK
            BY <2>1
          <5> HIDE DEF MoveSources
          <5> QED BY <5>1, <4>0, <3>1, LevelsMoved, Zenon
        <4> QED BY <4>1
      <3>3. inits - 1 + 1 = inits
        BY <2>1
      <3> QED BY <2>1, <3>1, <3>2, <3>3
    <2>3. inits' = inits /\ Sources \notin left'
      BY <1>1, <1>5
    <2>4. LaterCall'
      BY <1>0, <1>1, <1>5, <2>2, <2>3 DEF LaterCall, AllAt
    <2> QED BY <1>1, <2>4 DEF Undisturbed
  <1> QED BY <1>2, <1>3, <1>4, <1>5

LEMMA UndisturbedMoveGit == LostInv /\ Undisturbed /\ MoveGit => Undisturbed'
  <1> SUFFICES ASSUME LostInv, Undisturbed, MoveGit, halts = 0, mvfaults = 0 PROVE Undisturbed'
    BY DEF Undisturbed, MoveGit
  <1>1. /\ step = "back" /\ left = {} /\ step' = "remove"
        /\ loc' = IF loc[Git] = <<"tree", 0>> THEN [loc EXCEPT ![Git] = <<"tree", 1>>] ELSE loc
        /\ UNCHANGED <<dirs, inits, halts, mvfaults>> /\ DOMAIN loc = Items
    BY DEF MoveGit, LostInv, TreeTypeOK
  <1>0. Kernel' = Kernel
    <2>1. \A i \in Items : loc'[i] = Never <=> loc[i] = Never
      BY <1>1 DEF Never
    <2> QED BY <2>1, KernelKept
  <1>2. FirstCall \/ LaterCall
    BY <1>1 DEF Undisturbed
  <1>3. CASE FirstCall
    BY <1>0, <1>1, <1>3, KernelFacts DEF FirstCall, Undisturbed, AllAt
  <1>4. CASE LaterCall
    <2>1. AllAt(<<"tree", inits>>) /\ dirs = Levels("tree", inits) /\ inits > 1
      BY <1>1, <1>4 DEF LaterCall
    <2>2. loc' = loc
      BY <1>1, <2>1, KernelFacts DEF AllAt
    <2> QED BY <1>0, <1>1, <2>1, <2>2 DEF Undisturbed, AllAt
  <1> QED BY <1>2, <1>3, <1>4

LEMMA UndisturbedRemoveTmpDir == LostInv /\ Undisturbed /\ RemoveTmpDir => Undisturbed'
  <1> SUFFICES ASSUME LostInv, Undisturbed, RemoveTmpDir, halts = 0, mvfaults = 0 PROVE Undisturbed'
    BY DEF Undisturbed, RemoveTmpDir
  <1>1. /\ step' = "idle" /\ UNCHANGED <<inits, halts, mvfaults>>
        /\ loc' = [i \in Items |-> IF loc[i][1] = "tmp" THEN Gone ELSE loc[i]]
        /\ dirs' = {p \in dirs : p[1] # "tmp"}
        /\ AllAt(<<"tree", inits>>) /\ dirs = Levels("tree", inits)
    BY DEF RemoveTmpDir, Undisturbed
  <1>0. Kernel' = Kernel
    <2>1. \A i \in Items : loc'[i] = Never <=> loc[i] = Never
      BY <1>1 DEF Never, Gone
    <2> QED BY <2>1, KernelKept
  <1>2. AllAt(<<"tree", inits>>)'
    BY <1>0, <1>1, KernelFacts DEF AllAt
  <1>3. dirs' = dirs
    BY <1>1 DEF Levels
  <1> QED BY <1>1, <1>2, <1>3 DEF Undisturbed

LEMMA UndisturbedStep == LostInv /\ Undisturbed /\ [Next]_vars => Undisturbed'
  <1> SUFFICES ASSUME LostInv, Undisturbed, [Next]_vars PROVE Undisturbed'
    OBVIOUS
  <1>1. CASE UNCHANGED <<loc, dirs, step, left, inits, mvfaults, halts>>
    <2>1. Kernel' = Kernel
      BY <1>1, KernelKept
    <2> QED BY <1>1, <2>1 DEF Undisturbed, FirstCall, LaterCall, AllAt
  <1>2. CASE Halt
    BY <1>2 DEF Halt, Undisturbed, LostInv, TreeTypeOK
  <1>3. CASE \E e \in Items \cup {Sources}, ok \in BOOLEAN : MoveAway(e, ok) \/ MoveBack(e, ok)
    <2>1. CASE halts' = 0 /\ mvfaults' = 0
      BY <1>3, <2>1, UndisturbedMoveAway, UndisturbedMoveBack
    <2>2. CASE ~ (halts' = 0 /\ mvfaults' = 0)
      BY <2>2 DEF Undisturbed
    <2> QED BY <2>1, <2>2
  <1> QED
    BY <1>1, <1>2, <1>3, UndisturbedRunInit, UndisturbedMakeDirs, UndisturbedMoveGit, UndisturbedRemoveTmpDir
    DEF Next, vars, treevars, TreeNext, Install, Build, Clean, PrepareTree

(* akb_init keeps the user's sources (init.sh:5-14): for any kernel tree,  *)
(* whatever somebody else has in ../tmp, and for any number of calls,      *)
(* interruptions and failed moves, what is lost of the tree is what a      *)
(* failed move back has left in ../tmp (of the stranger's besides only     *)
(* hidden files and files with a name of the tree's), and undisturbed      *)
(* calls keep the kernel and its .git in one directory, except for         *)
(* directories whose name is taken in ../tmp.                              *)
THEOREM TreeIsKept == Spec => []TreeKept
  <1>1. Init => LostInv /\ Undisturbed
    BY LostInit, UndisturbedInit
  <1>2. LostInv /\ Undisturbed /\ [Next]_vars => (LostInv /\ Undisturbed)'
    BY LostStep, UndisturbedStep
  <1>3. LostInv /\ Undisturbed => TreeKept
    BY DEF LostInv, Undisturbed, TreeKept, KeptTogether, AllAt, Kernel
  <1> QED BY <1>1, <1>2, <1>3, PTL DEF Spec

-----------------------------------------------------------------------------
(***************************************************************************)
(* The makefile.  What make still has to do is a list of whole recipes,    *)
(* the first of which may have begun; so the list says at every step what  *)
(* has been done before.                                                   *)
(***************************************************************************)
Ops == [do : {"prepare", "gen_cc", "gen", "make", "pack", "remove"}, arch : Archives]

Follows(x, y) ==
  /\ x.do = "prepare" => y.do = "gen_cc" /\ y.arch = "akb"
  /\ x.do = "gen_cc" => y.do = "gen"
  /\ x.do = "gen" => y.do = "make" /\ y.arch = x.arch
  /\ x.do = "make" => y.do = "pack" /\ y.arch = x.arch
  /\ x.do = "pack" => y.do = "remove" /\ y.arch = x.arch
  /\ x.do = "remove" => y.do = "gen" /\ (x.arch # "akb" => y.arch = "deb")

Linked(s) ==
  /\ s \in Seq(Ops)
  /\ \A i \in 1 .. Len(s) - 1 : Follows(s[i], s[i + 1])

Planned(s) == Linked(s) /\ (s # <<>> => s[Len(s)].do = "remove")

LEMMA LinkedConcat ==
  ASSUME NEW s, NEW t, Linked(s), Linked(t), Len(s) > 0, Len(t) > 0, Follows(s[Len(s)], t[1])
  PROVE  /\ Linked(s \o t) /\ Len(s \o t) = Len(s) + Len(t)
         /\ (s \o t)[1] = s[1] /\ (s \o t)[Len(s \o t)] = t[Len(t)]
  <1>1. /\ s \in Seq(Ops) /\ t \in Seq(Ops) /\ Len(s) \in Nat /\ Len(t) \in Nat
        /\ s \o t \in Seq(Ops) /\ Len(s \o t) = Len(s) + Len(t)
    BY DEF Linked
  <1>2. \A i \in 1 .. Len(s) + Len(t) : (s \o t)[i] = IF i <= Len(s) THEN s[i] ELSE t[i - Len(s)]
    BY <1>1
  <1>3. ASSUME NEW i \in 1 .. Len(s) + Len(t) - 1
        PROVE  Follows((s \o t)[i], (s \o t)[i + 1])
    <2>1. CASE i < Len(s)
      BY <2>1, <1>1, <1>2 DEF Linked
    <2>2. CASE i = Len(s)
      <3>1. (s \o t)[i] = s[Len(s)] /\ (s \o t)[i + 1] = t[1]
        BY <2>2, <1>1, <1>2
      <3> QED BY <3>1
    <2>3. CASE i > Len(s)
      <3>1. i - Len(s) \in 1 .. Len(t) - 1 /\ i + 1 - Len(s) = i - Len(s) + 1
        BY <2>3, <1>1
      <3>2. (s \o t)[i] = t[i - Len(s)] /\ (s \o t)[i + 1] = t[i - Len(s) + 1]
        BY <3>1, <2>3, <1>1, <1>2
      <3> QED BY <3>1, <3>2 DEF Linked
    <2> QED BY <2>1, <2>2, <2>3, <1>1
  <1> QED BY <1>1, <1>2, <1>3 DEF Linked

LEMMA RecipeLinked ==
  ASSUME NEW a \in Archives
  PROVE  /\ Linked(Recipe(a)) /\ Len(Recipe(a)) = 4
         /\ Recipe(a)[1].do = "gen" /\ Recipe(a)[1].arch = a
         /\ Recipe(a)[Len(Recipe(a))].do = "remove" /\ Recipe(a)[Len(Recipe(a))].arch = a
  <1>1. /\ Recipe(a) \in Seq(Ops) /\ Len(Recipe(a)) = 4
        /\ Recipe(a)[1] = [do |-> "gen", arch |-> a] /\ Recipe(a)[2] = [do |-> "make", arch |-> a]
        /\ Recipe(a)[3] = [do |-> "pack", arch |-> a] /\ Recipe(a)[4] = [do |-> "remove", arch |-> a]
    BY DEF Recipe, Ops
  <1>2. \A i \in 1 .. 3 : Follows(Recipe(a)[i], Recipe(a)[i + 1])
    <2>1. Follows(Recipe(a)[1], Recipe(a)[2]) /\ Follows(Recipe(a)[2], Recipe(a)[3])
          /\ Follows(Recipe(a)[3], Recipe(a)[4])
      BY <1>1 DEF Follows
    <2>2. \A i \in 1 .. 3 : i = 1 \/ i = 2 \/ i = 3
      OBVIOUS
    <2> QED BY <2>1, <2>2
  <1> QED BY <1>1, <1>2 DEF Linked

(* A list that begins a make, and ends with the given call.                *)
Begun(s, do, arch) ==
  Linked(s) /\ Len(s) > 0 /\ s[1].do = "prepare" /\ s[Len(s)].do = do /\ s[Len(s)].arch = arch

LEMMA BegunRecipe ==
  ASSUME NEW s, NEW do, NEW arch, NEW a \in Archives, Begun(s, do, arch),
         do = "gen_cc" \/ (do = "remove" /\ (arch # "akb" => a = "deb"))
  PROVE  Begun(s \o Recipe(a), "remove", a)
  <1>1. Follows(s[Len(s)], Recipe(a)[1])
    BY RecipeLinked DEF Begun, Follows
  <1>2. Linked(s) /\ Len(s) > 0 /\ Len(s) \in Nat /\ Len(Recipe(a)) > 0 /\ Linked(Recipe(a))
    BY RecipeLinked DEF Begun, Linked
  <1>3. /\ Linked(s \o Recipe(a)) /\ Len(s \o Recipe(a)) = Len(s) + Len(Recipe(a))
        /\ (s \o Recipe(a))[1] = s[1]
        /\ (s \o Recipe(a))[Len(s \o Recipe(a))] = Recipe(a)[Len(Recipe(a))]
    BY <1>1, <1>2, LinkedConcat, Zenon
  <1>4. Len(s \o Recipe(a)) > 0
    BY <1>2, <1>3, RecipeLinked
  <1> QED BY <1>3, <1>4, RecipeLinked, Zenon DEF Begun

LEMMA BegunPlanned ==
  ASSUME NEW s, NEW arch, Begun(s, "remove", arch)
  PROVE  Planned(s) /\ s # <<>> /\ Head(s).do = "prepare"
  BY DEF Begun, Planned, Linked

LEMMA RulesPlanned ==
  ASSUME NEW target \in Archives \cup {"all"}
  PROVE  Planned(Rules(target)) /\ Rules(target) # <<>> /\ Head(Rules(target)).do = "prepare"
  <1>1. Begun(Prepare, "gen_cc", "akb")
    <2>1. /\ Prepare \in Seq(Ops) /\ Len(Prepare) = 2
          /\ Prepare[1] = [do |-> "prepare", arch |-> "akb"] /\ Prepare[2] = [do |-> "gen_cc", arch |-> "akb"]
      BY DEF Prepare, Ops, Archives
    <2>2. Follows(Prepare[1], Prepare[2])
      BY <2>1 DEF Follows
    <2> QED BY <2>1, <2>2 DEF Linked, Begun
  <1>2. CASE target \in Archives
    <2>1. Rules(target) = Prepare \o Recipe(target)
      BY <1>2 DEF Rules, Archives
    <2>2. Begun(Prepare \o Recipe(target), "remove", target)
      BY <1>1, <1>2, BegunRecipe, Zenon
    <2> QED BY <2>1, <2>2, BegunPlanned, Zenon
  <1>3. CASE target = "all"
    <2>1. Rules(target) = ((Prepare \o Recipe("akb")) \o Recipe("installer")) \o Recipe("deb")
      BY <1>3 DEF Rules, Archives
    <2>2. "akb" \in Archives /\ "installer" \in Archives /\ "deb" \in Archives
      BY DEF Archives
    <2>3. Begun(Prepare \o Recipe("akb"), "remove", "akb")
      BY <1>1, <2>2, BegunRecipe, Zenon
    <2>4. Begun((Prepare \o Recipe("akb")) \o Recipe("installer"), "remove", "installer")
      BY <2>2, <2>3, BegunRecipe, Zenon
    <2>5. Begun(((Prepare \o Recipe("akb")) \o Recipe("installer")) \o Recipe("deb"), "remove", "deb")
      BY <2>2, <2>4, BegunRecipe, Zenon
    <2> QED BY <2>1, <2>5, BegunPlanned, Zenon
  <1> QED BY <1>2, <1>3

(* What is left of the list after a step that takes the first k - 1 off.   *)
LEMMA PlannedRest ==
  ASSUME NEW s, Planned(s), NEW k \in Nat, k > 0
  PROVE  Planned(SubSeq(s, k, Len(s)))
  <1>0. s \in Seq(Ops) /\ Len(s) \in Nat
    BY DEF Planned, Linked
  <1>1. CASE k > Len(s)
    BY <1>0, <1>1 DEF Planned, Linked
  <1>2. CASE k <= Len(s)
    <2> DEFINE t == SubSeq(s, k, Len(s))
    <2>1. t \in Seq(Ops) /\ Len(t) = Len(s) - k + 1 /\ \A i \in 1 .. Len(s) - k + 1 : t[i] = s[k + i - 1]
      BY <1>0, <1>2
    <2>2. ASSUME NEW i \in 1 .. Len(s) - k PROVE Follows(t[i], t[i + 1])
      <3>1. t[i] = s[k + i - 1] /\ t[i + 1] = s[(k + i - 1) + 1] /\ k + i - 1 \in 1 .. Len(s) - 1
        BY <1>0, <2>1
      <3> HIDE DEF t
      <3> QED BY <3>1 DEF Planned, Linked
    <2>3. t[Len(t)] = s[Len(s)]
      BY <1>0, <1>2, <2>1
    <2> HIDE DEF t
    <2>4. Planned(t)
      BY <1>0, <1>2, <2>1, <2>2, <2>3 DEF Planned, Linked
    <2> QED BY <2>4 DEF t
  <1> QED BY <1>0, <1>1, <1>2

LEMMA PlannedTail ==
  ASSUME NEW s, Planned(s), s # <<>>
  PROVE  /\ Head(s) \in Ops /\ Planned(Tail(s))
         /\ Tail(s) # <<>> => Follows(Head(s), Head(Tail(s)))
         /\ Head(s).do # "remove" => Tail(s) # <<>>
  <1>1. s \in Seq(Ops) /\ Len(s) \in Nat /\ Len(s) > 0 /\ Head(s) = s[1] /\ Head(s) \in Ops
    BY DEF Planned, Linked
  <1>2. Tail(s) = SubSeq(s, 2, Len(s))
    BY <1>1, TailIsSubSeq
  <1>3. Tail(s) # <<>> => Len(s) > 1 /\ Head(Tail(s)) = s[2]
    BY <1>1
  <1>4. Len(s) = 1 => s[1].do = "remove"
    BY DEF Planned
  <1>5. Tail(s) = <<>> => Len(s) = 1
    <2>1. Len(Tail(s)) = Len(s) - 1
      BY <1>1
    <2>2. Len(<<>>) = 0
      OBVIOUS
    <2>3. Tail(s) = <<>> => Len(Tail(s)) = 0
      BY <2>2, Zenon
    <2> QED BY <1>1, <2>1, <2>3
  <1>6. Planned(Tail(s))
    <2>1. 2 \in Nat /\ 2 > 0
      OBVIOUS
    <2>2. Planned(SubSeq(s, 2, Len(s)))
      BY <2>1, PlannedRest, Zenon
    <2> QED BY <1>2, <2>2, Zenon
  <1>7. Len(s) > 1 => Follows(s[1], s[1 + 1])
    BY <1>1 DEF Planned, Linked
  <1> QED BY <1>1, <1>3, <1>4, <1>5, <1>6, <1>7

-----------------------------------------------------------------------------
PkgTypeOK ==
  /\ rev \in 1 .. MaxRev /\ cc \in Content
  /\ tmplib \in [Tools -> Content]
  /\ dotx \in [Scripted -> Content]
  /\ build \in [made : BOOLEAN, files : [Files -> Content]]
  /\ tmp \in [Archives -> [Files -> Content]]
  /\ out \in [Archives -> [Files -> Content]]
  /\ outside \in BOOLEAN /\ failed \in BOOLEAN
  /\ Planned(todo)
  /\ makes \in Nat /\ faults \in Nat /\ stops \in Nat

LEMMA ScriptFacts ==
  /\ Scripts["akb"] = {"bin/akb_build", "bin/akb_prepare", "bin/akb_clean"}
  /\ Scripts["installer"] = Maked \cup {"installer"}
  /\ Scripts["deb"] = Maked
  /\ \A a \in Archives : Scripts[a] \subseteq Compiled
  /\ Compiled \subseteq Scripts["akb"] \cup Scripts["installer"]
  /\ Files = Compiled \cup Tools \cup {"otagen"}
  /\ \A f \in Compiled : f \notin Tools /\ f # "otagen"
  /\ "otagen" \notin Tools
  <1>1. /\ Scripts["akb"] = {"bin/akb_build", "bin/akb_prepare", "bin/akb_clean"}
        /\ Scripts["installer"] = Maked \cup {"installer"} /\ Scripts["deb"] = Maked
    BY DEF Scripts
  <1>2. \A a \in Archives : Scripts[a] \subseteq Compiled
    BY DEF Compiled
  <1>3. Compiled \subseteq Scripts["akb"] \cup Scripts["installer"]
    <2>1. \A f \in Compiled : \E a \in Archives : f \in Scripts[a]
      BY DEF Compiled
    <2>2. \A a \in Archives : Scripts[a] \subseteq Scripts["akb"] \cup Scripts["installer"]
      BY <1>1 DEF Archives
    <2> QED BY <2>1, <2>2
  <1>4. \A f \in Compiled : f \notin Tools /\ f # "otagen"
    BY <1>1, <1>3 DEF Maked, Tools
  <1> QED BY <1>1, <1>2, <1>3, <1>4 DEF Files, Tools

LEMMA CompiledIsFinite == IsFiniteSet(Compiled)
  <1>1. ASSUME NEW f PROVE IsFiniteSet({f})
    BY FS_Singleton
  <1>2. /\ IsFiniteSet({"bin/akb_build"} \cup {"bin/akb_prepare"} \cup {"bin/akb_clean"})
        /\ IsFiniteSet({"maked/akb_build"} \cup {"maked/akb_prepare"} \cup {"maked/akb_init"})
        /\ IsFiniteSet({"maked/akb_clean"} \cup {"installer"})
    BY <1>1, FS_Union, Zenon
  <1> DEFINE All == (({"bin/akb_build"} \cup {"bin/akb_prepare"} \cup {"bin/akb_clean"})
                    \cup ({"maked/akb_build"} \cup {"maked/akb_prepare"} \cup {"maked/akb_init"}))
                    \cup ({"maked/akb_clean"} \cup {"installer"})
  <1>3. IsFiniteSet(All)
    BY <1>2, FS_Union, Zenon
  <1>4. Compiled \subseteq All
    BY ScriptFacts DEF Maked
  <1> QED BY <1>3, <1>4, FS_Subset, Zenon

LEMMA CardinalityOfBad ==
  ASSUME NEW bad, bad \subseteq Compiled
  PROVE  Cardinality(bad) \in Nat /\ (Cardinality(bad) = 0 => bad = {})
  <1>1. IsFiniteSet(bad)
    BY CompiledIsFinite, FS_Subset
  <1> QED BY <1>1, FS_CardinalityType, FS_EmptySet

LEMMA ContentFacts ==
  /\ Absent \in Content /\ Empty \in Content /\ 1 .. MaxRev \subseteq Content /\ Content \subseteq Int
  /\ Nothing \in [Files -> Content]
  BY PackagingBounds DEF Content, Absent, Empty, Nothing

LEMMA PkgTypeInit == Init => PkgTypeOK
  <1>1. Planned(<<>>)
    BY DEF Planned, Linked
  <1>2. ASSUME Init PROVE PkgTypeOK
    <2>1. /\ rev = 1 /\ cc = Absent /\ todo = <<>> /\ outside = FALSE /\ failed = FALSE
          /\ makes = 0 /\ faults = 0 /\ stops = 0
      BY <1>2 DEF Init, PkgInit
    <2>2. tmplib \in [Tools -> Content] /\ dotx \in [Scripted -> Content]
      BY <1>2, ContentFacts DEF Init, PkgInit
    <2>3. build \in [made : BOOLEAN, files : [Files -> Content]]
      BY <1>2, ContentFacts DEF Init, PkgInit
    <2>4. tmp \in [Archives -> [Files -> Content]] /\ out \in [Archives -> [Files -> Content]]
      BY <1>2, ContentFacts DEF Init, PkgInit
    <2>5. rev \in 1 .. MaxRev /\ cc \in Content
      BY <2>1, ContentFacts, PackagingBounds
    <2> QED BY <1>1, <2>1, <2>2, <2>3, <2>4, <2>5 DEF PkgTypeOK
  <1> QED BY <1>2

LEMMA MakejContent ==
  ASSUME PkgTypeOK, NEW f \in Compiled, NEW ok \in BOOLEAN
  PROVE  Makej(f, ok) \in Content /\ (ok => Makej(f, ok) = rev)
  <1>1. Script(f) \in Scripted
    BY DEF Scripted
  <1> QED BY <1>1, ContentFacts DEF PkgTypeOK, Makej

LEMMA PkgTypeMakeScripts ==
  ASSUME PkgTypeOK, NEW bad \in SUBSET Compiled, MakeScripts(bad) PROVE PkgTypeOK'
  <1> DEFINE made == [f \in Files |->
                    CASE f \in Scripts[Arch] -> Makej(f, f \notin bad)
                      [] f \in Tools -> tmplib[f]
                      [] f = "otagen" -> rev
                      [] OTHER -> Absent]
  <1>1. Planned(todo') /\ Arch \in Archives /\ Scripts[Arch] \subseteq Compiled
    BY PlannedTail, ScriptFacts DEF PkgTypeOK, MakeScripts, Doing, Go, Arch, Ops
  <1>2. made \in [Files -> Content]
    <2>1. \A f \in Scripts[Arch] : Makej(f, f \notin bad) \in Content
      BY <1>1, MakejContent
    <2>2. \A f \in Tools : tmplib[f] \in Content
      BY DEF PkgTypeOK
    <2>3. rev \in Content /\ Absent \in Content
      BY ContentFacts DEF PkgTypeOK
    <2> QED BY <2>1, <2>2, <2>3
  <1>3. /\ build' = [made |-> TRUE, files |-> made]
        /\ tmp' = IF Arch # "deb" THEN tmp
                  ELSE [tmp EXCEPT !["deb"] = [f \in Files |->
                          IF f \in Tools THEN tmp["deb"][f]
                          ELSE IF made[f] = Absent THEN tmp["deb"][f] ELSE made[f]]]
    BY DEF MakeScripts
  <1> HIDE DEF made
  <1>4. build' \in [made : BOOLEAN, files : [Files -> Content]]
    BY <1>2, <1>3
  <1>5. tmp' \in [Archives -> [Files -> Content]]
    BY <1>2, <1>3 DEF PkgTypeOK
  <1>6. faults' \in Nat
    BY CardinalityOfBad DEF PkgTypeOK, MakeScripts
  <1>7. tmplib' \in [Tools -> Content] /\ dotx' \in [Scripted -> Content]
    BY ContentFacts DEF PkgTypeOK, MakeScripts
  <1>8. UNCHANGED <<rev, cc, out, outside, makes, stops>> /\ failed' \in BOOLEAN
    BY DEF MakeScripts, PkgTypeOK
  <1> QED BY <1>1, <1>4, <1>5, <1>6, <1>7, <1>8 DEF PkgTypeOK

LEMMA PkgTypePack == PkgTypeOK /\ Pack => PkgTypeOK'
  <1> SUFFICES ASSUME PkgTypeOK, Pack PROVE PkgTypeOK'
    OBVIOUS
  <1> DEFINE copied == [f \in Files |->
                      IF build.files[f] = Absent THEN tmp["akb"][f] ELSE build.files[f]]
  <1>1. Planned(todo') /\ Arch \in Archives
    BY PlannedTail DEF PkgTypeOK, Pack, Doing, Go, Arch, Ops
  <1>2. copied \in [Files -> Content] /\ tmp["deb"] \in [Files -> Content]
    BY DEF PkgTypeOK, Archives
  <1>3. \/ /\ out' = [out EXCEPT !["deb"] = IF tmp["deb"] = Nothing THEN out["deb"] ELSE tmp["deb"]]
           /\ UNCHANGED <<tmp, outside>>
        \/ outside' = TRUE /\ UNCHANGED <<tmp, out>>
        \/ /\ tmp' = [tmp EXCEPT !["akb"] = copied] /\ out' = [out EXCEPT ![Arch] = copied]
           /\ UNCHANGED outside
    BY DEF Pack
  <1> HIDE DEF copied
  <1>4. tmp' \in [Archives -> [Files -> Content]] /\ out' \in [Archives -> [Files -> Content]]
        /\ outside' \in BOOLEAN
    BY <1>1, <1>2, <1>3 DEF PkgTypeOK
  <1> QED BY <1>1, <1>4 DEF PkgTypeOK, Pack

LEMMA PkgTypeInterruptMakej ==
  ASSUME PkgTypeOK, NEW x \in Compiled, InterruptMakej(x) PROVE PkgTypeOK'
  <1> DEFINE done == Before(x)
             made == [f \in Files |-> CASE f \in done -> Makej(f, TRUE)
                                            [] f \in Tools -> tmplib[f]
                                            [] f = "otagen" -> rev
                                            [] OTHER -> Absent]
  <1>1. done \subseteq Compiled
    <2>1. Arch \in Archives
      BY PlannedTail DEF PkgTypeOK, InterruptMakej, Doing, Arch, Ops
    <2> QED BY <2>1, ScriptFacts DEF Before
  <1> HIDE DEF done
  <1>2. made \in [Files -> Content]
    <2>1. \A f \in done : Makej(f, TRUE) \in Content
      BY <1>1, MakejContent
    <2>2. \A f \in Tools : tmplib[f] \in Content
      BY DEF PkgTypeOK
    <2>3. rev \in Content /\ Absent \in Content
      BY ContentFacts DEF PkgTypeOK
    <2> QED BY <2>1, <2>2, <2>3
  <1>3. build' = [made |-> TRUE, files |-> made]
    BY DEF InterruptMakej, done
  <1> HIDE DEF made
  <1>4. build' \in [made : BOOLEAN, files : [Files -> Content]]
    BY <1>2, <1>3
  <1>5. tmplib' \in [Tools -> Content] /\ dotx' \in [Scripted -> Content]
    BY ContentFacts DEF PkgTypeOK, InterruptMakej
  <1>6. Planned(todo') /\ stops' \in Nat
    BY DEF InterruptMakej, Planned, Linked, PkgTypeOK
  <1> QED BY <1>4, <1>5, <1>6 DEF PkgTypeOK, InterruptMakej

(* gen_akb*.sh that cannot compile skips its recipe; one that does not     *)
(* run the make script goes on with the packing.                           *)
LEMMA GenSkips ==
  ASSUME NEW s, Planned(s), s # <<>>, Head(s).do = "gen"
  PROVE  /\ Planned(SubSeq(s, 5, Len(s))) /\ Planned(<<s[3], s[4]>> \o SubSeq(s, 5, Len(s)))
         /\ SubSeq(s, 5, Len(s)) # <<>> => Head(SubSeq(s, 5, Len(s))).do = "gen"
  <1>1. s \in Seq(Ops) /\ Len(s) \in Nat /\ Len(s) > 0 /\ s[1].do = "gen"
    BY DEF Planned, Linked
  <1>2. /\ \A i \in 1 .. Len(s) - 1 : Follows(s[i], s[i + 1])
        /\ s[Len(s)].do = "remove"
    BY DEF Planned, Linked
  <1>3. Len(s) >= 2 /\ s[1 + 1].do = "make"
    BY <1>1, <1>2 DEF Follows
  <1>4. Len(s) >= 3 /\ s[2 + 1].do = "pack"
    BY <1>1, <1>2, <1>3 DEF Follows
  <1>5. Len(s) >= 4 /\ s[3 + 1].do = "remove"
    BY <1>1, <1>2, <1>4 DEF Follows
  <1>6. Len(s) >= 5 => s[4 + 1].do = "gen"
    BY <1>1, <1>2, <1>5 DEF Follows
  <1> DEFINE r == SubSeq(s, 5, Len(s))
             u == SubSeq(s, 3, Len(s))
  <1>7. r \in Seq(Ops) /\ Len(r) = Len(s) - 4 /\ \A i \in 1 .. Len(s) - 4 : r[i] = s[i + 4]
    <2>1. CASE Len(s) = 4
      <3>1. r = <<>>
        BY <2>1
      <3> QED BY <2>1, <3>1
    <2>2. CASE Len(s) >= 5
      BY <1>1, <2>2
    <2>3. Len(s) = 4 \/ Len(s) >= 5
      <3>1. \A k \in Nat : k >= 4 => k = 4 \/ k >= 5
        OBVIOUS
      <3> QED BY <1>1, <1>5, <3>1, Zenon
    <2> QED BY <2>1, <2>2, <2>3
  <1>8. u \in Seq(Ops) /\ Len(u) = Len(s) - 2 /\ \A i \in 1 .. Len(s) - 2 : u[i] = s[i + 2]
    BY <1>1, <1>5
  <1>9. \A k \in Nat : k > 0 => Planned(SubSeq(s, k, Len(s)))
    BY PlannedRest
  <1>10. Planned(r) /\ Planned(u)
    <2>1. 5 \in Nat /\ 5 > 0 /\ 3 \in Nat /\ 3 > 0
      OBVIOUS
    <2> QED BY <1>9, <2>1, Zenon
  <1> HIDE DEF r, u
  <1>11. <<s[3], s[4]>> \o r = u
    <2>1. <<s[3], s[4]>> \in Seq(Ops) /\ Len(<<s[3], s[4]>>) = 2
      BY <1>1, <1>5
    <2>2. <<s[3], s[4]>> \o r \in Seq(Ops) /\ Len(<<s[3], s[4]>> \o r) = Len(s) - 2
      BY <2>1, <1>1, <1>7
    <2>3. ASSUME NEW i \in 1 .. Len(s) - 2 PROVE (<<s[3], s[4]>> \o r)[i] = u[i]
      <3>0. i = 1 \/ i = 2 \/ i > 2
        BY <1>1
      <3>1. CASE i = 1
        BY <3>1, <2>1, <1>7, <1>8
      <3>2. CASE i = 2
        BY <3>2, <2>1, <1>7, <1>8
      <3>3. CASE i > 2
        <4>1. (<<s[3], s[4]>> \o r)[i] = r[i - 2] /\ i - 2 \in 1 .. Len(s) - 4
          BY <3>3, <2>1, <1>1, <1>7
        <4>2. r[i - 2] = s[i + 2] /\ u[i] = s[i + 2]
          BY <4>1, <1>1, <1>7, <1>8
        <4> QED BY <4>1, <4>2
      <3> QED BY <3>0, <3>1, <3>2, <3>3, Zenon
    <2> QED BY <2>2, <2>3, <1>8, SeqEqual
  <1>12. r # <<>> => Head(r).do = "gen"
    BY <1>1, <1>6, <1>7
  <1>13. Planned(<<s[3], s[4]>> \o r)
    BY <1>10, <1>11, Zenon
  <1> QED BY <1>10, <1>12, <1>13 DEF r

LEMMA PkgTypeStep == PkgTypeOK /\ [Next]_vars => PkgTypeOK'
  <1> SUFFICES ASSUME PkgTypeOK, [Next]_vars PROVE PkgTypeOK'
    OBVIOUS
  <1>1. CASE UNCHANGED pkgvars
    BY <1>1 DEF PkgTypeOK, pkgvars
  <1>2. ASSUME NEW target \in Archives \cup {"all"}, StartMake(target) PROVE PkgTypeOK'
    BY <1>2, RulesPlanned DEF StartMake, PkgTypeOK
  <1>3. CASE MakeClean
    <2>1. /\ tmplib' \in [Tools -> Content] /\ cc' \in Content
          /\ build' \in [made : BOOLEAN, files : [Files -> Content]]
          /\ out' \in [Archives -> [Files -> Content]]
      BY <1>3, ContentFacts DEF MakeClean
    <2> QED BY <1>3, <2>1 DEF MakeClean, PkgTypeOK
  <1>4. ASSUME NEW mk \in BOOLEAN, NEW unmk \in BOOLEAN, PrepareTools(mk, unmk) PROVE PkgTypeOK'
    <2>1. Planned(todo')
      BY <1>4, PlannedTail DEF PrepareTools, Doing, Go, PkgTypeOK
    <2>2. tmplib' \in [Tools -> Content]
      <3>1. rev \in Content /\ Empty \in Content /\ tmplib["mkbootimg"] \in Content
        BY ContentFacts DEF PkgTypeOK, Tools
      <3> QED BY <1>4, <3>1 DEF PrepareTools, Tools
    <2>3. faults' \in Nat /\ failed' \in BOOLEAN
      BY <1>4 DEF PrepareTools, Outcome, PkgTypeOK
    <2> QED BY <1>4, <2>1, <2>2, <2>3 DEF PrepareTools, PkgTypeOK
  <1>5. ASSUME NEW ok \in BOOLEAN, GenCC(ok) PROVE PkgTypeOK'
    <2>1. Planned(todo')
      BY <1>5, PlannedTail DEF GenCC, Doing, Go, PkgTypeOK
    <2>2. cc' \in Content /\ faults' \in Nat /\ failed' \in BOOLEAN
      BY <1>5, ContentFacts DEF GenCC, Outcome, PkgTypeOK
    <2> QED BY <1>5, <2>1, <2>2 DEF GenCC, PkgTypeOK
  <1>6. ASSUME NEW gen \in BOOLEAN, NEW mk \in BOOLEAN, Gen(gen, mk) PROVE PkgTypeOK'
    <2>1. Planned(todo')
      BY <1>6, PlannedTail, GenSkips DEF Gen, Doing, PkgTypeOK
    <2>2. faults' \in Nat /\ failed' \in BOOLEAN
      BY <1>6 DEF Gen, Outcome, PkgTypeOK
    <2> QED BY <1>6, <2>1, <2>2 DEF Gen, PkgTypeOK
  <1>7. CASE GenWithoutCC
    BY <1>7, GenSkips DEF GenWithoutCC, Doing, PkgTypeOK
  <1>8. CASE RemoveTmp
    <2>1. Planned(todo')
      BY <1>8, PlannedTail DEF RemoveTmp, Doing, Go, PkgTypeOK
    <2>2. tmp' \in [Archives -> [Files -> Content]]
      <3>1. tmp' = tmp \/ \E a : tmp' = [tmp EXCEPT ![a] = Nothing]
        BY <1>8 DEF RemoveTmp
      <3> QED BY <3>1, ContentFacts DEF PkgTypeOK
    <2> QED BY <1>8, <2>1, <2>2 DEF RemoveTmp, PkgTypeOK
  <1>9. CASE Interrupt
    BY <1>9 DEF Interrupt, Planned, Linked, PkgTypeOK
  <1>10. CASE Edit
    BY <1>10, PackagingBounds DEF Edit, PkgTypeOK
  <1> QED
    BY <1>1, <1>2, <1>3, <1>4, <1>5, <1>6, <1>7, <1>8, <1>9, <1>10,
       PkgTypeMakeScripts, PkgTypePack, PkgTypeInterruptMakej
    DEF Next, PkgNext, vars, Install

-----------------------------------------------------------------------------
(* As long as no command has failed: what is to be packed has been made,   *)
(* and every archive there is holds all programs.                          *)
Made ==
  Doing("pack") =>
    /\ build.made
    /\ \A f \in Scripts[Arch] : build.files[f] > 0
    /\ Arch = "deb" => \A f \in Maked : tmp["deb"][f] > 0
Released ==
  \A a \in {"installer", "deb"} : out[a] # Nothing => \A f \in Maked : out[a][f] > 0
Sound == faults = 0 => ~ outside /\ Made /\ Released

LEMMA SoundInit == Init => Sound
  <1> SUFFICES ASSUME Init PROVE ~ outside /\ Made /\ Released
    BY DEF Sound
  <1>1. todo = <<>> /\ outside = FALSE /\ out = [a \in Archives |-> Nothing]
    BY DEF Init, PkgInit
  <1>2. Released
    BY <1>1 DEF Released, Archives
  <1> QED BY <1>1, <1>2 DEF Made, Doing

LEMMA SoundMakeScripts ==
  ASSUME PkgTypeOK, Sound, NEW bad \in SUBSET Compiled, MakeScripts(bad) PROVE Sound'
  <1> SUFFICES ASSUME faults' = 0 PROVE (~ outside /\ Made /\ Released)'
    BY DEF Sound
  <1>0. faults' = faults + Cardinality(bad) /\ UNCHANGED <<out, outside, rev>>
    BY DEF MakeScripts
  <1>1. faults = 0 /\ bad = {}
    BY <1>0, CardinalityOfBad DEF PkgTypeOK
  <1>2. Released' /\ ~ outside'
    BY <1>0, <1>1 DEF Sound, Released
  <1>3. todo # <<>> /\ Head(todo).do = "make" /\ Arch \in Archives /\ Scripts[Arch] \subseteq Compiled
    BY PlannedTail, ScriptFacts DEF PkgTypeOK, MakeScripts, Doing, Go, Arch, Ops
  <1>4. todo' = Tail(todo) /\ (todo' # <<>> => Head(todo').arch = Arch)
    BY <1>3, PlannedTail DEF PkgTypeOK, MakeScripts, Go, Follows, Arch
  <1>5. ASSUME NEW f \in Scripts[Arch]
        PROVE  build'.files[f] = rev /\ (Arch = "deb" => tmp'["deb"][f] = rev)
    <2>1. Makej(f, f \notin bad) = rev /\ f \in Files /\ f \notin Tools /\ rev # Absent
      <3>1. Makej(f, f \notin bad) = rev
        BY <1>1 DEF Makej
      <3>2. rev # Absent
        BY DEF PkgTypeOK, Absent
      <3> QED BY <1>3, <3>1, <3>2, ScriptFacts
    <2>2. build'.files[f] = rev
      BY <2>1 DEF MakeScripts
    <2>3. Arch = "deb" => tmp' = [tmp EXCEPT !["deb"] = [g \in Files |->
                          IF g \in Tools THEN tmp["deb"][g]
                          ELSE IF build'.files[g] = Absent THEN tmp["deb"][g] ELSE build'.files[g]]]
      BY DEF MakeScripts
    <2>4. "deb" \in DOMAIN tmp
      BY DEF PkgTypeOK, Archives
    <2> QED BY <2>1, <2>2, <2>3, <2>4
  <1>6. build'.made /\ rev > 0
    BY DEF MakeScripts, PkgTypeOK
  <1>7. Made'
    <2> SUFFICES ASSUME todo' # <<>>
                 PROVE  /\ build'.made
                        /\ \A f \in Scripts[Head(todo').arch] : build'.files[f] > 0
                        /\ Head(todo').arch = "deb" => \A f \in Maked : tmp'["deb"][f] > 0
      BY DEF Made, Doing, Arch
    <2>1. Arch = "deb" => Scripts[Arch] = Maked
      BY ScriptFacts
    <2> QED BY <1>4, <1>5, <1>6, <2>1
  <1> QED BY <1>2, <1>7

LEMMA SoundPack == PkgTypeOK /\ Sound /\ Pack => Sound'
  <1> SUFFICES ASSUME PkgTypeOK, Sound, Pack, faults = 0 PROVE (~ outside /\ Made /\ Released)'
    BY DEF Sound, Pack
  <1> DEFINE copied == [f \in Files |->
                      IF build.files[f] = Absent THEN tmp["akb"][f] ELSE build.files[f]]
  <1>1. /\ build.made /\ Doing("pack") /\ ~ outside /\ Released
        /\ \A f \in Scripts[Arch] : build.files[f] > 0
        /\ Arch = "deb" => \A f \in Maked : tmp["deb"][f] > 0
    BY DEF Sound, Made, Pack
  <1>2. \/ /\ out' = [out EXCEPT !["deb"] = IF tmp["deb"] = Nothing THEN out["deb"] ELSE tmp["deb"]]
           /\ Arch = "deb" /\ UNCHANGED outside
        \/ Arch # "deb" /\ out' = [out EXCEPT ![Arch] = copied] /\ UNCHANGED outside
    BY <1>1 DEF Pack
  <1>3. Arch \in Archives /\ DOMAIN out = Archives /\ Maked \subseteq Files
    BY <1>1, PlannedTail, ScriptFacts DEF PkgTypeOK, Doing, Arch, Ops, Archives
  <1>4. Arch = "installer" => \A f \in Maked : copied[f] > 0
    <2>1. Arch = "installer" => \A f \in Maked : build.files[f] > 0
      BY <1>1, ScriptFacts
    <2> QED BY <1>3, <2>1 DEF Absent
  <1> HIDE DEF copied
  <1>5. Released'
    <2>1. CASE Arch = "deb"
      BY <2>1, <1>1, <1>2, <1>3 DEF Released, Archives
    <2>2. CASE Arch = "installer"
      BY <2>2, <1>1, <1>2, <1>3, <1>4 DEF Released, Archives
    <2>3. CASE Arch = "akb"
      BY <2>3, <1>1, <1>2, <1>3 DEF Released, Archives
    <2> QED BY <2>1, <2>2, <2>3, <1>3 DEF Archives
  <1>6. todo' # <<>> => Head(todo').do = "remove"
    BY <1>1, PlannedTail DEF PkgTypeOK, Doing, Pack, Go, Follows
  <1>7. Made'
    BY <1>6 DEF Made, Doing
  <1> QED BY <1>1, <1>2, <1>5, <1>7

(* The steps that neither make nor pack.                                   *)
LEMMA SoundOther ==
  ASSUME PkgTypeOK, Sound, faults' = 0 => faults = 0, UNCHANGED outside,
         out' = out \/ out' = [a \in Archives |-> Nothing],
         todo' # <<>> => Head(todo').do # "pack" \/ UNCHANGED <<todo, build, tmp>>
  PROVE  Sound'
  <1> SUFFICES ASSUME faults' = 0 PROVE (~ outside /\ Made /\ Released)'
    BY DEF Sound
  <1>1. ~ outside' /\ Made /\ Released
    BY DEF Sound
  <1>2. Released'
    <2>1. CASE out' = out
      BY <1>1, <2>1 DEF Released
    <2>2. CASE out' = [a \in Archives |-> Nothing]
      BY <2>2 DEF Released, Archives
    <2> QED BY <2>1, <2>2
  <1>3. Made'
    BY <1>1 DEF Made, Doing, Arch
  <1> QED BY <1>1, <1>2, <1>3

LEMMA SoundStep == PkgTypeOK /\ Sound /\ [Next]_vars => Sound'
  <1> SUFFICES ASSUME PkgTypeOK, Sound, [Next]_vars PROVE Sound'
    OBVIOUS
  <1>0. faults \in Nat /\ Planned(todo)
    BY DEF PkgTypeOK
  <1>1. CASE UNCHANGED pkgvars
    BY <1>1, SoundOther DEF pkgvars
  <1>2. ASSUME NEW target \in Archives \cup {"all"}, StartMake(target) PROVE Sound'
    BY <1>2, RulesPlanned, SoundOther DEF StartMake
  <1>3. CASE MakeClean
    BY <1>3, SoundOther DEF MakeClean
  <1>4. ASSUME NEW mk \in BOOLEAN, NEW unmk \in BOOLEAN, PrepareTools(mk, unmk) PROVE Sound'
    <2>1. todo' # <<>> => Head(todo').do = "gen_cc"
      BY <1>0, <1>4, PlannedTail DEF PrepareTools, Doing, Go, Follows
    <2> QED BY <1>0, <1>4, <2>1, SoundOther DEF PrepareTools, Outcome
  <1>5. ASSUME NEW ok \in BOOLEAN, GenCC(ok) PROVE Sound'
    <2>1. todo' # <<>> => Head(todo').do = "gen"
      BY <1>0, <1>5, PlannedTail DEF GenCC, Doing, Go, Follows
    <2> QED BY <1>0, <1>5, <2>1, SoundOther DEF GenCC, Outcome
  <1>6. ASSUME NEW gen \in BOOLEAN, NEW mk \in BOOLEAN, Gen(gen, mk) PROVE Sound'
    <2>1. CASE gen /\ mk
      <3>1. todo' # <<>> => Head(todo').do = "make"
        BY <1>0, <1>6, <2>1, PlannedTail DEF Gen, Doing, Follows
      <3> QED BY <1>0, <1>6, <2>1, <3>1, SoundOther DEF Gen, Outcome
    <2>2. CASE ~ (gen /\ mk)
      <3>1. faults' > 0
        BY <1>0, <1>6, <2>2 DEF Gen, Outcome
      <3> QED BY <3>1 DEF Sound
    <2> QED BY <2>1, <2>2
  <1>7. CASE GenWithoutCC
    <2>1. todo' # <<>> => Head(todo').do = "gen"
      BY <1>0, <1>7, GenSkips DEF GenWithoutCC, Doing
    <2> QED BY <1>7, <2>1, SoundOther DEF GenWithoutCC
  <1>8. CASE RemoveTmp
    <2>1. todo' # <<>> => Head(todo').do = "gen"
      BY <1>0, <1>8, PlannedTail DEF RemoveTmp, Doing, Go, Follows
    <2> QED BY <1>8, <2>1, SoundOther DEF RemoveTmp
  <1>9. CASE Interrupt
    BY <1>9, SoundOther DEF Interrupt
  <1>10. ASSUME NEW x, InterruptMakej(x) PROVE Sound'
    BY <1>10, SoundOther DEF InterruptMakej
  <1>11. CASE Edit
    BY <1>11, SoundOther DEF Edit
  <1> QED
    BY <1>1, <1>2, <1>3, <1>4, <1>5, <1>6, <1>7, <1>8, <1>9, <1>10, <1>11, SoundMakeScripts, SoundPack
    DEF Next, PkgNext, vars, Install

-----------------------------------------------------------------------------
(* The programs on the user's machine.                                     *)
Whole == installed /\ faults = 0 => \A q \in Programs : bin[q] = "ok"

LEMMA WholeStep == PkgTypeOK /\ Sound /\ Whole /\ [Next]_vars => Whole'
  <1> SUFFICES ASSUME PkgTypeOK, Sound, Whole, [Next]_vars PROVE Whole'
    OBVIOUS
  <1>1. CASE UNCHANGED vars
    BY <1>1 DEF vars, pkgvars, treevars, Whole
  <1>2. CASE ~installed /\ PkgNext /\ UNCHANGED <<treevars, installed>>
    BY <1>2 DEF Whole
  <1>3. ASSUME NEW a \in Archives, Install(a) PROVE Whole'
    <2> SUFFICES ASSUME faults = 0 PROVE \A q \in Programs : bin'[q] = "ok"
      BY <1>3 DEF Whole, Install, pkgvars
    <2>1. a \in {"installer", "deb"} /\ out[a] # Nothing
      BY <1>3 DEF Install
    <2>2. \A f \in Maked : out[a][f] > 0
      BY <2>1 DEF Sound, Released
    <2>3. \A f \in Maked : out[a][f] # Absent /\ out[a][f] # Empty
      BY <2>2 DEF Absent, Empty
    <2>4. bin' = [akb_init |-> "ok", akb_prepare |-> "ok", akb_build |-> "ok", akb_clean |-> "ok"]
      BY <1>3, <2>3 DEF Install, Maked
    <2> QED BY <2>4 DEF Programs
  <1>4. CASE installed /\ TreeNext /\ UNCHANGED <<pkgvars, installed>>
    <2>1. UNCHANGED <<bin, faults, installed>>
      BY <1>4 DEF TreeNext, RunInit, MoveAway, MoveBack, MakeDirs, MoveGit, RemoveTmpDir, Halt,
                  Build, PrepareTree, Clean, pkgvars
    <2> QED BY <2>1 DEF Whole
  <1> QED BY <1>1, <1>2, <1>3, <1>4 DEF Next

ReleaseInv == PkgTypeOK /\ Sound /\ Whole

LEMMA ReleaseInvariant == Spec => []ReleaseInv
  <1>1. Init => ReleaseInv
    BY PkgTypeInit, SoundInit DEF Init, Whole, ReleaseInv
  <1>2. ReleaseInv /\ [Next]_vars => ReleaseInv'
    BY PkgTypeStep, SoundStep, WholeStep DEF ReleaseInv
  <1> QED BY <1>1, <1>2, PTL DEF Spec

(* For any number of makes, interruptions and revisions, in any order of   *)
(* targets: as long as no command has failed, nothing is written beside    *)
(* the repository and the user gets every program whole (makefile,         *)
(* btool/gen_akb*.sh, btool/make*.sh, installer.sh).                       *)
THEOREM HarmNeedsFailure == Spec => []OnlyFailuresHarm
  <1>1. ReleaseInv => OnlyFailuresHarm
    BY DEF ReleaseInv, PkgTypeOK, Sound, Whole, OnlyFailuresHarm, StaysInside, InstalledWhole
  <1> QED BY <1>1, ReleaseInvariant, PTL

(* Programs of a release made without a failure can prepare a tree that    *)
(* has sources/ as often as the user likes (prepare_install.sh:30-35,      *)
(* clean.sh).                                                              *)
THEOREM PrepareIsRepeatable == Spec => PrepareRepeats
  <1>1. ASSUME ReleaseInv, NEW line19 \in BOOLEAN, PrepareTree(TRUE, line19), installed, faults = 0,
               <<"tree", 1>> \in dirs
        PROVE  outdir' = "configured"
    <2>1. \A q \in Programs : bin[q] = "ok"
      BY <1>1 DEF ReleaseInv, Whole
    <2>2. bin["akb_prepare"] = "ok" /\ bin["akb_clean"] = "ok"
      BY <2>1 DEF Programs
    <2> QED BY <1>1, <2>2 DEF PrepareTree, Cleans
  <1>2. ReleaseInv =>
          [(\E line19 \in BOOLEAN : PrepareTree(TRUE, line19))
             /\ installed /\ faults = 0 /\ <<"tree", 1>> \in dirs
           => outdir' = "configured"]_vars
    BY <1>1
  <1> QED BY <1>2, ReleaseInvariant, PTL DEF PrepareRepeats

-----------------------------------------------------------------------------
(* A make that found no leftovers and in which nothing has failed: tmp/    *)
(* and dpkg_tmp/ are empty until something is copied there, the tools are  *)
(* in tmplib/ until the first make script that takes them away, and what   *)
(* is to be packed is complete and of the current revision.                *)
NoTmp == tmp = [a \in Archives |-> Nothing]
NeedsTools(op) ==
  \/ op.do = "gen_cc"
  \/ op.arch = "akb" /\ op.do # "prepare"
  \/ op.arch = "installer" /\ op.do \in {"gen", "make"}
Packable(a) ==
  IF a = "deb" THEN tmp = [[d \in Archives |-> Nothing] EXCEPT !["deb"] = Complete("deb")]
  ELSE build.made /\ build.files = Complete(a) /\ NoTmp
TmpOf(a) == IF a = "deb" THEN "deb" ELSE "akb"

FreshFor(op) ==
  /\ op.do \in {"prepare", "gen_cc", "gen", "make"} => NoTmp
  /\ NeedsTools(op) => tmplib = [t \in Tools |-> rev]
  /\ op.do = "pack" => Packable(op.arch)
  /\ op.do = "remove" => /\ \A a \in Archives : a # TmpOf(op.arch) => tmp[a] = Nothing
                         /\ op.arch # "deb" => build.made
Fresh == ~failed /\ todo # <<>> => FreshFor(Head(todo))

LEMMA FreshMakeScripts ==
  ASSUME PkgTypeOK, Fresh, NEW bad \in SUBSET Compiled, MakeScripts(bad) PROVE Fresh'
  <1> SUFFICES ASSUME ~failed', todo' # <<>> PROVE FreshFor(Head(todo))'
    BY DEF Fresh
  <1>1. /\ ~failed /\ bad = {} /\ todo # <<>> /\ Head(todo).do = "make" /\ UNCHANGED rev
        /\ todo' = Tail(todo)
    BY DEF MakeScripts, Doing, Go
  <1>2. PICK a \in Archives : a = Arch /\ Head(todo').do = "pack" /\ Head(todo').arch = a
    BY <1>1, PlannedTail DEF PkgTypeOK, Follows, Arch, Ops
  <1>3. NoTmp /\ (a # "deb" => tmplib = [t \in Tools |-> rev])
    BY <1>1, <1>2 DEF Fresh, FreshFor, NeedsTools, Arch, Archives
  <1>4. Scripts[a] \subseteq Compiled /\ rev # Absent
    BY ScriptFacts DEF PkgTypeOK, Absent
  <1>5. ASSUME NEW f \in Files
        PROVE  build'.files[f] = IF f \in Scripts[a] THEN rev
                                 ELSE IF f \in Tools THEN tmplib[f]
                                 ELSE IF f = "otagen" THEN rev ELSE Absent
    <2>1. f \in Scripts[a] => Makej(f, f \notin bad) = rev /\ f \notin Tools /\ f # "otagen"
      BY <1>1, <1>4, ScriptFacts DEF Makej
    <2>2. f \in Tools => f # "otagen"
      BY ScriptFacts
    <2>3. build'.files[f] = CASE f \in Scripts[a] -> Makej(f, f \notin bad)
                      [] f \in Tools -> tmplib[f]
                      [] f = "otagen" -> rev
                      [] OTHER -> Absent
      BY <1>2 DEF MakeScripts
    <2> QED BY <2>1, <2>2, <2>3
  <1>6. build'.made /\ build'.files = [f \in Files |-> build'.files[f]]
    BY DEF MakeScripts
  <1>7. CASE a # "deb"
    <2>1. tmp' = tmp /\ (a = "akb" => tmplib' = tmplib)
      BY <1>2, <1>7 DEF MakeScripts
    <2>2. \A f \in Files : build'.files[f] =
            IF f \in Scripts[a] \cup {"otagen"} \cup Tools THEN rev ELSE Absent
      BY <1>3, <1>5, <1>7
    <2>3. build'.files = [f \in Files |->
            IF f \in Scripts[a] \cup {"otagen"} \cup Tools THEN rev ELSE Absent]
      BY <1>6, <2>2
    <2>4. Packable(a)'
      BY <1>1, <1>3, <1>6, <1>7, <2>1, <2>3 DEF Packable, NoTmp, Complete
    <2>5. NeedsTools(Head(todo)') => tmplib' = [t \in Tools |-> rev']
      BY <1>1, <1>2, <1>3, <1>7, <2>1 DEF NeedsTools
    <2> QED BY <1>2, <2>4, <2>5 DEF FreshFor, NeedsTools
  <1>8. CASE a = "deb"
    <2>1. tmp' = [tmp EXCEPT !["deb"] = [g \in Files |->
                          IF g \in Tools THEN tmp["deb"][g]
                          ELSE IF build'.files[g] = Absent THEN tmp["deb"][g] ELSE build'.files[g]]]
      BY <1>2, <1>8 DEF MakeScripts
    <2>2. \A g \in Files : tmp["deb"][g] = Absent
      BY <1>3 DEF NoTmp, Nothing, Archives
    <2>3. \A g \in Files : (IF g \in Tools THEN tmp["deb"][g]
                          ELSE IF build'.files[g] = Absent THEN tmp["deb"][g] ELSE build'.files[g])
            = IF g \in Scripts["deb"] \cup {"otagen"} \cup {} THEN rev ELSE Absent
      BY <1>4, <1>5, <1>8, <2>2, ScriptFacts
    <2>4. tmp' = [[d \in Archives |-> Nothing] EXCEPT !["deb"] = [g \in Files |->
             IF g \in Scripts["deb"] \cup {"otagen"} \cup {} THEN rev ELSE Absent]]
      <3>1. [g \in Files |-> IF g \in Tools THEN tmp["deb"][g]
                             ELSE IF build'.files[g] = Absent THEN tmp["deb"][g] ELSE build'.files[g]]
              = [g \in Files |-> IF g \in Scripts["deb"] \cup {"otagen"} \cup {} THEN rev ELSE Absent]
        BY <2>3
      <3>2. tmp' = [tmp EXCEPT !["deb"] = [g \in Files |->
                          IF g \in Scripts["deb"] \cup {"otagen"} \cup {} THEN rev ELSE Absent]]
        BY <2>1, <3>1, Zenon
      <3> QED BY <1>3, <3>2, Zenon DEF NoTmp
    <2>5. Packable(a)'
      BY <1>1, <1>8, <2>4 DEF Packable, Complete
    <2> QED BY <1>2, <1>8, <2>5 DEF FreshFor, NeedsTools
  <1> QED BY <1>7, <1>8

LEMMA FreshPack ==
  PkgTypeOK /\ Fresh /\ Pack => Fresh' /\ (~failed => out'[Arch] = Complete(Arch))
  <1> SUFFICES ASSUME PkgTypeOK, Fresh, Pack, ~failed PROVE Fresh' /\ out'[Arch] = Complete(Arch)
    <2>1. Pack => failed' = failed
      BY DEF Pack
    <2>2. failed' => Fresh'
      BY DEF Fresh
    <2> QED BY <2>1, <2>2
  <1>1. /\ todo # <<>> /\ Head(todo).do = "pack" /\ UNCHANGED <<rev, tmplib, failed>> /\ todo' = Tail(todo)
    BY DEF Pack, Doing, Go
  <1>2. PICK a \in Archives : a = Arch /\ Head(todo').do = "remove" /\ Head(todo').arch = a
    BY <1>1, PlannedTail DEF PkgTypeOK, Follows, Arch, Ops
  <1>3. Packable(a) /\ (a = "akb" => tmplib = [t \in Tools |-> rev])
    BY <1>1, <1>2 DEF Fresh, FreshFor, NeedsTools, Arch
  <1>4. \A d \in Archives : d # TmpOf(a) => tmp[d] = Nothing
    BY <1>3 DEF Packable, NoTmp, TmpOf, Archives
  <1>5. DOMAIN out = Archives /\ DOMAIN tmp = Archives /\ Complete(a) \in [Files -> Content]
    BY ContentFacts DEF PkgTypeOK, Complete
  <1>6. CASE a = "deb"
    <2>1. /\ out' = [out EXCEPT !["deb"] = IF tmp["deb"] = Nothing THEN out["deb"] ELSE tmp["deb"]]
          /\ tmp' = tmp
      BY <1>2, <1>6 DEF Pack
    <2>2. tmp["deb"] = Complete("deb")
      BY <1>3, <1>6 DEF Packable, Archives
    <2>3. Complete("deb")["otagen"] = rev /\ Nothing["otagen"] = Absent /\ rev # Absent
      BY ScriptFacts DEF Complete, Nothing, PkgTypeOK, Absent
    <2>4. out'["deb"] = Complete("deb")
      BY <1>5, <1>6, <2>1, <2>2, <2>3
    <2>5. \A d \in Archives : d # TmpOf(a) => tmp'[d] = Nothing
      BY <1>4, <2>1
    <2>6. FreshFor(Head(todo))'
      BY <1>1, <1>2, <1>6, <2>5 DEF FreshFor, NeedsTools, TmpOf
    <2> QED BY <1>2, <1>6, <2>4, <2>6 DEF Fresh
  <1>7. CASE a # "deb"
    <2> DEFINE copied == [f \in Files |->
                      IF build.files[f] = Absent THEN tmp["akb"][f] ELSE build.files[f]]
    <2>1. build.made /\ build.files = Complete(a) /\ NoTmp
      BY <1>3, <1>7 DEF Packable
    <2>2. /\ tmp' = [tmp EXCEPT !["akb"] = copied] /\ out' = [out EXCEPT ![a] = copied]
      BY <1>2, <1>7, <2>1 DEF Pack
    <2>3. \A f \in Files : tmp["akb"][f] = Absent
      BY <2>1 DEF NoTmp, Nothing, Archives
    <2>4. \A f \in Files : copied[f] = Complete(a)[f]
      BY <2>1, <2>3
    <2>5. copied = Complete(a)
      BY <2>4 DEF Complete
    <2> HIDE DEF copied
    <2>6. out'[a] = Complete(a)
      BY <1>5, <2>2, <2>5
    <2>7. \A d \in Archives : d # TmpOf(a) => tmp'[d] = Nothing
      BY <1>4, <1>5, <1>7, <2>2 DEF TmpOf
    <2>8. FreshFor(Head(todo))'
      <3>1. build'.made
        BY <2>1 DEF Pack
      <3> QED BY <1>1, <1>2, <1>3, <2>7, <3>1 DEF FreshFor, NeedsTools, TmpOf
    <2> QED BY <1>2, <2>6, <2>8 DEF Fresh
  <1> QED BY <1>6, <1>7

LEMMA FreshStep == PkgTypeOK /\ Fresh /\ [Next]_vars => Fresh'
  <1> SUFFICES ASSUME PkgTypeOK, Fresh, [Next]_vars, ~failed', todo' # <<>> PROVE FreshFor(Head(todo))'
    BY DEF Fresh
  <1>0. Planned(todo) /\ (todo # <<>> => Head(todo) \in Ops)
    BY PlannedTail DEF PkgTypeOK
  <1>1. CASE UNCHANGED pkgvars
    BY <1>1 DEF pkgvars, Fresh, FreshFor, NeedsTools, Packable, NoTmp, TmpOf, Complete
  <1>2. ASSUME NEW target \in Archives \cup {"all"}, StartMake(target) PROVE FreshFor(Head(todo))'
    <2>1. NoTmp' /\ Head(todo').do = "prepare"
      BY <1>2, RulesPlanned DEF StartMake, NoTmp
    <2> QED BY <2>1 DEF FreshFor, NeedsTools
  <1>3. ASSUME NEW mk \in BOOLEAN, NEW unmk \in BOOLEAN, PrepareTools(mk, unmk) PROVE FreshFor(Head(todo))'
    <2>1. /\ ~failed /\ mk /\ unmk /\ UNCHANGED <<rev, tmp>> /\ todo # <<>> /\ Head(todo).do = "prepare"
          /\ todo' = Tail(todo)
      BY <1>3 DEF PrepareTools, Doing, Go, Outcome
    <2>2. Head(todo').do = "gen_cc"
      BY <1>0, <2>1, PlannedTail DEF Follows
    <2>3. NoTmp'
      BY <2>1 DEF Fresh, FreshFor, NoTmp
    <2>4. tmplib' = [t \in Tools |-> rev']
      BY <1>3, <2>1 DEF PrepareTools, Tools
    <2> QED BY <2>2, <2>3, <2>4 DEF FreshFor
  <1>4. ASSUME NEW ok \in BOOLEAN, GenCC(ok) PROVE FreshFor(Head(todo))'
    <2>1. /\ ~failed /\ UNCHANGED <<rev, tmp, tmplib>> /\ todo # <<>> /\ Head(todo).do = "gen_cc"
          /\ todo' = Tail(todo)
      BY <1>4 DEF GenCC, Doing, Go, Outcome
    <2>2. Head(todo').do = "gen"
      BY <1>0, <2>1, PlannedTail DEF Follows
    <2>3. NoTmp'
      BY <2>1 DEF Fresh, FreshFor, NoTmp
    <2>4. tmplib' = [t \in Tools |-> rev']
      BY <2>1 DEF Fresh, FreshFor, NeedsTools
    <2> QED BY <2>2, <2>3, <2>4 DEF FreshFor, NeedsTools
  <1>5. ASSUME NEW gen \in BOOLEAN, NEW mk \in BOOLEAN, Gen(gen, mk) PROVE FreshFor(Head(todo))'
    <2>1. /\ ~failed /\ UNCHANGED <<rev, tmp, tmplib>> /\ todo # <<>> /\ Head(todo).do = "gen"
          /\ todo' = Tail(todo)
      BY <1>5 DEF Gen, Doing, Outcome
    <2>2. Head(todo').do = "make" /\ Head(todo').arch = Head(todo).arch
      BY <1>0, <2>1, PlannedTail DEF Follows
    <2>3. NoTmp' /\ (NeedsTools(Head(todo)) => tmplib' = [t \in Tools |-> rev'])
      BY <2>1 DEF Fresh, FreshFor, NoTmp
    <2> QED BY <2>1, <2>2, <2>3 DEF FreshFor, NeedsTools
  <1>6. CASE RemoveTmp
    <2>1. /\ ~failed /\ UNCHANGED <<rev, tmplib>> /\ todo # <<>> /\ Head(todo).do = "remove"
          /\ todo' = Tail(todo) /\ tmp' = [tmp EXCEPT ![TmpOf(Head(todo).arch)] = Nothing]
      <3>1. ~failed /\ UNCHANGED <<rev, tmplib>> /\ todo # <<>> /\ Head(todo).do = "remove"
        BY <1>6 DEF RemoveTmp, Doing
      <3>2. Arch # "deb" => build.made
        BY <3>1 DEF Fresh, FreshFor, Arch
      <3> QED BY <1>6, <3>1, <3>2 DEF RemoveTmp, Go, TmpOf, Arch
    <2>2. Head(todo').do = "gen" /\ (Head(todo).arch # "akb" => Head(todo').arch = "deb")
      BY <1>0, <2>1, PlannedTail DEF Follows
    <2>3. \A a \in Archives : a # TmpOf(Head(todo).arch) => tmp[a] = Nothing
      BY <2>1 DEF Fresh, FreshFor
    <2>4. NoTmp'
      <3>1. tmp \in [Archives -> [Files -> Content]]
        BY DEF PkgTypeOK
      <3> QED BY <2>1, <2>3, <3>1 DEF NoTmp
    <2>5. Head(todo).arch = "akb" => tmplib' = [t \in Tools |-> rev']
      BY <2>1 DEF Fresh, FreshFor, NeedsTools
    <2> QED BY <2>2, <2>4, <2>5 DEF FreshFor, NeedsTools
  <1>7. CASE MakeClean \/ GenWithoutCC \/ Interrupt \/ Edit \/ \E x : InterruptMakej(x)
    BY <1>7 DEF MakeClean, GenWithoutCC, Interrupt, Edit, InterruptMakej
  <1>8. ASSUME NEW bad \in SUBSET Compiled, MakeScripts(bad) PROVE FreshFor(Head(todo))'
    BY <1>8, FreshMakeScripts DEF Fresh
  <1>9. CASE Pack
    BY <1>9, FreshPack DEF Fresh
  <1> QED
    BY <1>1, <1>2, <1>3, <1>4, <1>5, <1>6, <1>7, <1>8, <1>9 DEF Next, PkgNext, vars, Install

(* For any number of makes of any targets, interrupted wherever they may   *)
(* be: a make in which no command fails and which finds no tmp/ and no     *)
(* dpkg_tmp/ packs exactly a release of the current sources (makefile,     *)
(* btool/gen_akb*.sh, btool/make*.sh).                                     *)
THEOREM CleanMakesAreFresh == Spec => CleanMakeIsFresh
  <1> DEFINE Packs == Doing("pack") /\ ~failed /\ todo' = Tail(todo) => out'[Arch] = Complete(Arch)
  <1>1. Init => PkgTypeOK /\ Fresh
    BY PkgTypeInit DEF Init, PkgInit, Fresh
  <1>2. PkgTypeOK /\ Fresh /\ [Next]_vars => (PkgTypeOK /\ Fresh)'
    BY PkgTypeStep, FreshStep
  <1>3. PkgTypeOK /\ Fresh /\ [Next]_vars => [Packs]_pkgvars
    <2> SUFFICES ASSUME PkgTypeOK, Fresh, [Next]_vars, ~ UNCHANGED pkgvars,
                        Doing("pack"), ~failed, todo' = Tail(todo)
                 PROVE  Pack
      BY FreshPack
    <2>1. todo # <<>> /\ Head(todo).do = "pack" /\ todo' # <<>>
      BY PlannedTail DEF Doing, PkgTypeOK
    <2>2. PkgNext
      BY DEF Next, vars, Install
    <2> QED
      BY <2>1, <2>2 DEF PkgNext, StartMake, MakeClean, PrepareTools, GenCC, Gen, GenWithoutCC, MakeScripts,
                        RemoveTmp, Interrupt, InterruptMakej, Edit, Doing
  <1> QED BY <1>1, <1>2, <1>3, PTL DEF Spec, CleanMakeIsFresh
=============================================================================
