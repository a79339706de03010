---------------------------- MODULE AkbDataProofs ----------------------------
(***************************************************************************)
(* For any number of arrays of any size, and any RAND_MAX, the data[] that *)
(* write_C prints is complete and every define leads to its array.         *)
(***************************************************************************)
EXTENDS AkbData, FiniteSetTheorems, TLAPS

DInv == TypeOK /\ CountAgrees /\ Located

(* rand_mod stays below its argument: no case of the switch is missed out  *)
(* and no padding is longer than a quarter of the array.                   *)
LEMMA RandModBound ==
  ASSUME NEW mod \in Nat \ {0}, NEW x \in rand_mod(mod)
  PROVE  x \in 0 .. (mod - 1)
<1> DEFINE t == Top(mod)
<1>1. t \in Nat
  BY DataAssumption DEF Top
<1>2. PICK rnd \in 0 .. (t - 1) : x = (mod * rnd) \div (1 + t)
  BY DEF rand_mod
<1> HIDE DEF t
<1>3. mod * rnd < mod * (1 + t) /\ mod * rnd >= 0 /\ mod * rnd \in Int
  BY <1>1, <1>2
<1> DEFINE y == mod * rnd
           d == 1 + t
<1>4. y \in Int /\ d \in Int /\ d > 0 /\ y >= 0 /\ y < mod * d
  BY <1>1, <1>3
<1> HIDE DEF y, d
<1>5. (y \div d) \in Int /\ (y \div d) >= 0 /\ d * (y \div d) <= y
  BY <1>4
<1>6. x = y \div d
  BY <1>2 DEF y, d
<1>7. x \in Int /\ x >= 0 /\ d * x < mod * d
  BY <1>4, <1>5, <1>6
<1>8. x < mod
  BY <1>4, <1>7
<1> QED BY <1>7, <1>8

(* The arrays are finitely many, and so are those that are left.           *)
LEMMA ArraysFinite ==
  ASSUME NEW S, S \subseteq Arrays
  PROVE  IsFiniteSet(S) /\ Cardinality(Arrays) = N
<1>1. IsFiniteSet(Arrays) /\ Cardinality(Arrays) = N
  BY FS_Interval, DataAssumption DEF Arrays
<1> QED BY <1>1, FS_Subset

(* The state before the first array is encrypted.                          *)
LEMMA DataInit == Init => DInv
<1> SUFFICES ASSUME Init PROVE DInv
  OBVIOUS
<1>1. TypeOK
  BY DataAssumption DEF Init, TypeOK, Arrays
<1> QED BY <1>1 DEF Init, DInv, CountAgrees, Located

(* A round that prints array a with m bytes before and n after it: where   *)
(* the earlier arrays are has not changed, and a is at its define.         *)
LEMMA PrintKeepsLocated ==
  ASSUME TypeOK, Located, NEW a \in todo, prnt_array(a), todo' = todo \ {a}
  PROVE  /\ Located'
         /\ offset' \in Nat /\ define' \in [Arrays -> Nat]
         /\ data' \in [0 .. (offset' - 1) -> ({-1} \cup Arrays) \X Nat]
<1> DEFINE l == Size[a]
<1>1. a \in Arrays /\ l \in Nat \ {0}
  BY DataAssumption DEF TypeOK
<1>2. l \div 4 \in Nat
  BY <1>1
<1>3. PICK m \in rand_mod(1 + l \div 4), n \in rand_mod(1 + l \div 4) :
        /\ define' = [define EXCEPT ![a] = offset + m]
        /\ data' = [k \in 0 .. (offset + m + l + n - 1) |->
                      IF k < offset THEN data[k]
                      ELSE IF k - offset >= m /\ k - offset < m + l
                             THEN <<a, k - offset - m>> ELSE Noise]
        /\ offset' = offset + m + l + n
  BY DEF prnt_array, Place
<1>4. m \in Nat /\ n \in Nat
  <2>1. 1 + l \div 4 \in Nat \ {0}
    BY <1>2
  <2>2. m \in 0 .. ((1 + l \div 4) - 1) /\ n \in 0 .. ((1 + l \div 4) - 1)
    BY <1>3, <2>1, RandModBound
  <2> QED BY <2>2
<1> HIDE DEF l
<1>5. offset \in Nat /\ offset' \in Nat /\ offset' = offset + m + l + n
  BY <1>1, <1>3, <1>4 DEF TypeOK
<1>6. define' \in [Arrays -> Nat]
  BY <1>1, <1>3, <1>4 DEF TypeOK
<1>7. data' \in [0 .. (offset' - 1) -> ({-1} \cup Arrays) \X Nat]
  <2>1. ASSUME NEW k \in 0 .. (offset + m + l + n - 1)
        PROVE  data'[k] \in ({-1} \cup Arrays) \X Nat
    <3>1. CASE k < offset
      BY <1>3, <1>5, <2>1, <3>1 DEF TypeOK
    <3>2. CASE k >= offset /\ k - offset >= m /\ k - offset < m + l
      <4>1. data'[k] = <<a, k - offset - m>>
        BY <1>3, <1>5, <2>1, <3>2
      <4>2. k - offset - m \in Nat
        BY <1>4, <1>5, <3>2
      <4> QED BY <1>1, <4>1, <4>2
    <3>3. CASE k >= offset /\ ~(k - offset >= m /\ k - offset < m + l)
      <4>1. data'[k] = Noise
        BY <1>3, <1>5, <2>1, <3>3
      <4> QED BY <4>1 DEF Noise
    <3> QED BY <1>5, <3>1, <3>2, <3>3
  <2>2. 0 .. (offset' - 1) = 0 .. (offset + m + l + n - 1)
    BY <1>1, <1>4, <1>5
  <2>3. data' = [k \in 0 .. (offset + m + l + n - 1) |-> data'[k]]
    BY <1>3
  <2> QED BY <2>1, <2>2, <2>3
<1>8. ASSUME NEW b \in Arrays \ todo', NEW k \in 0 .. (Size[b] - 1)
      PROVE  define'[b] + k < offset' /\ data'[define'[b] + k] = <<b, k>>
  <2> Size[b] \in Nat /\ k \in Nat
    BY <1>8, DataAssumption
  <2>1. CASE b = a
    <3>1. define'[b] = offset + m /\ k < l
      BY <1>1, <1>3, <1>8, <2>1 DEF TypeOK, l
    <3>2. offset + m + k \in 0 .. (offset + m + l + n - 1)
      BY <1>1, <1>4, <1>5, <3>1
    <3>3. data'[offset + m + k] = <<a, (offset + m + k) - offset - m>>
      BY <1>1, <1>3, <1>4, <1>5, <3>1, <3>2
    <3>4. (offset + m + k) - offset - m = k
      BY <1>4, <1>5
    <3> QED BY <1>1, <1>4, <1>5, <2>1, <3>1, <3>3, <3>4
  <2>2. CASE b # a
    <3>1. b \in Arrays \ todo /\ define'[b] = define[b]
      BY <1>3, <1>8, <2>2 DEF TypeOK
    <3>2. define[b] + k < offset /\ data[define[b] + k] = <<b, k>>
      BY <1>8, <3>1 DEF Located
    <3>3. define[b] \in Nat
      BY <1>8 DEF TypeOK
    <3>4. define[b] + k \in 0 .. (offset + m + l + n - 1)
      BY <1>1, <1>4, <1>5, <3>2, <3>3
    <3>5. data'[define[b] + k] = data[define[b] + k]
      BY <1>3, <3>2, <3>4
    <3> QED BY <1>1, <1>4, <1>5, <3>1, <3>2, <3>3, <3>5
  <2> QED BY <2>1, <2>2
<1>9. Located'
  BY <1>8 DEF Located
<1> QED BY <1>5, <1>6, <1>7, <1>9

(* Every step of write_C.                                                  *)
LEMMA DataStep == DInv /\ [Next]_vars => DInv'
<1> SUFFICES ASSUME DInv, [Next]_vars PROVE DInv'
  OBVIOUS
<1> USE DEF DInv
<1>1. CASE Encrypt
  <2>1. TypeOK'
    BY <1>1, DataAssumption DEF Encrypt, Counted, TypeOK, CountAgrees
  <2>2. CountAgrees'
    <3>1. CASE next < N
      BY <1>1, <3>1 DEF Encrypt, Counted, TypeOK, CountAgrees
    <3>2. CASE ~(next < N)
      <4>1. next = N /\ numd = N /\ todo = Arrays
        BY <1>1, <3>2, DataAssumption DEF Encrypt, TypeOK, CountAgrees
      <4>2. Cardinality(todo) = N
        BY <4>1, ArraysFinite
      <4> QED BY <1>1, <3>2, <4>1, <4>2, DataAssumption DEF Encrypt, CountAgrees
    <3> QED BY <3>1, <3>2
  <2>3. Located'
    BY <1>1 DEF Encrypt, Located
  <2> QED BY <2>1, <2>2, <2>3
<1>2. CASE Pick
  <2>1. indx' \in Arrays
    BY <1>2, RandModBound, DataAssumption DEF Pick, Arrays
  <2>2. TypeOK'
    BY <1>2, <2>1 DEF Pick, TypeOK
  <2>3. CountAgrees'
    BY <1>2 DEF Pick, CountAgrees
  <2>4. Located'
    BY <1>2 DEF Pick, Located
  <2> QED BY <2>2, <2>3, <2>4
<1>3. CASE Scan
  <2>0. indx' \in Arrays
    BY <1>3, DataAssumption DEF Scan, Restart, Arrays
  <2>1. CASE UNCHANGED <<pc, todo, done, offset, define, data>>
    <3>1. TypeOK'
      BY <1>3, <2>0, <2>1 DEF Scan, TypeOK
    <3>2. CountAgrees'
      BY <1>3, <2>1 DEF Scan, CountAgrees
    <3>3. Located'
      BY <2>1 DEF Located
    <3> QED BY <3>1, <3>2, <3>3
  <2>2. ASSUME NEW a \in todo, prnt_array(a), todo' = todo \ {a}, done' = -1, pc' = "count"
        PROVE  DInv'
    <3>1. /\ Located'
          /\ offset' \in Nat /\ define' \in [Arrays -> Nat]
          /\ data' \in [0 .. (offset' - 1) -> ({-1} \cup Arrays) \X Nat]
      BY <2>2, PrintKeepsLocated
    <3>2. TypeOK'
      BY <1>3, <2>0, <2>2, <3>1 DEF Scan, TypeOK
    <3>3. IsFiniteSet(todo)
      BY ArraysFinite DEF TypeOK
    <3>4. Cardinality(todo') = Cardinality(todo) - 1
      BY <2>2, <3>3, FS_RemoveElement
    <3>5. numd = Cardinality(todo) /\ numd' = numd
      BY <1>3 DEF Scan, CountAgrees
    <3>6. CountAgrees'
      BY <2>2, <3>4, <3>5 DEF CountAgrees, TypeOK
    <3> QED BY <3>1, <3>2, <3>6
  <2> QED BY <1>3, <2>1, <2>2 DEF Scan
<1>4. CASE CountDown
  <2>1. numd = Cardinality(todo) + 1 /\ done = -1 /\ numd' = numd - 1
    BY <1>4 DEF CountDown, CountAgrees, TypeOK
  <2>2. IsFiniteSet(todo) /\ Cardinality(todo) \in Nat /\ (Cardinality(todo) = 0 <=> todo = {})
    BY ArraysFinite, FS_EmptySet, FS_CardinalityType DEF TypeOK
  <2>3. TypeOK'
    <3>1. numd' \in 0 .. N
      BY <2>1, <2>2, DataAssumption DEF TypeOK
    <3> QED BY <1>4, <3>1 DEF CountDown, TypeOK
  <2>4. CountAgrees'
    BY <1>4, <2>1, <2>2 DEF CountDown, CountAgrees
  <2>5. Located'
    BY <1>4 DEF CountDown, Located
  <2> QED BY <2>3, <2>4, <2>5
<1>5. CASE UNCHANGED vars
  BY <1>5 DEF vars, TypeOK, CountAgrees, Located
<1> QED BY <1>1, <1>2, <1>3, <1>4, <1>5 DEF Next, Over

(* The invariant behind the three theorems below.                          *)
THEOREM DataInvariance == Spec => []DInv
BY DataInit, DataStep, PTL DEF Spec

(* write_C's variables are what they should be: the count never goes below *)
(* zero or above the number of arrays, and data[] has offset bytes.        *)
THEOREM DataTypeCorrect == Spec => []TypeOK
BY DataInvariance, PTL DEF DInv

(* Every define of the generated program leads to its array.               *)
THEOREM DefinesLeadToArrays == Spec => []Located
BY DataInvariance, PTL DEF DInv

(* The emission loop stops only when nothing is left to print.             *)
THEOREM EmissionIsComplete == Spec => []AllPrinted
<1>1. DInv => AllPrinted
  BY DEF DInv, CountAgrees, AllPrinted
<1> QED BY <1>1, DataInvariance, PTL
=============================================================================
