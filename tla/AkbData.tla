------------------------------ MODULE AkbData ------------------------------
(***************************************************************************)
(* The second half of write_C in akb_cc: the encrypted arrays are printed  *)
(* into one array data[] of the generated program, in random order and     *)
(* with random bytes before and after each, and a #define tells where each *)
(* of them is.  The program finds its cipher text through these defines.   *)
(*                                                                         *)
(* Arrays are the cases 0 .. N-1 of the switch (N is 15 in the code); a    *)
(* byte of data is which byte of which array it is, or noise.              *)
(***************************************************************************)
EXTENDS Integers, FiniteSets

CONSTANTS
  N,       \* number of arrays
  Size,    \* Size[a]: bytes of array a, with the final 0
  RandMax  \* RAND_MAX

Arrays == 0 .. (N - 1)

ASSUME DataAssumption ==
  /\ N \in Nat \ {0}
  /\ Size \in [Arrays -> Nat \ {0}]
  /\ RandMax \in Nat /\ RandMax >= N /\ \A a \in Arrays : RandMax > Size[a] \div 4

-----------------------------------------------------------------------------
(* Random numbers *)

(* rand is called until the result is below top, a multiple of mod.        *)
Top(mod) == RandMax - (RandMax % mod)

(* Every result rand_mod(mod) may have.                                    *)
rand_mod(mod) == {(mod * rnd) \div (1 + Top(mod)) : rnd \in 0 .. (Top(mod) - 1)}

-----------------------------------------------------------------------------
VARIABLES
  pc,      \* "encrypt", "pick", "scan", "count", "end"
  next,    \* the array to encrypt next
  todo,    \* arrays with a length >= 0: those that are not printed
  numd,    \* how many arrays are left, by write_C's count
  done,    \* -1 when the inner loop has printed an array
  indx,    \* the case the switch starts at
  offset,  \* bytes of data so far
  define,  \* the #define of each array
  data     \* the bytes printed

vars == <<pc, next, todo, numd, done, indx, offset, define, data>>

Noise == <<-1, 0>>

Init ==
  /\ pc = "encrypt" /\ next = 0
  /\ todo = Arrays /\ numd = 0 /\ done = 0 /\ indx = 0
  /\ offset = 0 /\ define = [a \in Arrays |-> 0]
  /\ data = [k \in {} |-> Noise]

(* Mutant: the optional array is not counted.                              *)
Counted_LastMissing(n, a) == IF a = N - 1 THEN n ELSE n + 1

(* Mutant: an array is counted twice.                                      *)
Counted_Twice(n, a) == IF a = 0 THEN n + 2 ELSE n + 1

(* numd++ after each arc4.                                                 *)
Counted(n, a) == n + 1

Encrypt ==
  /\ pc = "encrypt"
  /\ IF next < N
       THEN next' = next + 1 /\ numd' = Counted(numd, next) /\ UNCHANGED pc
       ELSE pc' = "pick" /\ UNCHANGED <<next, numd>>
  /\ UNCHANGED <<todo, done, indx, offset, define, data>>

(* The outer loop starts a round at a random case.                         *)
Pick ==
  /\ pc = "pick"
  /\ done' = 0 /\ indx' \in rand_mod(N)
  /\ pc' = "scan"
  /\ UNCHANGED <<next, todo, numd, offset, define, data>>

(* Mutant: the padding in front is not counted.                            *)
Place_NoPadding(m) == offset

(* Where an array starts that has m random bytes in front of it.           *)
Place(m) == offset + m

(* prnt_array without a cast, as in all its uses, and prnt_bytes.          *)
prnt_array(a) ==
  LET l == Size[a] IN
  \E m, n \in rand_mod(1 + l \div 4) :
    /\ define' = [define EXCEPT ![a] = Place(m)]
    /\ data' = [k \in 0 .. (offset + m + l + n - 1) |->
                  IF k < offset THEN data[k]
                  ELSE IF k - offset >= m /\ k - offset < m + l
                         THEN <<a, k - offset - m>> ELSE Noise]
    /\ offset' = offset + m + l + n

(* Mutant: a switch that found nothing is entered at the same case again.  *)
Restart_Same == indx

(* The case where the switch starts when it is entered again.              *)
Restart == 0

(* The switch falls through from case indx to the first array that is not  *)
(* yet printed.                                                            *)
Scan ==
  /\ pc = "scan"
  /\ \/ /\ \A a \in todo : a < indx
        /\ UNCHANGED <<pc, todo, done, offset, define, data>>
     \/ \E a \in todo :
          /\ a >= indx /\ \A b \in todo : b >= indx => a <= b
          /\ prnt_array(a)
          /\ todo' = todo \ {a} /\ done' = -1
          /\ pc' = "count"
  /\ indx' = Restart
  /\ UNCHANGED <<next, numd>>

(* while (numd += done)                                                    *)
CountDown ==
  /\ pc = "count"
  /\ numd' = numd + done
  /\ pc' = IF numd' # 0 THEN "pick" ELSE "end"
  /\ UNCHANGED <<next, todo, done, indx, offset, define, data>>

Over == pc = "end" /\ UNCHANGED vars

Next == Encrypt \/ Pick \/ Scan \/ CountDown \/ Over

(* A single-threaded program goes on.                                      *)
Spec == Init /\ [][Next]_vars /\ WF_vars(Encrypt \/ Pick \/ Scan \/ CountDown)

-----------------------------------------------------------------------------
(* Properties *)

(* Types.  The count of write_C stays within bounds, the switch has a case *)
(* for indx, and data has exactly offset bytes.                            *)
TypeOK ==
  /\ pc \in {"encrypt", "pick", "scan", "count", "end"}
  /\ next \in 0 .. N /\ todo \subseteq Arrays /\ numd \in 0 .. N /\ done \in {0, -1}
  /\ indx \in Arrays /\ offset \in Nat /\ define \in [Arrays -> Nat]
  /\ data \in [0 .. (offset - 1) -> ({-1} \cup Arrays) \X Nat]

(* What the generated program reads through the define of an array is that *)
(* array, byte for byte, whatever is printed before and after it: defines, *)
(* padding and offset agree, and no two arrays overlap.                    *)
Located ==
  \A a \in Arrays \ todo : \A k \in 0 .. (Size[a] - 1) :
    define[a] + k < offset /\ data[define[a] + k] = <<a, k>>

(* The loop ends with every array printed: the count that write_C keeps    *)
(* by hand, one numd++ after each arc4, is the number of arrays.           *)
AllPrinted == pc = "end" => todo = {}

(* The count and the arrays that are left, at each point of the loop:      *)
(* inductive together with TypeOK.                                         *)
CountAgrees ==
  /\ pc = "encrypt" => numd = next /\ todo = Arrays
  /\ pc \in {"pick", "scan"} => numd = Cardinality(todo) /\ numd > 0
  /\ pc = "count" => numd = Cardinality(todo) + 1 /\ done = -1
  /\ pc = "end" => numd = 0 /\ todo = {}

(* ... and it does end, although a round may start behind all arrays that  *)
(* are left.                                                               *)
Finishes == <>(pc = "end")
-----------------------------------------------------------------------------
(* For TLC: five arrays, with up to two bytes of padding on each side.     *)
MCSize == [a \in Arrays |-> CASE a = 0 -> 8 [] a = 1 -> 1 [] a = 2 -> 4 [] a = 3 -> 2 [] OTHER -> 5]
=============================================================================
