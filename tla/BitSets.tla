------------------------------ MODULE BitSets -------------------------------
(***************************************************************************)
(* include/utils/BitSet.h (BitSet32 and BitSet64, by W) and the bit mask   *)
(* of include/cutils/bitops.h.  A word is the set of the weights of its    *)
(* bits; BitSet counts its bits from the top, bitops from the bottom.      *)
(***************************************************************************)
EXTENDS Integers, FiniteSets, FiniteSetsExt

CONSTANTS W,         \* the width of a BitSet
          Bits,      \* the indices clients mark and clear by number
          BITS_PER_WORD, num_bits

VARIABLES value,     \* the word of a BitSet
          marked,    \* the indices its client has marked and not cleared
          bitmask,   \* the words of a bit mask
          inUse      \* the resources handed out from it
bitVars == <<value, marked, bitmask, inUse>>

Word == 0 .. W - 1
(* The builtins, where they are defined.                                   *)
clz(w) == W - 1 - Max(w)
ctz(w) == Min(w)
popcount(w) == Cardinality(w)

Shr(w, n) == {b - n : b \in {c \in w : c >= n}}
valueForBit(n) == Shr({W - 1}, n)
isEmpty(w) == w = {}
isFull(w) == w = Word
hasBit(w, n) == w \cap valueForBit(n) # {}
firstMarkedBit(w) == clz(w)
firstUnmarkedBit(w) == clz(Word \ w)
lastMarkedBit(w) == W - 1 - ctz(w)
getIndexOfBit(w, n) == popcount(w \cap (Word \ Shr(Word, n)))

BitSetInit == value \in {{}, Word} /\ marked = IF value = {} THEN {} ELSE Word

(* Each takes the index it returns.                                        *)
markBit(n) == value' = value \cup valueForBit(n) /\ marked' = marked \cup {n}
clearBit(n) == value' = value \ valueForBit(n) /\ marked' = marked \ {n}
clear == value' = {} /\ marked' = {}
clearFirstMarkedBit == ~ isEmpty(value) /\ clearBit(firstMarkedBit(value))
markFirstUnmarkedBit == ~ isFull(value) /\ markBit(firstUnmarkedBit(value))
clearLastMarkedBit == ~ isEmpty(value) /\ clearBit(lastMarkedBit(value))
(* operator&= and operator|= with a set that has the bits ns.              *)
AndAssign(ns) == value' = value \cap UNION {valueForBit(n) : n \in ns} /\ marked' = marked \cap ns
OrAssign(ns) == value' = value \cup UNION {valueForBit(n) : n \in ns} /\ marked' = marked \cup ns

BitSetNext ==
  /\ \/ \E n \in Bits : markBit(n) \/ clearBit(n)
     \/ clear \/ clearFirstMarkedBit \/ markFirstUnmarkedBit \/ clearLastMarkedBit
     \/ AndAssign(Bits) \/ OrAssign(Bits)
  /\ UNCHANGED <<bitmask, inUse>>

(* The word is the set of marked indices, and first, last, count and       *)
(* getIndexOfBit answer about that set, with nothing outside the word.     *)
BitSetIsSet ==
  /\ \A n \in 0 .. W - 1 : hasBit(value, n) <=> n \in marked
  /\ popcount(value) = Cardinality(marked)
  /\ ~ isEmpty(value) => firstMarkedBit(value) = Min(marked) /\ lastMarkedBit(value) = Max(marked)
  /\ ~ isFull(value) => firstUnmarkedBit(value) = Min((0 .. W - 1) \ marked)
  /\ \A n \in Bits : getIndexOfBit(value, n) = Cardinality({m \in marked : m < n})
-----------------------------------------------------------------------------
BITS_TO_WORDS(x) == (x + BITS_PER_WORD - 1) \div BITS_PER_WORD
BIT_IN_WORD(x) == x % BITS_PER_WORD
BIT_WORD(x) == x \div BITS_PER_WORD
BIT_MASK(x) == {BIT_IN_WORD(x)}
MaskWord == 0 .. BITS_PER_WORD - 1

bitmask_init == [i \in 0 .. BITS_TO_WORDS(num_bits) - 1 |-> {}]

(* ffs(~word) is 0 for a full word, and the loop goes on.  The first zero  *)
(* may be past num_bits in the last word.                                  *)
bitmask_ffz(m) ==
  LET open == {i \in DOMAIN m : m[i] # MaskWord}
      result == BITS_PER_WORD * Min(open) + Min(MaskWord \ m[Min(open)])
  IN  IF open = {} \/ result >= num_bits THEN -1 ELSE result

bitmask_weight(m) == MapThenSumSet(LAMBDA i : popcount(m[i]), DOMAIN m)
bitmask_set(m, bit) == [m EXCEPT ![BIT_WORD(bit)] = @ \cup BIT_MASK(bit)]
bitmask_clear(m, bit) == [m EXCEPT ![BIT_WORD(bit)] = @ \ BIT_MASK(bit)]
bitmask_test(m, bit) == m[BIT_WORD(bit)] \cap BIT_MASK(bit) # {}

MaskInit == bitmask = bitmask_init /\ inUse = {}
(* The use the header's example shows.                                     *)
Acquire ==
  LET bit == bitmask_ffz(bitmask)
  IN  bit # -1 /\ bitmask' = bitmask_set(bitmask, bit) /\ inUse' = inUse \cup {bit}
Release(bit) == bitmask' = bitmask_clear(bitmask, bit) /\ inUse' = inUse \ {bit}
MaskNext == (Acquire \/ \E bit \in inUse : Release(bit)) /\ UNCHANGED <<value, marked>>

(* The mask knows exactly the resources in use, hands out only free ones   *)
(* below num_bits, and says -1 only when there is none.                    *)
MaskAllocates ==
  LET bit == bitmask_ffz(bitmask)
  IN  /\ \A b \in 0 .. num_bits - 1 : bitmask_test(bitmask, b) <=> b \in inUse
      /\ bitmask_weight(bitmask) = Cardinality(inUse)
      /\ IF bit = -1 THEN inUse = 0 .. num_bits - 1 ELSE bit \in (0 .. num_bits - 1) \ inUse
=============================================================================
