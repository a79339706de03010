------------------------------ MODULE Strings -------------------------------
(***************************************************************************)
(* include/utils/String8.h and String16.h: what the inline operators do    *)
(* with the functions of String8.cpp, String16.cpp and Unicode.cpp, which  *)
(* are external.  A string is a sequence of units, and a unit of it may be *)
(* 0, for a length can be given to setTo and append; a C string ends at    *)
(* its first 0.                                                            *)
(***************************************************************************)
EXTENDS Integers, Sequences, SequencesExt, FiniteSetsExt

CONSTANTS Units,     \* numbers, 0 among them
          Variables, \* of the client
          MaxSize    \* bound on the size of a string

VARIABLES mString8, mString16  \* the contents of every variable
stringVars == <<mString8, mString16>>

Contents == UNION {[1 .. n -> Units] : n \in 0 .. MaxSize}
Literals == {s \in Contents : 0 \notin Range(s)}

(* strcmp, strcmp16 and strzcmp16: the sign of the first difference, where *)
(* the shorter of two strings is the smaller one.                          *)
CString(s) ==
  LET zeros == {i \in DOMAIN s : s[i] = 0}
  IN  IF zeros = {} THEN s ELSE SubSeq(s, 1, Min(zeros) - 1)
Difference(s, t) ==
  LET n == Min({Len(s), Len(t)})
      at == {i \in 1 .. n : s[i] # t[i]}
  IN  IF at = {} THEN Len(s) - Len(t) ELSE s[Min(at)] - t[Min(at)]
strcmp(s, t) == Difference(CString(s), CString(t))
strcmp16(s, t) == strcmp(s, t)


strzcmp16(s, t) == Difference(s, t)


Operators(c) == [lt |-> c < 0, le |-> c <= 0, eq |-> c = 0, ne |-> c # 0, ge |-> c >= 0, gt |-> c > 0]

(* The six operators, with a string and with a C string.                   *)
compare8(s, t) == Operators(strcmp(s, t))
compare8_c(s, c) == Operators(strcmp(s, c))
compare16(s, t) == Operators(strzcmp16(s, t))
compare16_c(s, c) == Operators(strcmp16(s, c))

(* What SortedVector orders strings by.                                    *)
compare_type8(s, t) == strcmp(s, t)
strictly_order_type8(s, t) == compare_type8(s, t) < 0
compare_type16(s, t) == strzcmp16(s, t)
strictly_order_type16(s, t) == compare_type16(s, t) < 0

size8(s) == Len(s)
isEmpty8(s) == Len(s) = 0
string8(s) == CString(s)
string16(s) == CString(s)
append(s, t) == s \o t
plus8(s, t) == LET tmp == s IN append(tmp, t)
plus8_c(s, c) == LET tmp == s IN append(tmp, string8(c))
plus16(s, t) == LET tmp == s IN append(tmp, t)
-----------------------------------------------------------------------------
Init ==
  /\ mString8 = [v \in Variables |-> <<>>] /\ mString16 = [v \in Variables |-> <<>>]

Set8(v, s) == Len(s) <= MaxSize /\ mString8' = [mString8 EXCEPT ![v] = s] /\ UNCHANGED mString16
Set16(v, s) == Len(s) <= MaxSize /\ mString16' = [mString16 EXCEPT ![v] = s] /\ UNCHANGED mString8

(* setTo with a length, from memory of the client.                         *)
setTo8(v, s) == Set8(v, s)
setTo16(v, s) == Set16(v, s)
assign8(v, w) == Set8(v, mString8[w])
assign8_c(v, w) == Set8(v, string8(mString8[w]))
assign16(v, w) == Set16(v, mString16[w])
append8(v, w) == Set8(v, plus8(mString8[v], mString8[w]))
append8_c(v, w) == Set8(v, plus8_c(mString8[v], mString8[w]))
append16(v, w) == Set16(v, plus16(mString16[v], mString16[w]))

Next ==
  \E v \in Variables :
    \/ \E s \in Contents : setTo8(v, s) \/ setTo16(v, s)
    \/ \E w \in Variables : \/ assign8(v, w) \/ assign8_c(v, w) \/ append8(v, w) \/ append8_c(v, w)
                            \/ assign16(v, w) \/ append16(v, w)
-----------------------------------------------------------------------------
Consistent(o) ==
  /\ Cardinality({x \in {"lt", "eq", "gt"} : o[x]}) = 1
  /\ o.le = ~o.gt /\ o.ge = ~o.lt /\ o.ne = ~o.eq

(* The operators say one thing about two strings, and what they say of two *)
(* is turned round for the same two the other way round; with the order of *)
(* SortedVector, strings that are neither before nor after each other are  *)
(* the ones that compare equal, and the order goes through a third string. *)
StringsAreOrdered ==
  /\ \A v, w \in Variables :
       LET s == mString8[v]  t == mString8[w]
       IN  /\ Consistent(compare8(s, t)) /\ compare8(s, t).lt = compare8(t, s).gt
           /\ compare8(s, t).lt = strictly_order_type8(s, t)
           /\ compare8_c(s, string8(t)) = compare8(s, t)
           /\ \A l \in Literals : strictly_order_type8(s, l) /\ strictly_order_type8(l, t) => strictly_order_type8(s, t)
  /\ \A v, w \in Variables :
       LET s == mString16[v]  t == mString16[w]
       IN  /\ Consistent(compare16(s, t)) /\ compare16(s, t).lt = compare16(t, s).gt
           /\ compare16(s, t).lt = strictly_order_type16(s, t)
           /\ \A l \in Literals : strictly_order_type16(s, l) /\ strictly_order_type16(l, t) => strictly_order_type16(s, t)

(* Strings that compare equal are the same and stay so when the same is    *)
(* appended to both: always for String16, and for String8 where neither    *)
(* has a 0 in it; with one, it is equal to its C string, and may be equal  *)
(* to "" although isEmpty says no.  A String16 is equal to a C string when *)
(* it has no 0 behind what they share.                                     *)
EqualMeansSame ==
  /\ \A v, w \in Variables :
       LET s == mString8[v]  t == mString8[w]
       IN  /\ compare8_c(s, string8(s)).eq
           /\ s \in Literals /\ t \in Literals /\ compare8(s, t).eq =>
                /\ size8(s) = size8(t)
                /\ \A l \in Literals : compare8(plus8(s, l), plus8(t, l)).eq /\ compare8(plus8_c(s, l), plus8(t, l)).eq
           /\ s \in Literals => (compare8_c(s, <<>>).eq <=> isEmpty8(s))
  /\ \A v, w \in Variables :
       LET s == mString16[v]  t == mString16[w]
       IN  /\ compare16(s, t).eq => \A l \in Literals : compare16(plus16(s, l), plus16(t, l)).eq /\ s = t
           /\ compare16_c(s, string16(t)).eq <=> string16(s) = string16(t)
           /\ (compare16(s, t).eq <=> compare16_c(s, string16(t)).eq) \/ 0 \in Range(s) \cup Range(t)
=============================================================================
