---------------------------- MODULE Flattenables ----------------------------
(***************************************************************************)
(* utils/Flattenable.h: an object that writes its parts and descriptors    *)
(* into the sender's buffer with FlattenableUtils, the copy of the buffer, *)
(* and the object that reads them at the receiver.  Buffers are passed by  *)
(* reference: what flatten and unflatten leave in buffer, size, fds and    *)
(* count is where the next object goes on.  The object is external; it     *)
(* follows the protocol that the header's comments state.                  *)
(***************************************************************************)
EXTENDS Loops, SequencesExt

CONSTANTS
  Align,     \* template parameter N of align
  Parts,     \* sizes of the parts that objects have
  MaxParts,
  Fds,       \* numbers of descriptors that objects have
  Bases,     \* addresses of buffers
  Sizes,     \* sizes of buffers
  SizeMax    \* 2^64: size_t wraps

VARIABLES
  flatPc,   \* next step
  object,   \* the sender's object: sizes of its parts, number of descriptors
  sent,     \* the sender's memory and references
  got,      \* the receiver's, and the object it has made
  status    \* result of the last call

flatVars == <<flatPc, object, sent, got, status>>

NO_ERROR == "NO_ERROR"
NO_MEMORY == "NO_MEMORY"

(* (x + N - 1) & ~(N - 1), for a power of 2.                               *)
RoundUp(x) == ((x + Align - 1) \div Align) * Align

(* Mutant: the rest of the size is not brought up to date.                 *)
advance_BufferOnly(m, offset) == [m EXCEPT !.buffer = @ + offset]

advance(m, offset) == [m EXCEPT !.buffer = @ + offset, !.size = (@ - offset) % SizeMax]

(* align of an address: the padding is the caller's to take off the size.  *)
align(m) ==
  LET b == RoundUp(m.buffer) IN [m EXCEPT !.size = (@ - (b - m.buffer)) % SizeMax, !.buffer = b]

(* A value of some bytes at the address, tagged by its place.              *)
Cells(m, value, size) ==
  [a \in m.buffer .. m.buffer + size - 1 |-> <<value, a - m.buffer>>]

write(m, value, size) == advance([m EXCEPT !.cells = Cells(m, value, size) @@ @], size)

read(m, size) ==
  advance([m EXCEPT !.values = Append(@, [k \in 1 .. size |-> m.cells[m.buffer + k - 1]])], size)

-----------------------------------------------------------------------------
(* The protocol, as an object implements it.                               *)
getFlattenedSize(o) ==
  IF o.pod THEN o.parts[1] ELSE FoldLeft(LAMBDA n, size : n + RoundUp(size), 0, o.parts)
getFdCount(o) == o.fds

WriteFd(k, m) ==
  [m EXCEPT !.table = Append(@, k), !.fds = @ + 1, !.count = @ - 1]
ReadFd(k, m) ==
  [m EXCEPT !.values = Append(@, m.table[m.fds + 1]), !.fds = @ + 1, !.count = @ - 1]

TooSmall(m, o) == m.size < getFlattenedSize(o) \/ m.count < getFdCount(o)

(* Each part in turn, the next one aligned; then the descriptors.          *)
FlattenParts(m, o) ==
  LET Part(k, x) == align(write(x, k, o.parts[k]))
  IN  Loop(WriteFd, Loop(Part, m, Len(o.parts)), o.fds)
UnflattenParts(m, o) ==
  LET Part(k, x) == align(read(x, o.parts[k]))
  IN  Loop(ReadFd, Loop(Part, m, Len(o.parts)), o.fds)


(* LightFlattenablePod: one part; unflatten does not look at the size.     *)
pod_flatten(m, size) ==
  IF m.size < size THEN [m |-> m, status |-> NO_MEMORY]
  ELSE [m |-> [m EXCEPT !.cells = Cells(m, 1, size) @@ @], status |-> NO_ERROR]
pod_unflatten(m, size) ==
  [m |-> [m EXCEPT !.values = <<[k \in 1 .. size |-> m.cells[m.buffer + k - 1]]>>],
   status |-> NO_ERROR]

-----------------------------------------------------------------------------
Objects ==
  [parts : UNION {[1 .. n -> Parts] : n \in 0 .. MaxParts}, fds : Fds, pod : {FALSE}]
    \cup [parts : [1 .. 1 -> Parts], fds : {0}, pod : {TRUE}]

Old == "old"
Memory(base, size, count) ==
  [base |-> base, room |-> size, cells |-> [a \in base .. base + size - 1 |-> Old],
   table |-> <<>>, buffer |-> base, size |-> size, fds |-> 0, count |-> count, values |-> <<>>]

Init ==
  /\ object \in Objects
  /\ \E base \in Bases, size \in Sizes, count \in Fds : sent = Memory(base, size, count)
  /\ got = Memory(0, 0, 0) /\ flatPc = "flatten" /\ status = NO_ERROR

flatten ==
  /\ flatPc = "flatten"
  /\ LET r == IF object.pod THEN pod_flatten(sent, object.parts[1])
              ELSE IF TooSmall(sent, object) THEN [m |-> sent, status |-> NO_MEMORY]
              ELSE [m |-> FlattenParts(sent, object), status |-> NO_ERROR]
     IN  sent' = r.m /\ status' = r.status
  /\ flatPc' = IF status' = NO_ERROR THEN "transfer" ELSE "done"
  /\ UNCHANGED <<object, got>>

(* The receiver's buffer is as long as the flattened object.               *)
Transfer(base) ==
  /\ flatPc = "transfer"
  /\ LET size == getFlattenedSize(object)
         new == Memory(base, size, getFdCount(object))
         bytes == [a \in base .. base + size - 1 |-> sent.cells[a - base + sent.base]]
     IN  got' = [new EXCEPT !.cells = bytes, !.table = sent.table]
  /\ flatPc' = "unflatten" /\ UNCHANGED <<object, sent, status>>

unflatten ==
  /\ flatPc = "unflatten"
  /\ LET r == IF object.pod THEN pod_unflatten(got, object.parts[1])
              ELSE [m |-> UnflattenParts(got, object), status |-> NO_ERROR]
     IN  got' = r.m /\ status' = r.status
  /\ flatPc' = "done" /\ UNCHANGED <<object, sent>>

Next == flatten \/ (\E base \in Bases : Transfer(base)) \/ unflatten

-----------------------------------------------------------------------------
(* flatten never writes outside of the buffer it was given, and one that   *)
(* has no room leaves the buffer and the references alone.                 *)
StaysInBuffer ==
  /\ DOMAIN sent.cells = sent.base .. sent.base + sent.room - 1
  /\ status = NO_MEMORY => sent = Memory(sent.base, sent.room, sent.count)

(* What was flattened is what unflatten reads, part by part, and both leave*)
(* the references behind the object, the rest of the size still right.     *)
ObjectArrives ==
  flatPc = "done" /\ status = NO_ERROR =>
    /\ \A k \in DOMAIN object.parts :
         got.values[k] = [b \in 1 .. object.parts[k] |-> <<k, b - 1>>]
    /\ \A k \in 1 .. object.fds : got.values[Len(object.parts) + k] = k
    /\ ~object.pod =>
         /\ got.size = 0 /\ got.count = 0 /\ got.fds = object.fds
         /\ got.buffer = got.base + getFlattenedSize(object)
         /\ sent.buffer - sent.base = got.buffer - got.base
=============================================================================
