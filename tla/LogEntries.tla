----------------------------- MODULE LogEntries -----------------------------
(***************************************************************************)
(* Log records as bytes: the four versions of struct logger_entry that a   *)
(* reader sees through one union, struct log_msg (log/logger.h), the       *)
(* packed headers of logd and pstore (private/android_logger.h), and       *)
(* log_time with its wire format (log/log_read.h).  A byte has R values.   *)
(* The kernel driver and logd, which write the records, are external.      *)
(***************************************************************************)
EXTENDS Integers, Sequences, SequencesExt, FiniteSetsExt

CONSTANTS
  R,           \* number of values of a byte
  NS_PER_SEC,
  MaxPayload,  \* LOGGER_ENTRY_MAX_PAYLOAD
  MaxLen,      \* LOGGER_ENTRY_MAX_LEN
  Secs, Nsecs, \* times of entries
  Ids,         \* ids of logs
  Payloads     \* sequences of bytes

VARIABLES
  logged,     \* the last two entries, as they were written
  log_msg,    \* their bytes in the reader's union
  stamped     \* the last record sent to logd or pstore, and its bytes

logVars == <<logged, log_msg, stamped>>

-----------------------------------------------------------------------------
(* A packed structure is a sequence of fields with their widths.           *)
Field(name, width) == [name |-> name, width |-> width]

logger_entry ==
  <<Field("len", 2), Field("hdr_size", 2), Field("pid", 4), Field("tid", 4), Field("sec", 4),
    Field("nsec", 4)>>
logger_entry_v2 == Append(logger_entry, Field("euid", 4))
logger_entry_v3 == Append(logger_entry, Field("lid", 4))
logger_entry_v4 == Append(logger_entry_v3, Field("uid", 4))
Versions == <<logger_entry, logger_entry_v2, logger_entry_v3, logger_entry_v4>>

android_log_header_t == <<Field("id", 1), Field("tid", 2), Field("sec", 4), Field("nsec", 4)>>
android_pmsg_log_header_t ==
  <<Field("magic", 1), Field("len", 2), Field("uid", 2), Field("pid", 2)>>

(* An event: its tag, the type of the payload, and a number or a string.   *)
android_event_header_t == <<Field("tag", 4)>>
android_log_event_int_t == android_event_header_t \o <<Field("type", 1), Field("data", 4)>>
android_log_event_long_t == android_event_header_t \o <<Field("type", 1), Field("data", 8)>>
android_log_event_string_t == android_event_header_t \o <<Field("type", 1), Field("length", 4)>>

Sum(widths) == FoldLeft(LAMBDA a, b : a + b, 0, widths)
Width(layout) == [i \in DOMAIN layout |-> layout[i].width]
sizeof(layout) == Sum(Width(layout))
offsetof(layout, i) == Sum(SubSeq(Width(layout), 1, i - 1))
IndexOf(layout, name) == CHOOSE i \in DOMAIN layout : layout[i].name = name

(* Little endian.                                                          *)
Bytes(value, width) == [k \in 1 .. width |-> (value \div R ^ (k - 1)) % R]
Number(bytes) == FoldRight(LAMBDA b, n : b + R * n, bytes, 0)

(* A structure's bytes, and the field of a structure that lies over bytes. *)
Put(layout, rec) == FlattenSeq([i \in DOMAIN layout |-> Bytes(rec[layout[i].name], layout[i].width)])
Get(buf, layout, name) ==
  LET i == IndexOf(layout, name)
      o == offsetof(layout, i)
  IN  Number(SubSeq(buf, o + 1, o + layout[i].width))

-----------------------------------------------------------------------------
(* struct log_msg: all versions are read as the fourth.                    *)
entry(m, name) == Get(m, logger_entry_v4, name)

log_time(sec, nsec) == [tv_sec |-> sec % R ^ 4, tv_nsec |-> nsec % R ^ 4]


(* The constructor from the wire: four bytes, shifted and or-ed, twice.    *)
log_time_wire(c) == log_time(Number(SubSeq(c, 1, 4)), Number(SubSeq(c, 5, 8)))

TimeOf(m) == log_time(entry(m, "sec"), entry(m, "nsec"))


(* The operators of log_time, which those of log_msg repeat.               *)
Before(a, b) == a.tv_sec < b.tv_sec \/ (a.tv_sec = b.tv_sec /\ a.tv_nsec < b.tv_nsec)
Equal(a, b) == a.tv_sec = b.tv_sec /\ a.tv_nsec = b.tv_nsec
After(a, b) == a.tv_sec > b.tv_sec \/ (a.tv_sec = b.tv_sec /\ a.tv_nsec > b.tv_nsec)
NotBefore(a, b) == ~Before(a, b)
NotAfter(a, b) == ~After(a, b)
Differs(a, b) == ~Equal(a, b)

nsec(t) == t.tv_sec * NS_PER_SEC + t.tv_nsec

(* The time of a struct timespec, whose seconds are wider.                 *)
log_time_timespec(T) == log_time(T.tv_sec, T.tv_nsec)
compare_timespec(t, T) ==
  LET u == log_time_timespec(T)
  IN  [lt |-> Before(t, u), eq |-> Equal(t, u), gt |-> After(t, u),
       ge |-> ~Before(t, u), ne |-> ~Equal(t, u), le |-> ~After(t, u)]

log_msg_less(m, n) == Before(TimeOf(m), TimeOf(n))
log_msg_equal(m, n) == Equal(TimeOf(m), TimeOf(n))
log_msg_greater(m, n) == After(TimeOf(m), TimeOf(n))
log_msg_nsec(m) == nsec(TimeOf(m))
id(m) == entry(m, "lid")


(* The header: version 1 has padding where the others have their size.     *)
Header(m) ==
  IF entry(m, "hdr_size") # 0 THEN entry(m, "hdr_size") ELSE sizeof(logger_entry)

msg(m) == SubSeq(m, Header(m) + 1, Header(m) + entry(m, "len"))
len(m) == Header(m) + entry(m, "len")

-----------------------------------------------------------------------------
(* An entry that version v of the writer makes.                            *)
Record(v, e) ==
  [len |-> Len(e.text), hdr_size |-> IF v = 1 THEN 0 ELSE sizeof(Versions[v]),
   pid |-> e.id, tid |-> e.id, sec |-> e.sec, nsec |-> e.nsec,
   euid |-> R - 1 - e.id, lid |-> e.id, uid |-> R - 1 - e.id]
Entries == [text : Payloads, sec : Secs, nsec : Nsecs, id : Ids]

NoEntry == [v |-> 0]
Known(i) == logged[i].v # 0

Init ==
  /\ logged = <<NoEntry, NoEntry>> /\ log_msg = <<<<>>, <<>>>>
  /\ stamped = <<>>

(* The union is larger than the entry; what follows the entry is old.      *)
Receive(v, e, old) ==
  /\ ~Known(2) /\ stamped = <<>>
  /\ logged' = <<[v |-> v, e |-> e], logged[1]>>
  /\ LET written == Put(Versions[v], Record(v, e)) \o e.text
     IN  log_msg' = <<written \o [k \in 1 .. MaxLen + 1 - Len(written) |-> old], log_msg[1]>>
  /\ UNCHANGED stamped

(* The events of the three types, and what they carry of e.                *)
Event(kind) ==
  CASE kind = "int" -> android_log_event_int_t
    [] kind = "long" -> android_log_event_long_t
    [] kind = "string" -> android_log_event_string_t
Carried(kind, e) ==
  CASE kind = "int" -> e.sec [] kind = "long" -> nsec(log_time(e.sec, e.nsec))
    [] kind = "string" -> Len(e.text)
EventBytes(kind, e) ==
  Put(Event(kind), [tag |-> e.id, type |-> 1, data |-> Carried(kind, e), length |-> Carried(kind, e)])
  \o (IF kind = "string" THEN e.text ELSE <<>>)

(* What a writer sends to logd, and with another header to pstore.         *)
Send(kind, e) ==
  /\ ~Known(1) /\ stamped = <<>>
  /\ LET event == EventBytes(kind, e)
         header == [id |-> e.id, tid |-> e.id, sec |-> e.sec, nsec |-> e.nsec]
         pmsg == [magic |-> 1, uid |-> R - 1 - e.id, pid |-> e.id,
                  len |-> sizeof(android_pmsg_log_header_t) + sizeof(android_log_header_t)
                          + Len(event)]
     IN  stamped' = <<kind, e, Put(android_pmsg_log_header_t, pmsg)
                               \o Put(android_log_header_t, header) \o event>>
  /\ UNCHANGED <<logged, log_msg>>

Next ==
  \/ \E v \in 1 .. 4, e \in Entries, old \in {0, R - 1} : Receive(v, e, old)
  \/ \E kind \in {"int", "long", "string"}, e \in Entries : Send(kind, e)

-----------------------------------------------------------------------------
Time(e) == e.sec * NS_PER_SEC + e.nsec

(* Whatever version wrote it, the reader finds the payload and the length  *)
(* of the entry, and the log of the versions that have one; the buffer     *)
(* holds the longest entry and a 0 behind it.                              *)
PayloadIsFound ==
  Known(1) =>
    LET m == log_msg[1]
        e == logged[1].e
    IN  /\ msg(m) = e.text /\ len(m) = sizeof(Versions[logged[1].v]) + Len(e.text)
        /\ len(m) < Len(m)
        /\ logged[1].v > 2 => id(m) = e.id

(* Entries of all versions are in the order of their times: the three      *)
(* comparisons, their negations and nsec() agree about any two of them.    *)
OrderedByTime ==
  Known(1) /\ Known(2) =>
    LET m == log_msg[1]  a == TimeOf(m)
        n == log_msg[2]  b == TimeOf(n)
        t == Time(logged[1].e)
        u == Time(logged[2].e)
    IN  /\ log_msg_less(m, n) <=> t < u
        /\ log_msg_equal(m, n) <=> t = u
        /\ log_msg_greater(m, n) <=> t > u
        /\ NotBefore(a, b) <=> t >= u
        /\ NotAfter(a, b) <=> t <= u
        /\ Differs(a, b) <=> t # u
        /\ log_msg_nsec(m) = t

(* The time that a record carries behind two packed headers is the one its *)
(* reader takes from the bytes, over the whole range of 32 bits, and every *)
(* timespec compares with it as the times do; the event behind is whole.   *)
TimeOnTheWire ==
  stamped # <<>> =>
    LET kind == stamped[1]  e == stamped[2]  pmsg == stamped[3]
        header == SubSeq(pmsg, sizeof(android_pmsg_log_header_t) + 1, Len(pmsg))
        event == SubSeq(header, sizeof(android_log_header_t) + 1, Len(header))
        t == log_time_wire(SubSeq(header, offsetof(android_log_header_t, 3) + 1, Len(header)))
    IN  /\ nsec(t) = Time(e)
        /\ \A sec \in Secs, ns \in Nsecs :
             LET c == compare_timespec(t, [tv_sec |-> sec, tv_nsec |-> ns])
                 u == sec * NS_PER_SEC + ns
             IN  c = [lt |-> Time(e) < u, eq |-> Time(e) = u, gt |-> Time(e) > u,
                      ge |-> Time(e) >= u, ne |-> Time(e) # u, le |-> Time(e) <= u]
        /\ Get(pmsg, android_pmsg_log_header_t, "len") = Len(pmsg)
        /\ Get(event, Event(kind), IF kind = "string" THEN "length" ELSE "data") = Carried(kind, e)
        /\ kind = "string" => SubSeq(event, sizeof(Event(kind)) + 1, Len(event)) = e.text
=============================================================================
