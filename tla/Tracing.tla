------------------------------ MODULE Tracing -------------------------------
(***************************************************************************)
(* cutils/trace.h: threads that trace while the process gets ready for it. *)
(* atrace_setup, which runs once (external), opens the marker file, reads  *)
(* the property with the enabled tags and at last says that it is done;    *)
(* atrace_update_tags changes the tags later.  Only atrace_is_ready is     *)
(* atomic.                                                                 *)
(***************************************************************************)
EXTENDS WeakMemory, FiniteSets

CONSTANTS Tracers,    \* the threads
          MaxUpdates  \* bound on the changes of the tags

VARIABLES once,     \* of atrace_setup: "new", the thread that runs it, or "done"
          call,     \* of a thread: the step of the call it is in
          memory,
          tags,     \* of a thread: the tags it has read
          output,   \* of a thread: the descriptors it has written to
          updates
traceVars == <<once, call, memory, tags, output, updates>>

ready == "atrace_is_ready"
enabled == "atrace_enabled_tags"
fd == "atrace_marker_fd"
NotReady == {"ATRACE_TAG_NOT_READY"}
Tag == "tag"
Marker == 3

Init ==
  /\ once = "new" /\ updates = 0
  /\ memory = Memory(Tracers, [l \in {ready, enabled, fd} |->
                                 CASE l = ready -> 0 [] l = enabled -> NotReady [] l = fd -> -1])
  /\ call = [t \in Tracers |-> "none"] /\ tags = [t \in Tracers |-> {}]
  /\ output = [t \in Tracers |-> {}]

Goes(t, c, x) == call' = [call EXCEPT ![t] = c] /\ memory' = x

(* Mutant: the flag is read like the plain variables.                      *)
IsReady_Relaxed(t) == loads(memory, t, ready, "relaxed")

IsReady(t) == loads(memory, t, ready, "acquire")

(* Every trace function begins here.                                       *)
atrace_init(t) ==
  /\ call[t] = "none"
  /\ \E r \in IsReady(t) : Goes(t, IF r.val = 0 THEN "setup" ELSE "tags", r.m)
  /\ UNCHANGED <<once, tags, output, updates>>

(* pthread_once: a thread waits for the one that runs it, and then knows   *)
(* what that one has done.  The file may be missing.                       *)
atrace_setup(t) ==
  /\ call[t] = "setup"
  /\ \/ once = "new" /\ once' = t /\ \E f \in {Marker, -1} : Goes(t, "setup tags", store(memory, t, fd, f, "relaxed"))
     \/ once = "done" /\ once' = once
        /\ Goes(t, "tags", Learn(memory, t, ready, Len(memory.hist[ready]), "acquire"))
  /\ UNCHANGED <<tags, output, updates>>
SetupTags(t) ==
  /\ call[t] = "setup tags"
  /\ \E s \in IF last(memory, fd) = -1 THEN {{}} ELSE {{}, {Tag}} :
       Goes(t, "setup ready", store(memory, t, enabled, s, "relaxed"))
  /\ UNCHANGED <<once, tags, output, updates>>
SetupReady(t) ==
  /\ call[t] = "setup ready"
  /\ Goes(t, "tags", store(memory, t, ready, 1, "release")) /\ once' = "done"
  /\ UNCHANGED <<tags, output, updates>>

(* The property changes: "if tracing is ready", which does not mean that   *)
(* the setup was successful.                                               *)
atrace_update_tags(t) ==
  /\ call[t] = "none" /\ updates < MaxUpdates
  /\ \E r \in loads(memory, t, ready, "acquire") : r.val = 1
  /\ \E s \in {{}, {Tag}} :
       LET x == Learn(memory, t, ready, Len(memory.hist[ready]), "acquire")
       IN  Goes(t, "none", store(x, t, enabled, s, "relaxed"))
  /\ updates' = updates + 1
  /\ UNCHANGED <<once, tags, output>>

(* atrace_get_enabled_tags, atrace_is_tag_enabled: what the functions of   *)
(* the header ask before they write.                                       *)
atrace_get_enabled_tags(t) ==
  /\ call[t] = "tags"
  /\ \E r \in loads(memory, t, enabled, "relaxed") :
       /\ tags' = [tags EXCEPT ![t] = r.val]
       /\ Goes(t, IF Tag \in r.val THEN "write" ELSE "none", r.m)
  /\ UNCHANGED <<once, output, updates>>

(* atrace_end writes to the marker; the others do in their _body.          *)
atrace_write(t) ==
  /\ call[t] = "write"
  /\ \E r \in loads(memory, t, fd, "relaxed") :
       /\ output' = [output EXCEPT ![t] = @ \cup {r.val}]
       /\ Goes(t, "none", r.m)
  /\ UNCHANGED <<once, tags, updates>>

Next ==
  \E t \in Tracers :
    \/ atrace_init(t) \/ atrace_setup(t) \/ SetupTags(t) \/ SetupReady(t) \/ atrace_update_tags(t)
    \/ atrace_get_enabled_tags(t) \/ atrace_write(t)
-----------------------------------------------------------------------------
(* Whatever other threads set up or change at the same time, a thread that *)
(* has passed atrace_init reads tags that were set, and writes only to the *)
(* descriptor that the setup has left: the acquire load of atrace_is_ready *)
(* is all that orders the plain variables.  That descriptor is -1 only     *)
(* where the setup failed and atrace_update_tags has set tags afterwards.  *)
TracesToMarker ==
  \A t \in Tracers : /\ tags[t] # NotReady /\ output[t] \subseteq {last(memory, fd)}
                     /\ updates = 0 => output[t] \subseteq {Marker}
=============================================================================
