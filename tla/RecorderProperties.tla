------------------------- MODULE RecorderProperties -------------------------
(***************************************************************************)
(* What the recording core owes its readers, stated over the module        *)
(* Recorder.  The theorems of RecorderProofs are about these definitions.  *)
(***************************************************************************)
EXTENDS Recorder

ByHook(e) == e.cause \in {"live", "replay"}
ByDaemon(e) == e.cause \in EndedReasons

\* e2 at j comes after e1 at i and both belong to one session, nothing of that
\* session between them.
Adjacent(i, j) ==
    /\ i < j /\ events[i].sess = events[j].sess
    /\ \A k \in (i + 1)..(j - 1) : events[k].sess # events[j].sess

(* A projection row is exactly what the event log says of its session,     *)
(* whether write_inner stored it event by event or                         *)
(* rebuild_missing_projections folded it at startup, across crashes.  The  *)
(* only exception: a row deleted by hand whose rebuild failed.             *)
RowsReflectLog ==
    \A s \in Sessions \ torn : Agrees(proj[s], s, events, Len(events))

(* ADR 0009: one PID, one live session.  Whenever the writer is between    *)
(* two items, at most one session that is not Ended claims a PID, unless   *)
(* the last claim on it came without a complete supersession pass: a       *)
(* replayed or PID-less event, a failed SELECT or write, a crash.          *)
OneHolderPerPid ==
    writerPc \in {"exited", "idle", "write"} =>
        \A p \in Pids \ excused : \A s, t \in Sessions :
            Claims(proj[s], p) /\ Claims(proj[t], p) => s = t

(* "Whoever emitted most recently on the PID is the survivor"              *)
(* (WritePrecondition, ADR 0009): a session is superseded only by another  *)
(* one whose live event on that PID is newer than every hook event of the  *)
(* superseded session.                                                     *)
SupersededByLaterEmitter ==
    \A i \in 1..Len(events) : events[i].cause = "PidSuperseded" =>
        \E j \in 1..(i - 1) :
            /\ events[j].cause = "live" /\ events[j].pid = events[i].pid
            /\ events[j].sess # events[i].sess
            /\ \A k \in (j + 1)..(i - 1) :
                  events[k].sess = events[i].sess => ~ByHook(events[k])

(* The probe and supersession never end one session twice: a daemon-made   *)
(* SessionEnded is never the direct successor of a SessionEnded of the     *)
(* same session, although both tasks may have selected the same row.       *)
NoDoubleEnd ==
    \A i, j \in 1..Len(events) :
        Adjacent(i, j) /\ ByDaemon(events[j]) => events[i].kind # "SessionEnded"

(* A daemon-made SessionEnded names the PID the session is bound to when   *)
(* it is written, so a session that was resumed on a new process between   *)
(* the probe's SELECT and its write is not ended for the old one.  The     *)
(* exception of RowsReflectLog holds here too: a row deleted by hand and   *)
(* made anew by a later event has forgotten the PIDs before it.            *)
EndNamesBinding ==
    [][LET e == events'[Len(events')]
       IN  (events' # events /\ ByDaemon(e) /\ e.sess \notin torn) =>
              ReadsPid([last_pid |-> e.pid], e.sess, events, Len(events))]_vars

(* What subscribers were last told of a session is what is stored, as soon *)
(* as no publication is pending.  State frames are suppressed when nothing *)
(* changed, by comparing stored and read-time states in write_inner.       *)
PublishedStateIsStored ==
    ConnFree => \A s \in Sessions :
        shown[s] # "None" => proj[s] # NoRow /\ shown[s] = proj[s].current_state

(* Every event committed while the daemon serves is published before the   *)
(* connection is free again: with no publication pending, nothing after    *)
(* the last published event is a session's.                                *)
EveryCommitPublished ==
    (phase \in {"serving", "stopping"} /\ ConnFree) =>
        \A i \in 1..Len(events) :
            (i > lastEvent /\ i > recs[Len(recs)].started) => events[i].sess = Daemon

\* The tickets of the queue, of the item in flight, and of the log.
Waiting == {queue[i].ticket : i \in 1..Len(queue)}
InFlight == IF writerPc = "write" THEN {item.ticket} ELSE {}
Stored == {events[i].ticket : i \in 1..Len(events)} \ {0}

(* An accepted event (200) is in exactly one place: waiting, in flight,    *)
(* stored, or known to be lost by a failed write or a crash.  It is stored *)
(* once, in the order of acceptance.  In particular a clean shutdown loses *)
(* nothing: "queued accepted events must either be persisted before        *)
(* RecordingEnded or rejected by a closed queue" (main.rs).                *)
AcceptedOnceInOrder ==
    /\ 1..acked = Waiting \cup InFlight \cup Stored \cup gone
    /\ Waiting \cap (InFlight \cup Stored \cup gone) = {}
    /\ InFlight \cap (Stored \cup gone) = {}
    /\ Stored \cap gone = {}
    /\ \A i, j \in 1..Len(events) :
          (i < j /\ events[i].ticket # 0 /\ events[j].ticket # 0)
              => events[i].ticket < events[j].ticket

Log == INSTANCE EventLog WITH
    count <- acked, pending <- Waiting \cup InFlight, stored <- Stored, lost <- gone,
    open <- writerPc # "exited"

(* The daemon keeps the promise of EventLog: channel, writer, supersession, *)
(* probe, drain and restart together accept, store and lose events in no    *)
(* other way.                                                               *)
ImplementsEventLog == Log!LogSpec

(* recording_sessions brackets the hooks: every hook event lies after the  *)
(* start of one recording and before its end and the start of the next, so *)
(* nothing is recorded between RecordingEnded and the next start.          *)
HooksInsideRecording ==
    \A i \in 1..Len(events) : ByHook(events[i]) =>
        \E k \in 1..Len(recs) :
            /\ recs[k].started < i
            /\ recs[k].ended # 0 => i < recs[k].ended
            /\ k < Len(recs) => i < recs[k + 1].started

-----------------------------------------------------------------------------
(* The Hello frame's history_begins_cleanly (SELECT_HELLO_DB_FIELDS).      *)

SessionEvents == {i \in 1..Len(events) : events[i].sess # Daemon}

\* COALESCE(MIN(event_id), 0) over the events that are no sentinels.
OldestEvent ==
    IF SessionEvents = {} THEN 0
    ELSE CHOOSE i \in SessionEvents : \A j \in SessionEvents : i <= j

\* Mutant: any recording closed after the oldest event will do.
ClosedSince ==
    \E k \in 1..Len(recs) : recs[k].ended # 0 /\ recs[k].ended >= OldestEvent

HistoryBeginsCleanly ==
    \E k \in 1..Len(recs) :
        recs[k].started <= OldestEvent /\ recs[k].ended # 0 /\ recs[k].ended >= OldestEvent

\* The events stored in the k-th recording lie between its start and the next.
InRecording(i, k) ==
    recs[k].started < i /\ (k < Len(recs) => i < recs[k + 1].started)

(* A client that starts from the oldest event is warned when the recording *)
(* that holds it crashed, however many recordings were closed since; and   *)
(* it is told that its history begins cleanly once that recording closed.  *)
FirstGapIsFlagged ==
    \A k \in 1..Len(recs) :
        SessionEvents # {} /\ InRecording(OldestEvent, k) =>
            (HistoryBeginsCleanly <=> recs[k].ended # 0)

-----------------------------------------------------------------------------
(* Fairness.  The tasks run on one tokio runtime that polls every ready    *)
(* task, the pool's waiters are served in order, and the probe's timer     *)
(* fires again and again.  The steps of the environment are not fair, and  *)
(* neither are faults.                                                     *)

WriterProgress ==
    \/ WriterRecv \/ WriterCommit \/ WriterPublish \/ SupersedeSelect
    \/ \E v \in victims : SupersedeEnd(v) \/ SupersedeSkip(v)
    \/ SupersedePublish \/ SupersedeDone \/ WriterExit

ProbeProgress ==
    \/ ProbeSelect \/ \E r \in scanned : ProbeSpare(r) \/ ProbeCondemn(r)
    \/ ProbeEnd \/ ProbeSkip \/ ProbePublish \/ ProbeDone \/ ProbeExit

MainProgress ==
    \/ \E s \in Sessions : RebuildOpen(s)
    \/ RebuildFold \/ RebuildUpsert \/ RebuildCommit \/ StartRecording \/ EndRecording
    \/ Exit

FairSpec ==
    /\ Spec
    /\ SF_vars(WriterProgress) /\ SF_vars(ProbeProgress) /\ WF_vars(MainProgress)

(* Every accepted event is eventually stored or known to be lost.          *)
AcceptedSettles ==
    \A n \in 1..MaxAccepted : acked >= n ~> n \in Stored \cup gone

\* s is shown live although its process is gone or was never known.
Ghost(s) == proj[s] # NoRow /\ proj[s].current_state # "Ended"
            /\ proj[s].last_pid \notin alive

(* ADR 0004: a session whose process died does not stay live for ever.     *)
(* While the daemon keeps serving, the probe ends it, or a new event binds *)
(* it to a live process.                                                   *)
GhostsEnd ==
    \A s \in Sessions : (phase = "serving" /\ Ghost(s)) ~> (~Ghost(s) \/ phase # "serving")

(* A requested shutdown completes: the writer drains, the probe returns,   *)
(* and main gets past its joins.                                           *)
ShutdownCompletes == phase = "stopping" ~> phase = "down"

(* A session that the daemon ends is not already ended, and a superseded    *)
(* one has a later emitter, although writer and probe choose victims from   *)
(* tables the other may have changed since.                                 *)
EndsAreJustified == SupersededByLaterEmitter /\ NoDoubleEnd

(* Publication follows the log: every commit is published, and event       *)
(* frames leave in event_id order although two tasks write.  A step that    *)
(* publishes goes forward (0 is the hub of a new process).                  *)
PublicationFollowsLog ==
    [][/\ EveryCommitPublished'
       /\ lastEvent' # lastEvent => lastEvent' = 0 \/ lastEvent' > lastEvent]_vars

(* The recordings tell what is missing from the log: they bracket the       *)
(* hooks, and the Hello frame flags a crash of the first one.               *)
RecordingsTellGaps == HooksInsideRecording /\ FirstGapIsFlagged
=============================================================================
