------------------------------ MODULE Recorder ------------------------------
(***************************************************************************)
(* The recording core of the bowerbird daemon: the bounded ingest channel, *)
(* the serial writer task with its PID supersession pass, the concurrent   *)
(* liveness probe, and the start and stop of the daemon around them        *)
(* (main.rs, ingest/, projection/session.rs, projection/liveness.rs).      *)
(*                                                                         *)
(* The writer and the probe are two tasks that share one writer            *)
(* connection (pool size 1).  Each holds it from the checkout in           *)
(* write_inner until the commit is published, and gives it up between the  *)
(* SELECT of its rows and every conditional write that follows.            *)
(***************************************************************************)
EXTENDS SessionState, FiniteSets

CONSTANTS
    Inputs,        \* what the ingest handler or /replay may submit
    Clock,         \* readings of current_unix_millis
    Capacity,      \* ingest_channel_capacity
    MaxAccepted,   \* bound: submissions accepted
    MaxBoots,      \* bound: daemon starts
    MaxFaults      \* bound: failed pool checkouts and SQL errors

\* The adapter makes hook kinds only; /replay also passes SessionEnded.
Input == [sess : Sessions, kind : HookKinds \cup {"SessionEnded"},
          ntype : NotificationTypes, pid : PidOrNone, origin : {"live", "replay"}]

ASSUME RecorderAssumption ==
    /\ Inputs \subseteq Input
    /\ \A in \in Inputs : in.origin = "live" => in.kind \in HookKinds
    /\ Clock \subseteq Int /\ Clock # {}
    /\ Capacity \in Nat \ {0}
    /\ MaxAccepted \in Nat /\ MaxBoots \in Nat /\ MaxFaults \in Nat

EndedReasons == {"NoPidAtUpgrade", "PidDead", "PidSuperseded"}

\* A queued envelope; the ticket stands for its payload.
Item == [sess : Sessions, kind : Kinds, ntype : NotificationTypes,
         pid : PidOrNone, origin : {"live", "replay"}, ticket : Nat]

\* A row of events; event_id is its position.  cause tells who wrote it, and
\* for a daemon-made SessionEnded seen is the length of the log its SELECT saw.
Event == [sess : Sessions \cup {Daemon}, kind : Kinds, ntype : NotificationTypes,
          pid : PidOrNone, at : Int, ticket : Nat, seen : Nat,
          cause : {"live", "replay", "daemon"} \cup EndedReasons]

Tasks == {"writer", "probe"}

VARIABLES
    now,        \* the wall clock
    alive,      \* processes that kill(pid, 0) finds
    events,     \* table events
    proj,       \* table session_projections, NoRow where there is none
    recs,       \* table recording_sessions; ended = 0 is NULL
    phase,      \* how far run() in main.rs has come
    rb,         \* the transaction of rebuild_missing_projections
    queue,      \* the ingest channel
    writerPc, item, victims,       \* the ingest writer task
    probePc, scanned, suspect,     \* the liveness probe task
    owed,       \* owed[t]: committed by t, not yet published
    lastEvent,  \* the last event id published since the daemon started
    shown,      \* the last State published for each session since then
    boots, faults, acked,          \* counters of the bounds
    gone,       \* history: tickets accepted and then lost
    excused,    \* history: PIDs on which no complete supersession pass has run
                \* since something other than a live event could claim them
    torn        \* history: sessions whose row was deleted and not rebuilt

store  == <<events, proj, recs>>
wtask  == <<writerPc, item, victims>>
ptask  == <<probePc, scanned, suspect>>
hub    == <<owed, lastEvent, shown>>
ghosts == <<gone, excused, torn>>
vars   == <<now, alive, store, phase, rb, queue, wtask, ptask, hub,
            boots, faults, acked, ghosts>>

NoItem == [sess |-> Daemon, pid |-> NoPid, ticket |-> 0]
NoScan == [sess |-> Daemon, row |-> NoRow, seen |-> 0]
NoPub  == [id |-> 0, sess |-> Daemon, state |-> "Ended", changed |-> FALSE]
NoRebuild == [sess |-> Daemon, next |-> 0, acc |-> NoRow, out |-> [s \in Sessions |-> NoRow]]

\* A row as a task's SELECT read it.
Scan == [sess : Sessions, row : Row, seen : Nat]
Pub  == [id : Nat, sess : Sessions \cup {Daemon}, state : States, changed : BOOLEAN]

TypeOK ==
    /\ now \in Clock
    /\ alive \subseteq Pids
    /\ events \in Seq(Event)
    /\ proj \in [Sessions -> Row \cup {NoRow}]
    /\ recs \in Seq([started : Nat \ {0}, ended : Nat])
    /\ phase \in {"down", "rebuild", "startProbe", "startRecording", "serving", "stopping",
                 "closing"}
    /\ rb \in [sess : Sessions \cup {Daemon}, next : Nat, acc : Row \cup {NoRow},
               out : [Sessions -> Row \cup {NoRow}]]
    /\ queue \in Seq(Item) /\ Len(queue) <= Capacity
    /\ writerPc \in {"exited", "idle", "write", "publish", "scan", "ending", "publishEnd"}
    /\ item \in Item \cup {NoItem}
    /\ victims \subseteq Scan
    /\ probePc \in {"exited", "idle", "checking", "ending", "publish"}
    /\ scanned \subseteq Scan
    /\ suspect \in Scan \cup {NoScan}
    /\ owed \in [Tasks -> Pub]
    /\ lastEvent \in Nat
    /\ shown \in [Sessions -> States \cup {"None"}]
    /\ boots \in Nat /\ faults \in Nat /\ acked \in Nat
    /\ gone \subseteq Nat /\ excused \subseteq Pids /\ torn \subseteq Sessions

Init ==
    /\ now \in Clock
    /\ alive = Pids
    /\ events = <<>>
    /\ proj = [s \in Sessions |-> NoRow]
    /\ recs = <<>>
    /\ phase = "down"
    /\ rb = NoRebuild
    /\ queue = <<>>
    /\ writerPc = "exited" /\ item = NoItem /\ victims = {}
    /\ probePc = "exited" /\ scanned = {} /\ suspect = NoScan
    /\ owed = [t \in Tasks |-> NoPub]
    /\ lastEvent = 0 /\ shown = [s \in Sessions |-> "None"]
    /\ boots = 0 /\ faults = 0 /\ acked = 0
    /\ gone = {} /\ excused = {} /\ torn = {}

-----------------------------------------------------------------------------
(* The single write path.                                                  *)

\* Mutant: write_inner gives the connection back before it publishes.
ConnNeverHeld == TRUE

\* The one connection of the writer pool is not checked out.
ConnFree == \A t \in Tasks : owed[t] = NoPub

\* Mutant: only the read-time states are compared.
ChangedAsRead(prev, new) ==
    prev = NoRow \/ CurrentStateForRead(prev, now) # new.current_state

\* state_changed: the new state differs from the stored or from the read one.
StateChanged(prev, new) ==
    \/ prev = NoRow
    \/ prev.current_state # new.current_state
    \/ CurrentStateForRead(prev, now) # new.current_state

\* write_inner's transaction: upsert, insert, commit; the publication is owed.
Commit(t, e) ==
    LET prev == proj[e.sess]
        new  == Transition(prev, e, now)
    IN  /\ events' = Append(events, e)
        /\ proj' = [proj EXCEPT ![e.sess] = new]
        /\ owed' = [owed EXCEPT ![t] =
              [id |-> Len(events) + 1, sess |-> e.sess, state |-> new.current_state,
               changed |-> StateChanged(prev, new)]]

\* The post-commit half of write_inner: Event, then State if it changed, then
\* the connection goes back to the pool.
Publish(t) ==
    /\ owed[t] # NoPub
    /\ lastEvent' = owed[t].id
    /\ shown' = IF owed[t].changed
                THEN [shown EXCEPT ![owed[t].sess] = owed[t].state] ELSE shown
    /\ owed' = [owed EXCEPT ![t] = NoPub]

\* Mutants: the precondition forgets the state, or the PID.
MatchesPid(scan, pinTime) ==
    proj[scan.sess] # NoRow /\ proj[scan.sess].last_pid = scan.row.last_pid

MatchesState(scan, pinTime) ==
    proj[scan.sess] # NoRow /\ proj[scan.sess].current_state = scan.row.current_state

\* WritePrecondition, re-read inside the transaction.  Only supersession pins
\* the time of the last event.
StillMatches(scan, pinTime) ==
    LET cur == proj[scan.sess]
    IN  /\ cur # NoRow
        /\ cur.current_state = scan.row.current_state
        /\ cur.last_pid = scan.row.last_pid
        /\ pinTime => cur.last_event_at_ms = scan.row.last_event_at_ms

HookEvent(it) ==
    [sess |-> it.sess, kind |-> it.kind, ntype |-> it.ntype, pid |-> it.pid, at |-> now,
     ticket |-> it.ticket, seen |-> 0, cause |-> it.origin]

\* The synthetic SessionEnded of the probe and of supersession.
EndEvent(scan, reason) ==
    [sess |-> scan.sess, kind |-> "SessionEnded", ntype |-> "None", pid |-> scan.row.last_pid,
     at |-> now, ticket |-> 0, seen |-> scan.seen, cause |-> reason]

Sentinel(kind) ==
    [sess |-> Daemon, kind |-> kind, ntype |-> "None", pid |-> NoPid, at |-> now,
     ticket |-> 0, seen |-> 0, cause |-> "daemon"]

\* A row that counts as the live holder of p.
Claims(row, p) == row # NoRow /\ row.current_state # "Ended" /\ row.last_pid = p

-----------------------------------------------------------------------------
(* The environment.                                                        *)

\* Time passes, or the wall clock is set.
ClockStep ==
    /\ now' \in Clock \ {now}
    /\ UNCHANGED <<alive, store, phase, rb, queue, wtask, ptask, hub,
                   boots, faults, acked, ghosts>>

\* A coding-agent process ends.  Its number is not reused (the code's known
\* limitation, outside this model).
ProcessExits(p) ==
    /\ p \in alive
    /\ alive' = alive \ {p}
    /\ UNCHANGED <<now, store, phase, rb, queue, wtask, ptask, hub,
                   boots, faults, acked, ghosts>>

\* A projection row is deleted by hand while the daemon is down.
RowDeleted(s) ==
    /\ phase = "down" /\ proj[s] # NoRow
    /\ proj' = [proj EXCEPT ![s] = NoRow]
    /\ torn' = torn \cup {s}
    /\ UNCHANGED <<now, alive, events, recs, phase, rb, queue, wtask, ptask, hub,
                   boots, faults, acked, gone, excused>>

-----------------------------------------------------------------------------
(* Ingest: try_send by a connection handler or by /replay.  A full or      *)
(* closed channel is answered 503 and changes nothing.  The acceptance is  *)
(* acknowledged before anything is stored.                                 *)

HasRoom == Len(queue) < Capacity

Submit(in) ==
    /\ writerPc # "exited"                \* the receiver lives in the writer task
    /\ in.origin = "live" => in.pid \in alive \cup {NoPid}
    /\ HasRoom
    /\ acked < MaxAccepted
    /\ acked' = acked + 1
    /\ queue' = Append(queue,
          [sess |-> in.sess, kind |-> in.kind, ntype |-> in.ntype, pid |-> in.pid,
           origin |-> in.origin, ticket |-> acked + 1])
    /\ UNCHANGED <<now, alive, store, phase, rb, wtask, ptask, hub, boots, faults, ghosts>>

-----------------------------------------------------------------------------
(* The writer task.                                                        *)

\* shutdown_requested is cancelled.
ShutdownRequested == phase \in {"stopping", "closing"}

WriterRecv ==
    /\ writerPc = "idle" /\ queue # <<>>
    /\ item' = Head(queue) /\ queue' = Tail(queue)
    /\ writerPc' = "write"
    /\ UNCHANGED <<now, alive, store, phase, rb, victims, ptask, hub,
                   boots, faults, acked, ghosts>>

\* Only a live event that carries a PID and is no SessionEnded supersedes.
Supersedes(it) == it.origin = "live" /\ it.pid # NoPid /\ it.kind # "SessionEnded"

\* The PIDs the committed item claims without a supersession pass to follow.
UncheckedClaims(it) ==
    IF Supersedes(it) THEN {}
    ELSE {p \in Pids : /\ Claims(Transition(proj[it.sess], HookEvent(it), now), p)
                       /\ ~Claims(proj[it.sess], p)}

WriterCommit ==
    /\ writerPc = "write" /\ ConnFree
    /\ Commit("writer", HookEvent(item))
    /\ writerPc' = "publish"
    /\ excused' = excused \cup UncheckedClaims(item)
    /\ UNCHANGED <<now, alive, recs, phase, rb, queue, item, victims, ptask,
                   lastEvent, shown, boots, faults, acked, gone, torn>>

\* The write failed: logged, and the acknowledged event is dropped.
WriterWriteFails ==
    /\ writerPc = "write" /\ faults < MaxFaults
    /\ faults' = faults + 1
    /\ gone' = gone \cup {item.ticket}
    /\ writerPc' = "idle" /\ item' = NoItem
    /\ UNCHANGED <<now, alive, store, phase, rb, queue, victims, ptask, hub,
                   boots, acked, excused, torn>>

WriterPublish ==
    /\ writerPc = "publish" /\ Publish("writer")
    /\ IF Supersedes(item) THEN writerPc' = "scan" /\ item' = item
                           ELSE writerPc' = "idle" /\ item' = NoItem
    /\ UNCHANGED <<now, alive, store, phase, rb, queue, victims, ptask,
                   boots, faults, acked, ghosts>>

\* Mutant: only Working predecessors are found.
WorkingPredecessors(it) ==
    {[sess |-> s, row |-> proj[s], seen |-> Len(events)] :
        s \in {s \in Sessions : /\ s # it.sess /\ Claims(proj[s], it.pid)
                               /\ proj[s].current_state = "Working"}}

\* supersede_predecessors: the other sessions that claim the item's PID.
Predecessors(it) ==
    {[sess |-> s, row |-> proj[s], seen |-> Len(events)] :
        s \in {s \in Sessions : s # it.sess /\ Claims(proj[s], it.pid)}}

SupersedeSelect ==
    /\ writerPc = "scan" /\ ConnFree
    /\ victims' = Predecessors(item)
    /\ excused' = excused \ {item.pid}
    /\ writerPc' = "ending"
    /\ UNCHANGED <<now, alive, store, phase, rb, queue, item, ptask, hub,
                   boots, faults, acked, gone, torn>>

SupersedeSelectFails ==
    /\ writerPc = "scan" /\ faults < MaxFaults
    /\ faults' = faults + 1
    /\ excused' = excused \cup {item.pid}
    /\ writerPc' = "idle" /\ item' = NoItem
    /\ UNCHANGED <<now, alive, store, phase, rb, queue, victims, ptask, hub,
                   boots, acked, gone, torn>>

SupersedeEnd(v) ==
    /\ writerPc = "ending" /\ v \in victims /\ ConnFree
    /\ StillMatches(v, TRUE)
    /\ Commit("writer", EndEvent(v, "PidSuperseded"))
    /\ victims' = victims \ {v}
    /\ writerPc' = "publishEnd"
    /\ UNCHANGED <<now, alive, recs, phase, rb, queue, item, ptask, lastEvent, shown,
                   boots, faults, acked, ghosts>>

\* The row moved since the SELECT: yield to the write that moved it.
SupersedeSkip(v) ==
    /\ writerPc = "ending" /\ v \in victims /\ ConnFree
    /\ ~StillMatches(v, TRUE)
    /\ victims' = victims \ {v}
    /\ UNCHANGED <<now, alive, store, phase, rb, queue, writerPc, item, ptask, hub,
                   boots, faults, acked, ghosts>>

SupersedeEndFails(v) ==
    /\ writerPc = "ending" /\ v \in victims /\ faults < MaxFaults
    /\ faults' = faults + 1
    /\ victims' = victims \ {v}
    /\ excused' = excused \cup {item.pid}
    /\ UNCHANGED <<now, alive, store, phase, rb, queue, writerPc, item, ptask, hub,
                   boots, acked, gone, torn>>

SupersedePublish ==
    /\ writerPc = "publishEnd" /\ Publish("writer")
    /\ writerPc' = "ending"
    /\ UNCHANGED <<now, alive, store, phase, rb, queue, item, victims, ptask,
                   boots, faults, acked, ghosts>>

SupersedeDone ==
    /\ writerPc = "ending" /\ victims = {}
    /\ writerPc' = "idle" /\ item' = NoItem
    /\ UNCHANGED <<now, alive, store, phase, rb, queue, victims, ptask, hub,
                   boots, faults, acked, ghosts>>

\* Mutant: the task leaves without draining the channel.
WriterExitUndrained ==
    /\ ShutdownRequested /\ writerPc = "idle"
    /\ writerPc' = "exited"
    /\ UNCHANGED <<now, alive, store, phase, rb, queue, item, victims, ptask, hub,
                   boots, faults, acked, ghosts>>

\* The drain after shutdown is requested: leave once try_recv finds nothing.
WriterExit ==
    /\ ShutdownRequested /\ writerPc = "idle" /\ queue = <<>>
    /\ writerPc' = "exited"
    /\ UNCHANGED <<now, alive, store, phase, rb, queue, item, victims, ptask, hub,
                   boots, faults, acked, ghosts>>

-----------------------------------------------------------------------------
(* The liveness probe: probe_once, run once before the daemon serves and   *)
(* then on a timer.                                                        *)

\* The probe's rows: every session that is not Ended.
Unended ==
    {[sess |-> s, row |-> proj[s], seen |-> Len(events)] :
        s \in {s \in Sessions : proj[s] # NoRow /\ proj[s].current_state # "Ended"}}

\* Mutant: the loop is left after its first iteration.
ProbeReturnsForGood ==
    /\ scanned' = {} /\ suspect' = NoScan
    /\ probePc' = "exited"
    /\ phase' = IF phase = "startProbe" THEN "startRecording" ELSE phase

\* Where a finished or failed iteration leaves the task.
ProbeReturns ==
    /\ scanned' = {} /\ suspect' = NoScan
    /\ IF phase = "startProbe" THEN probePc' = "exited" /\ phase' = "startRecording"
                               ELSE probePc' = "idle" /\ phase' = phase

ProbeSelect ==
    /\ probePc = "idle" /\ phase \in {"startProbe", "serving"} /\ ConnFree
    /\ scanned' = Unended
    /\ probePc' = "checking"
    /\ UNCHANGED <<now, alive, store, phase, rb, queue, wtask, suspect, hub,
                   boots, faults, acked, ghosts>>

ProbeSelectFails ==
    /\ probePc = "idle" /\ phase \in {"startProbe", "serving"} /\ faults < MaxFaults
    /\ faults' = faults + 1
    /\ ProbeReturns
    /\ UNCHANGED <<now, alive, store, rb, queue, wtask, hub, boots, acked, ghosts>>

\* kill(pid, 0), at the row's turn in the loop and not at the SELECT.
LooksDead(scan) == scan.row.last_pid \notin alive

ProbeSpare(r) ==
    /\ probePc = "checking" /\ ~ShutdownRequested /\ r \in scanned
    /\ ~LooksDead(r)
    /\ scanned' = scanned \ {r}
    /\ UNCHANGED <<now, alive, store, phase, rb, queue, wtask, probePc, suspect, hub,
                   boots, faults, acked, ghosts>>

ProbeCondemn(r) ==
    /\ probePc = "checking" /\ ~ShutdownRequested /\ r \in scanned
    /\ LooksDead(r)
    /\ scanned' = scanned \ {r}
    /\ suspect' = r /\ probePc' = "ending"
    /\ UNCHANGED <<now, alive, store, phase, rb, queue, wtask, hub,
                   boots, faults, acked, ghosts>>

ReasonFor(scan) == IF scan.row.last_pid = NoPid THEN "NoPidAtUpgrade" ELSE "PidDead"

ProbeEnd ==
    /\ probePc = "ending" /\ ConnFree
    /\ StillMatches(suspect, FALSE)
    /\ Commit("probe", EndEvent(suspect, ReasonFor(suspect)))
    /\ probePc' = "publish" /\ suspect' = NoScan
    /\ UNCHANGED <<now, alive, recs, phase, rb, queue, wtask, scanned, lastEvent, shown,
                   boots, faults, acked, ghosts>>

ProbeSkip ==
    /\ probePc = "ending" /\ ConnFree
    /\ ~StillMatches(suspect, FALSE)
    /\ probePc' = "checking" /\ suspect' = NoScan
    /\ UNCHANGED <<now, alive, store, phase, rb, queue, wtask, scanned, hub,
                   boots, faults, acked, ghosts>>

ProbeEndFails ==
    /\ probePc = "ending" /\ faults < MaxFaults
    /\ faults' = faults + 1
    /\ probePc' = "checking" /\ suspect' = NoScan
    /\ UNCHANGED <<now, alive, store, phase, rb, queue, wtask, scanned, hub,
                   boots, acked, ghosts>>

ProbePublish ==
    /\ probePc = "publish" /\ Publish("probe")
    /\ probePc' = "checking"
    /\ UNCHANGED <<now, alive, store, phase, rb, queue, wtask, scanned, suspect,
                   boots, faults, acked, ghosts>>

\* All rows looked at, or shutdown seen before the next row.
ProbeDone ==
    /\ probePc = "checking" /\ (scanned = {} \/ ShutdownRequested)
    /\ ProbeReturns
    /\ UNCHANGED <<now, alive, store, rb, queue, wtask, hub, boots, faults, acked, ghosts>>

\* Mutant: run_loop does not listen to the shutdown token.
ProbeNeverExits == FALSE /\ UNCHANGED vars

ProbeExit ==
    /\ ShutdownRequested /\ probePc = "idle"
    /\ probePc' = "exited"
    /\ UNCHANGED <<now, alive, store, phase, rb, queue, wtask, scanned, suspect, hub,
                   boots, faults, acked, ghosts>>

-----------------------------------------------------------------------------
(* rebuild_missing_projections: one transaction that folds Transition over *)
(* the events of every session without a row.                              *)

RebuildOpen(s) ==
    /\ phase = "rebuild" /\ rb.sess = Daemon
    /\ rb.out[s] = NoRow /\ Of(s, events, Len(events)) # {}
    /\ rb' = [rb EXCEPT !.sess = s, !.next = 1, !.acc = NoRow]
    /\ UNCHANGED <<now, alive, store, phase, queue, wtask, ptask, hub,
                   boots, faults, acked, ghosts>>

RebuildFold ==
    /\ phase = "rebuild" /\ rb.sess # Daemon /\ rb.next <= Len(events)
    /\ rb' = [rb EXCEPT !.next = rb.next + 1,
                        !.acc = IF events[rb.next].sess = rb.sess
                                THEN Transition(rb.acc, events[rb.next], events[rb.next].at)
                                ELSE rb.acc]
    /\ UNCHANGED <<now, alive, store, phase, queue, wtask, ptask, hub,
                   boots, faults, acked, ghosts>>

RebuildUpsert ==
    /\ phase = "rebuild" /\ rb.sess # Daemon /\ rb.next > Len(events)
    /\ rb' = [rb EXCEPT !.sess = Daemon, !.next = 0, !.acc = NoRow,
                        !.out = [rb.out EXCEPT ![rb.sess] = rb.acc]]
    /\ UNCHANGED <<now, alive, store, phase, queue, wtask, ptask, hub,
                   boots, faults, acked, ghosts>>

\* The PIDs that rebuilt rows claim.
RebuiltClaims ==
    {p \in Pids : \E s \in Sessions : proj[s] = NoRow /\ Claims(rb.out[s], p)}

RebuildCommit ==
    /\ phase = "rebuild" /\ rb.sess = Daemon
    /\ \A s \in Sessions : rb.out[s] = NoRow => Of(s, events, Len(events)) = {}
    /\ proj' = rb.out
    /\ torn' = {s \in torn : proj[s] # NoRow}
    /\ excused' = excused \cup RebuiltClaims
    /\ rb' = NoRebuild
    /\ phase' = "startProbe" /\ probePc' = "idle"
    /\ UNCHANGED <<now, alive, events, recs, queue, wtask, scanned, suspect, hub,
                   boots, faults, acked, gone>>

\* Best effort: an error is logged, the transaction rolls back, startup goes on.
RebuildFails ==
    /\ phase = "rebuild" /\ faults < MaxFaults
    /\ faults' = faults + 1
    /\ rb' = NoRebuild
    /\ phase' = "startProbe" /\ probePc' = "idle"
    /\ UNCHANGED <<now, alive, store, queue, wtask, scanned, suspect, hub,
                   boots, acked, ghosts>>

-----------------------------------------------------------------------------
(* The life of the daemon: run() in main.rs.                               *)

\* The process is gone: whatever lived in memory is lost.
Vanish ==
    /\ phase' = "down" /\ rb' = NoRebuild /\ queue' = <<>>
    /\ writerPc' = "exited" /\ item' = NoItem /\ victims' = {}
    /\ probePc' = "exited" /\ scanned' = {} /\ suspect' = NoScan
    /\ owed' = [t \in Tasks |-> NoPub]
    /\ lastEvent' = 0 /\ shown' = [s \in Sessions |-> "None"]

Boot ==
    /\ phase = "down" /\ boots < MaxBoots
    /\ boots' = boots + 1
    /\ phase' = "rebuild"
    /\ rb' = [NoRebuild EXCEPT !.out = proj]
    /\ UNCHANGED <<now, alive, store, queue, wtask, ptask, hub, faults, acked, ghosts>>

\* write_recording_started; then the tasks are spawned and the socket is bound.
StartRecording ==
    /\ phase = "startRecording"
    /\ events' = Append(events, Sentinel("RecordingStarted"))
    /\ recs' = Append(recs, [started |-> Len(events) + 1, ended |-> 0])
    /\ phase' = "serving"
    /\ writerPc' = "idle" /\ probePc' = "idle"
    /\ UNCHANGED <<now, alive, proj, rb, queue, item, victims, scanned, suspect, hub,
                   boots, faults, acked, ghosts>>

\* Its failure is fatal.
StartRecordingFails ==
    /\ phase = "startRecording" /\ faults < MaxFaults
    /\ faults' = faults + 1
    /\ Vanish
    /\ UNCHANGED <<now, alive, store, boots, acked, ghosts>>

\* SIGTERM, SIGINT, or the HTTP server ended: cancel shutdown_requested.
RequestShutdown ==
    /\ phase = "serving"
    /\ phase' = "stopping"
    /\ UNCHANGED <<now, alive, store, rb, queue, wtask, ptask, hub,
                   boots, faults, acked, ghosts>>

\* main joined the writer and the probe before it closes the recording.
TasksJoined == writerPc = "exited" /\ probePc = "exited"

EndRecording ==
    /\ phase = "stopping" /\ TasksJoined
    /\ events' = Append(events, Sentinel("RecordingEnded"))
    /\ recs' = [recs EXCEPT ![Len(recs)].ended = Len(events) + 1]
    /\ phase' = "closing"
    /\ UNCHANGED <<now, alive, proj, rb, queue, wtask, ptask, hub,
                   boots, faults, acked, ghosts>>

\* Its failure is logged, and the daemon still exits.
EndRecordingFails ==
    /\ phase = "stopping" /\ TasksJoined /\ faults < MaxFaults
    /\ faults' = faults + 1
    /\ phase' = "closing"
    /\ UNCHANGED <<now, alive, store, rb, queue, wtask, ptask, hub, boots, acked, ghosts>>

\* Checkpoint, close the pools, remove server.json, return from run().
Exit ==
    /\ phase = "closing"
    /\ Vanish
    /\ UNCHANGED <<now, alive, store, boots, faults, acked, ghosts>>

\* The tickets that only memory holds.
InMemory ==
    {queue[i].ticket : i \in 1..Len(queue)} \cup
    (IF writerPc = "write" THEN {item.ticket} ELSE {})

\* A claim whose supersession pass was cut short.
CutShort ==
    IF writerPc \in {"publish", "scan", "ending", "publishEnd"} /\ Supersedes(item)
    THEN {item.pid} ELSE {}

\* SIGKILL, a panic, a power cut, or the forced exit on a second signal.
Crash ==
    /\ phase # "down"
    /\ gone' = gone \cup InMemory
    /\ excused' = excused \cup CutShort
    /\ Vanish
    /\ UNCHANGED <<now, alive, store, boots, faults, acked, torn>>

-----------------------------------------------------------------------------
Writer ==
    \/ WriterRecv \/ WriterCommit \/ WriterWriteFails \/ WriterPublish
    \/ SupersedeSelect \/ SupersedeSelectFails
    \/ \E v \in victims : SupersedeEnd(v) \/ SupersedeSkip(v) \/ SupersedeEndFails(v)
    \/ SupersedePublish \/ SupersedeDone \/ WriterExit

Probe ==
    \/ ProbeSelect \/ ProbeSelectFails
    \/ \E r \in scanned : ProbeSpare(r) \/ ProbeCondemn(r)
    \/ ProbeEnd \/ ProbeSkip \/ ProbeEndFails \/ ProbePublish
    \/ ProbeDone \/ ProbeExit

Startup ==
    \/ \E s \in Sessions : RebuildOpen(s)
    \/ RebuildFold \/ RebuildUpsert \/ RebuildCommit \/ RebuildFails
    \/ StartRecording \/ StartRecordingFails

Next ==
    \/ ClockStep
    \/ \E p \in Pids : ProcessExits(p)
    \/ \E s \in Sessions : RowDeleted(s)
    \/ \E in \in Inputs : Submit(in)
    \/ Writer \/ Probe \/ Startup
    \/ Boot \/ RequestShutdown \/ EndRecording \/ EndRecordingFails \/ Exit \/ Crash

Spec == Init /\ [][Next]_vars
=============================================================================
