---------------------------- MODULE WsConnection ----------------------------
(***************************************************************************)
(* One WebSocket connection of the daemon (api/ws.rs): the connection task *)
(* with its biased select!, the subscriptions and the snapshot burst of a  *)
(* subscribe (projection/snapshot.rs), the recovery from lag, keep-alive   *)
(* and the close at shutdown.                                              *)
(*                                                                         *)
(* The other side of the broadcast channel is kept to what a subscriber    *)
(* can tell: writes come one at a time, each reads the clock, commits and  *)
(* publishes, in three steps (projection/session.rs, write_inner).  That   *)
(* writes do not overlap and ids are published in order is what Recorder   *)
(* shows of the two tasks that write.                                      *)
(***************************************************************************)
EXTENDS Integers, Sequences, FiniteSets

CONSTANTS
    Keys,        \* sessions: records [source, sid]
    Topics,      \* topics the client may name
    Filters,     \* values of Subscribe.states; {} is no filter
    States,      \* values of current_state that occur
    Capacity,    \* ws_broadcast_capacity, at least MIN_CAPACITY
    MaxWrites,   \* bound: writes
    MaxFrames,   \* bound: frames the client sends of its own accord
    MaxInbox,    \* bound: frames in the socket, not yet received
    Keepalive,   \* bound: whether the ping timer ticks
    PongTicks    \* ws_pong_timeout, in ticks of a coarse clock

Classes == {"EventsAll", "EventsBySource", "EventsBySourceSession",
            "StateAll", "StateSession", "StateSessionCurrent"}

ASSUME WsAssumption ==
    /\ \A k \in Keys : k = [source |-> k.source, sid |-> k.sid]
    /\ \A t \in Topics : t = [class |-> t.class, source |-> t.source, sid |-> t.sid]
                         /\ t.class \in Classes
    /\ Filters \subseteq SUBSET States
    /\ {"Idle", "Working"} \subseteq States /\ "Absent" \notin States
    /\ Capacity \in Nat /\ Capacity >= 2
    /\ MaxWrites \in Nat /\ MaxFrames \in Nat /\ MaxInbox \in Nat
    /\ Keepalive \in BOOLEAN /\ PongTicks \in Nat \ {0}

-----------------------------------------------------------------------------
(* Envelopes and topics (broadcast/event.rs).                              *)

\* A row of session_projections.  ver counts the State envelopes made for the
\* session; old says that last_event_at_ms is more than STALE_WORKING_MS ago.
RowT == [cur : States \cup {"Absent"}, ver : Nat, old : BOOLEAN]

EventEnv == [type : {"Event"}, key : Keys, id : Nat]
StateEnv == [type : {"State"}, key : Keys, cur : States, ver : Nat]
Envelope == EventEnv \cup StateEnv

\* A StateFrame as the client gets it.
Frame == [key : Keys, cur : States, ver : Nat]

IsStateSessionFamily(t) == t.class \in {"StateAll", "StateSession", "StateSessionCurrent"}

CoversStateSession(t, sid) ==
    \/ t.class = "StateAll"
    \/ t.class \in {"StateSession", "StateSessionCurrent"} /\ t.sid = sid

MatchesEvent(t, k) ==
    \/ t.class = "EventsAll"
    \/ t.class = "EventsBySource" /\ t.source = k.source
    \/ t.class = "EventsBySourceSession" /\ t.source = k.source /\ t.sid = k.sid

Matches(t, e) ==
    IF e.type = "Event" THEN MatchesEvent(t, e.key) ELSE CoversStateSession(t, e.key.sid)

\* current_state_for_read and state_matches.
ReadAs(cur, old) == IF cur = "Working" /\ old THEN "Idle" ELSE cur
StateMatches(filter, cur) == filter = {} \/ cur \in filter

-----------------------------------------------------------------------------
VARIABLES
    rows,          \* session_projections
    nextId,        \* the last event_id given out
    write,         \* the write under way
    backlog,       \* the receiver: envelopes not yet received
    missed,        \* the receiver: envelopes evicted since the last receive
    pc,            \* where the connection task is
    job,           \* what the drain is for, and the arguments of the frame
    oldRows,       \* sessions whose row is stale by the now_ms of the subscribe
    burst,         \* snapshot frames not yet sent
    subscriptions, snapshotted,          \* of connection_task
    lastDelivered,                       \* last_delivered_event_id, -1 for None
    lastDropped,                         \* how long ago last_dropped_at is
    pendingCount, pendingFirst,          \* pending_drop_count, pending_dropped_first (-1: None)
    awaitingPong,  \* awaiting_pong
    pongAge,       \* time since pong_sleep was armed
    pingDue,       \* ping_timer has a tick
    inbox,         \* frames in the socket
    pinged,        \* the client has a Ping to answer
    daemon,        \* serving, shutdown_requested, ws_close_requested
    why,           \* how the connection ended
    frames,        \* counter of the bound
    inTime,        \* history: the Ping under way was answered before its deadline
    shown,         \* history: the last State frame sent for each session
    lost,          \* history: events evicted since the last receive
    unreported,    \* history: subscribed events lost and in no Dropped frame
    gap            \* history: the last Dropped frame and the events it is for

publisher == <<rows, nextId, write>>
receiver  == <<backlog, missed, lost>>
lag       == <<lastDelivered, lastDropped, pendingCount, pendingFirst, unreported, gap>>
coverage  == <<subscriptions, snapshotted, shown>>
handler   == <<pc, job, oldRows, burst, why>>
keepalive == <<awaitingPong, pongAge, pingDue, pinged, inTime>>
client    == <<inbox, frames>>
vars == <<publisher, receiver, lag, coverage, handler, keepalive, client, daemon>>

NoKey    == [source |-> "none", sid |-> "none"]
NoWrite  == [step |-> "none", key |-> NoKey, cur |-> "Absent", old |-> FALSE, changed |-> FALSE]
NoJob    == [op |-> "none", topic |-> [class |-> "none", source |-> "none", sid |-> "none"],
             states |-> {}, read |-> FALSE]
NoFrame  == [cur |-> "Absent", ver |-> 0]
NoGap    == [count |-> 0, first |-> 0, last |-> 0, ids |-> {}]

\* What the client may send.
Requests ==
    [op : {"subscribe"}, topic : Topics, states : Filters]
        \cup [op : {"unsubscribe"}, topic : Topics, states : {{}}]
        \cup [op : {"malformed", "close"}, topic : {NoJob.topic}, states : {{}}]
Pong == [op |-> "pong", topic |-> NoJob.topic, states |-> {}]

WriteT == [step : {"stamped", "committed"}, key : Keys, cur : States, old : BOOLEAN,
           changed : BOOLEAN] \cup {NoWrite}
JobT   == [op : {"subscribe", "unsubscribe"}, topic : Topics, states : SUBSET States,
           read : BOOLEAN]
            \cup {NoJob, [NoJob EXCEPT !.op = "shutdown"]}
ShownT == [cur : States \cup {"Absent"}, ver : Nat]
GapT   == [count : Nat, first : Nat, last : Nat, ids : SUBSET Nat]
InboundT == Requests \cup {Pong}

PublisherOK == rows \in [Keys -> RowT] /\ nextId \in Nat /\ write \in WriteT

ReceiverOK ==
    /\ backlog \in Seq(Envelope) /\ Len(backlog) <= Capacity
    /\ missed \in Nat /\ lost \subseteq EventEnv

LagOK ==
    /\ lastDelivered \in Nat \cup {-1}
    /\ lastDropped \in {"never", "recent", "old"}
    /\ pendingCount \in Nat /\ pendingFirst \in Nat \cup {-1}
    /\ unreported \subseteq Nat /\ gap \in GapT

CoverageOK ==
    /\ subscriptions \subseteq Topics /\ snapshotted \subseteq Keys
    /\ shown \in [Keys -> ShownT]

HandlerOK ==
    /\ pc \in {"none", "upgrade", "hello", "loop", "drain", "read", "burst", "closed"}
    /\ why \in {"open", "shutdown", "pong", "bad", "client", "send", "exit"}
    /\ job \in JobT /\ oldRows \subseteq Keys /\ burst \subseteq Frame
    /\ pc = "read" => job.op = "subscribe"

KeepaliveOK ==
    /\ awaitingPong \in BOOLEAN /\ pongAge \in 0..PongTicks
    /\ pingDue \in BOOLEAN /\ pinged \in BOOLEAN /\ inTime \in BOOLEAN

ClientOK == inbox \in Seq(InboundT) /\ frames \in Nat

TypeOK ==
    /\ PublisherOK /\ ReceiverOK /\ LagOK /\ CoverageOK
    /\ HandlerOK /\ KeepaliveOK /\ ClientOK
    /\ daemon \in {"serving", "stopping", "closing"}

\* The daemon may have recorded sessions before the client came.
Init ==
    /\ rows \in [Keys -> [cur : States \cup {"Absent"}, ver : {0}, old : {FALSE}]]
    /\ nextId = 0 /\ write = NoWrite
    /\ backlog = <<>> /\ missed = 0 /\ lost = {}
    /\ pc = "none" /\ job = NoJob /\ oldRows = {} /\ burst = {} /\ why = "open"
    /\ subscriptions = {} /\ snapshotted = {} /\ shown = [k \in Keys |-> NoFrame]
    /\ lastDelivered = -1 /\ lastDropped = "never" /\ pendingCount = 0 /\ pendingFirst = -1
    /\ unreported = {} /\ gap = NoGap
    /\ awaitingPong = FALSE /\ pongAge = 0 /\ pingDue = FALSE /\ pinged = FALSE
    /\ inTime = FALSE
    /\ inbox = <<>> /\ frames = 0
    /\ daemon = "serving"

-----------------------------------------------------------------------------
(* The publisher: write_inner, one write at a time.                        *)

\* The receiver exists from subscribe() until the task returns.
Attached == pc \notin {"none", "upgrade", "closed"}

\* now_ms is read, and with it whether the stored row is stale, before the
\* transaction runs on its own thread.
Stamp(k, cur) ==
    /\ write = NoWrite /\ daemon # "closing" /\ pc # "closed" /\ nextId < MaxWrites
    /\ write' = [step |-> "stamped", key |-> k, cur |-> cur, old |-> rows[k].old,
                 changed |-> FALSE]
    /\ UNCHANGED <<rows, nextId, receiver, lag, coverage, handler, keepalive, client, daemon>>

\* state_changed: against the stored state and against the one read at now_ms.
StateChanged(prev, w) == prev.cur # w.cur \/ ReadAs(prev.cur, w.old) # w.cur

Commit ==
    LET k == write.key
        changed == StateChanged(rows[k], write)
    IN  /\ write.step = "stamped"
        /\ rows' = [rows EXCEPT ![k] =
                        [cur |-> write.cur, ver |-> rows[k].ver + (IF changed THEN 1 ELSE 0),
                         old |-> FALSE]]
        /\ nextId' = nextId + 1
        /\ write' = [write EXCEPT !.step = "committed", !.changed = changed]
        /\ oldRows' = oldRows \ {k}
        /\ UNCHANGED <<receiver, lag, coverage, pc, job, burst, why, keepalive, client, daemon>>

\* Event, then State if it changed.
Published(w) ==
    LET event == [type |-> "Event", key |-> w.key, id |-> nextId]
        state == [type |-> "State", key |-> w.key, cur |-> w.cur, ver |-> rows[w.key].ver]
    IN  IF w.changed THEN <<event, state>> ELSE <<event>>

\* tokio's broadcast channel, seen from one receiver: the oldest envelopes make
\* room for the new ones, and the receiver is told how many it missed.
Push(envs) ==
    LET all  == backlog \o envs
        over == IF Len(all) > Capacity THEN Len(all) - Capacity ELSE 0
    IN  /\ backlog' = SubSeq(all, over + 1, Len(all))
        /\ missed' = missed + over
        /\ lost' = lost \cup {all[i] : i \in {j \in 1..over : all[j].type = "Event"}}

Publish ==
    /\ write.step = "committed"
    /\ IF Attached THEN Push(Published(write)) ELSE UNCHANGED receiver
    /\ write' = NoWrite
    /\ UNCHANGED <<rows, nextId, lag, coverage, handler, keepalive, client, daemon>>

\* No event for STALE_WORKING_MS.
Age(k) ==
    /\ rows[k].cur = "Working" /\ ~rows[k].old /\ pc # "closed"
    /\ rows' = [rows EXCEPT ![k].old = TRUE]
    /\ UNCHANGED <<nextId, write, receiver, lag, coverage, handler, keepalive, client, daemon>>

-----------------------------------------------------------------------------
(* The client, the timers and the daemon's shutdown.                       *)

ClientSends(m) ==
    /\ Attached
    /\ frames < MaxFrames /\ Len(inbox) < MaxInbox
    /\ inbox' = Append(inbox, m)
    /\ frames' = frames + 1
    /\ UNCHANGED <<publisher, receiver, lag, coverage, handler, keepalive, daemon>>

ClientAnswersPing ==
    /\ pinged /\ pc # "closed"
    /\ inbox' = Append(inbox, Pong)
    /\ pinged' = FALSE
    /\ inTime' = (pongAge < PongTicks)
    /\ UNCHANGED <<publisher, receiver, lag, coverage, handler, awaitingPong, pongAge,
                   pingDue, frames, daemon>>

PingTimerTicks ==
    /\ pc \in {"loop", "drain", "read", "burst"} /\ ~pingDue /\ Keepalive
    /\ pingDue' = TRUE
    /\ UNCHANGED <<publisher, receiver, lag, coverage, handler, awaitingPong, pongAge,
                   pinged, inTime, client, daemon>>

PongClockTicks ==
    /\ awaitingPong /\ pongAge < PongTicks /\ pc # "closed"
    /\ pongAge' = pongAge + 1
    /\ UNCHANGED <<publisher, receiver, lag, coverage, handler, awaitingPong, pingDue,
                   pinged, inTime, client, daemon>>

\* More than coalesce_window since last_dropped_at.
WindowExpires ==
    /\ lastDropped = "recent" /\ pc # "closed"
    /\ lastDropped' = "old"
    /\ UNCHANGED <<publisher, receiver, lastDelivered, pendingCount, pendingFirst, unreported,
                   gap, coverage, handler, keepalive, client, daemon>>

RequestShutdown ==
    /\ daemon = "serving" /\ pc # "closed"
    /\ daemon' = "stopping"
    /\ UNCHANGED <<publisher, receiver, lag, coverage, handler, keepalive, client>>

\* Mutant: the connections are closed before the writer and the probe are joined.
CloseWithoutJoin ==
    /\ daemon = "stopping" /\ pc # "closed"
    /\ daemon' = "closing"
    /\ UNCHANGED <<publisher, receiver, lag, coverage, handler, keepalive, client>>

\* run() joins the tasks that write, then cancels ws_close_requested.
CloseConnections ==
    /\ daemon = "stopping" /\ pc # "closed"
    /\ write = NoWrite
    /\ daemon' = "closing"
    /\ UNCHANGED <<publisher, receiver, lag, coverage, handler, keepalive, client>>

Ends(reason) == pc' = "closed" /\ why' = reason

\* wait_for_ws_connection_drain timed out and the process exits.
ProcessExits ==
    /\ daemon = "closing" /\ pc # "closed"
    /\ Ends("exit")
    /\ UNCHANGED <<publisher, receiver, lag, coverage, job, oldRows, burst, keepalive, client,
                   daemon>>

-----------------------------------------------------------------------------
(* handle_upgrade.  An upgrade that is refused (no permit, no valid        *)
(* token) leaves nothing behind.                                           *)

\* Then the two DB fields of Hello are awaited.
AcceptUpgrade ==
    /\ pc = "none" /\ daemon = "serving"
    /\ pc' = "upgrade"
    /\ UNCHANGED <<publisher, receiver, lag, coverage, job, oldRows, burst, why, keepalive,
                   client, daemon>>

\* broadcaster.subscribe(), before the upgrade completes.
SubscribeReceiver ==
    /\ pc = "upgrade"
    /\ pc' = "hello"
    /\ UNCHANGED <<publisher, receiver, lag, coverage, job, oldRows, burst, why, keepalive,
                   client, daemon>>

SendHello ==
    /\ pc = "hello"
    /\ pc' = "loop"
    /\ UNCHANGED <<publisher, receiver, lag, coverage, job, oldRows, burst, why, keepalive,
                   client, daemon>>

-----------------------------------------------------------------------------
(* The arms of the biased select!, in its order: an arm runs when it is    *)
(* ready and none above it is.                                             *)

CloseReady == daemon = "closing"
PongReady  == awaitingPong /\ pongAge = PongTicks
FrameReady == inbox # <<>>
RecvReady  == missed > 0 \/ backlog # <<>>

CloseRequested ==
    /\ pc = "loop" /\ CloseReady
    /\ pc' = "drain"
    /\ job' = [NoJob EXCEPT !.op = "shutdown"]
    /\ UNCHANGED <<publisher, receiver, lag, coverage, oldRows, burst, why, keepalive, client,
                   daemon>>

PongTimeout ==
    /\ pc = "loop" /\ ~CloseReady /\ PongReady
    /\ Ends("pong")
    /\ UNCHANGED <<publisher, receiver, lag, coverage, job, oldRows, burst, keepalive, client,
                   daemon>>

AtInbound == pc = "loop" /\ ~CloseReady /\ ~PongReady /\ FrameReady

\* An unparsable or binary frame, or states on a topic without a snapshot.
Rejected(m) ==
    \/ m.op = "malformed"
    \/ m.op = "subscribe" /\ m.states # {} /\ ~IsStateSessionFamily(m.topic)

BadMessage ==
    /\ AtInbound /\ Rejected(Head(inbox))
    /\ inbox' = Tail(inbox)
    /\ Ends("bad")
    /\ UNCHANGED <<publisher, receiver, lag, coverage, job, oldRows, burst, keepalive, frames,
                   daemon>>

ClientCloses ==
    /\ AtInbound /\ Head(inbox).op = "close"
    /\ inbox' = Tail(inbox)
    /\ Ends("client")
    /\ UNCHANGED <<publisher, receiver, lag, coverage, job, oldRows, burst, keepalive, frames,
                   daemon>>

PongReceived ==
    /\ AtInbound /\ Head(inbox).op = "pong"
    /\ inbox' = Tail(inbox)
    /\ awaitingPong' = FALSE /\ pongAge' = 0
    /\ UNCHANGED <<publisher, receiver, lag, coverage, handler, pingDue, pinged, inTime,
                   frames, daemon>>

\* Subscribe [A], and Unsubscribe: the backlog goes out under the old topics.
StartRequest ==
    LET m == Head(inbox)
    IN  /\ AtInbound /\ m.op \in {"subscribe", "unsubscribe"} /\ ~Rejected(m)
        /\ inbox' = Tail(inbox)
        /\ pc' = "drain"
        /\ job' = [op |-> m.op, topic |-> m.topic, states |-> m.states, read |-> FALSE]
        /\ UNCHANGED <<publisher, receiver, lag, coverage, oldRows, burst, why, keepalive,
                       frames, daemon>>

\* Mutant: a Ping is sent, and the deadline set anew, while one is unanswered.
PingAgain ==
    /\ pc = "loop" /\ ~CloseReady /\ ~PongReady /\ ~FrameReady /\ ~RecvReady /\ pingDue
    /\ pingDue' = FALSE
    /\ awaitingPong' = TRUE /\ pongAge' = 0 /\ pinged' = TRUE /\ inTime' = FALSE
    /\ UNCHANGED <<publisher, receiver, lag, coverage, handler, client, daemon>>

\* No fresh Ping while one is unanswered.
PingTick ==
    /\ pc = "loop" /\ ~CloseReady /\ ~PongReady /\ ~FrameReady /\ ~RecvReady /\ pingDue
    /\ pingDue' = FALSE
    /\ IF awaitingPong
       THEN UNCHANGED <<awaitingPong, pongAge, pinged, inTime>>
       ELSE awaitingPong' = TRUE /\ pongAge' = 0 /\ pinged' = TRUE /\ inTime' = FALSE
    /\ UNCHANGED <<publisher, receiver, lag, coverage, handler, client, daemon>>

-----------------------------------------------------------------------------
(* Receiving: the rx.recv() arm, and drain_backlog_under_state.            *)

AtReceive ==
    \/ pc = "loop" /\ ~CloseReady /\ ~PongReady /\ ~FrameReady
    \/ pc = "drain"

Subscribed(e) == \E t \in subscriptions : Matches(t, e)

AtEnvelope == AtReceive /\ missed = 0 /\ backlog # <<>>

\* Mutant: the drain throws the backlog away.
DiscardBacklog ==
    /\ AtEnvelope /\ (pc = "drain" \/ ~Subscribed(Head(backlog)))
    /\ backlog' = Tail(backlog)
    /\ UNCHANGED <<publisher, missed, lost, lag, coverage, handler, keepalive, client, daemon>>

DispatchFiltered ==
    /\ AtEnvelope /\ ~Subscribed(Head(backlog))
    /\ backlog' = Tail(backlog)
    /\ UNCHANGED <<publisher, missed, lost, lag, coverage, handler, keepalive, client, daemon>>

\* The cursor moves only for an event that was sent.
DispatchEvent ==
    LET e == Head(backlog)
    IN  /\ AtEnvelope /\ e.type = "Event" /\ Subscribed(e)
        /\ backlog' = Tail(backlog)
        /\ lastDelivered' = e.id
        /\ UNCHANGED <<publisher, missed, lost, lastDropped, pendingCount, pendingFirst,
                       unreported, gap, coverage, handler, keepalive, client, daemon>>

DispatchState ==
    LET e == Head(backlog)
    IN  /\ AtEnvelope /\ e.type = "State" /\ Subscribed(e)
        /\ backlog' = Tail(backlog)
        /\ shown' = [shown EXCEPT ![e.key] = [cur |-> e.cur, ver |-> e.ver]]
        /\ snapshotted' = snapshotted \cup {e.key}
        /\ UNCHANGED <<publisher, missed, lost, lag, subscriptions, handler, keepalive, client,
                       daemon>>

\* Lagged(n) before any subscription is skipped in silence.
LaggedUnsubscribed ==
    /\ AtReceive /\ missed > 0 /\ subscriptions = {}
    /\ missed' = 0 /\ lost' = {}
    /\ UNCHANGED <<publisher, backlog, lag, coverage, handler, keepalive, client, daemon>>

\* Mutant: a lag keeps the coverage.
KeepCoverage == snapshotted

\* Nobody knows which sessions the evicted envelopes were of.
CoverageAfterLag == {}

\* The events among the evicted ones that the client had asked for.
LostEvents == {e.id : e \in {x \in lost : Subscribed(x)}}

\* cursor + 1, or the sentinel 0 when no event was delivered.
CursorToFirst(cursor) == IF cursor = -1 THEN 0 ELSE cursor + 1

\* Mutant: the gap is taken to begin where the last lag found the cursor.
LatestGapStart == CursorToFirst(lastDelivered)

\* The start of the gap is that of the first lag suppressed in the window.
SuppressedFirst == IF pendingCount = 0 THEN CursorToFirst(lastDelivered) ELSE pendingFirst

\* coalesce_decision, Suppress: a Dropped frame went out within the window.
DroppedCoalesced ==
    /\ AtReceive /\ missed > 0 /\ subscriptions # {}
    /\ lastDropped = "recent"
    /\ missed' = 0 /\ lost' = {}
    /\ snapshotted' = CoverageAfterLag
    /\ pendingFirst' = SuppressedFirst
    /\ pendingCount' = pendingCount + missed
    /\ unreported' = unreported \cup LostEvents
    /\ UNCHANGED <<publisher, backlog, lastDelivered, lastDropped, gap, subscriptions, shown,
                   handler, keepalive, client, daemon>>

\* coalesce_decision, Emit.  The ids are an estimate: the channel tells a count.
DroppedEmitted ==
    LET count == pendingCount + missed
        first == IF pendingFirst # -1 THEN pendingFirst ELSE CursorToFirst(lastDelivered)
        ids   == unreported \cup LostEvents
    IN  /\ AtReceive /\ missed > 0 /\ subscriptions # {}
        /\ lastDropped # "recent"
        /\ missed' = 0 /\ lost' = {}
        /\ snapshotted' = CoverageAfterLag
        /\ gap' = [count |-> count, first |-> first, last |-> first + count - 1, ids |-> ids]
        /\ unreported' = {i \in ids : i < first}
        /\ lastDropped' = "recent" /\ pendingCount' = 0 /\ pendingFirst' = -1
        /\ UNCHANGED <<publisher, backlog, lastDelivered, subscriptions, shown, handler,
                       keepalive, client, daemon>>

-----------------------------------------------------------------------------
(* After the drain.                                                        *)

Drained == pc = "drain" /\ missed = 0 /\ backlog = <<>>

\* The sessions still tracked by a topic.
Retained(topics) ==
    {k \in snapshotted : \E t \in topics : CoversStateSession(t, k.sid)}

ApplyUnsubscribe ==
    LET topics == subscriptions \ {job.topic}
    IN  /\ Drained /\ job.op = "unsubscribe"
        /\ subscriptions' = topics
        /\ snapshotted' = Retained(topics)
        /\ pc' = "loop" /\ job' = NoJob
        /\ UNCHANGED <<publisher, receiver, lag, shown, oldRows, burst, why, keepalive, client,
                       daemon>>

\* [B] the clock is read; if that fails, no row counts as stale.
ReadClock ==
    /\ Drained /\ job.op = "subscribe"
    /\ oldRows' \in {{k \in Keys : rows[k].old}, {}}
    /\ pc' = "read"
    /\ UNCHANGED <<publisher, receiver, lag, coverage, job, burst, why, keepalive, client,
                   daemon>>

\* Mutant: a row counts as delivered when an older topic matches it.
DedupByTopic(k) == \E t \in subscriptions : CoversStateSession(t, k.sid)

\* already_snapshotted.
AlreadySnapshotted(k) == k \in snapshotted

\* snapshot_for_topic.
SnapshotForTopic(t, states) ==
    {[key |-> k, cur |-> ReadAs(rows[k].cur, k \in oldRows), ver |-> rows[k].ver] :
        k \in {x \in Keys :
                 /\ rows[x].cur # "Absent"
                 /\ ~AlreadySnapshotted(x)
                 /\ IsStateSessionFamily(t) /\ CoversStateSession(t, x.sid)
                 /\ StateMatches(states, ReadAs(rows[x].cur, x \in oldRows))}}

\* [C] the table is read, [D] the topic is added.  A failed read makes an
\* empty snapshot.  The frames go out in the order of the SELECT, which nothing
\* here depends on.
ReadSnapshot(ok) ==
    LET out == IF ok THEN SnapshotForTopic(job.topic, job.states) ELSE {}
    IN  /\ pc = "read"
        /\ ok \/ IsStateSessionFamily(job.topic)
        /\ burst' = out
        /\ subscriptions' = subscriptions \cup {job.topic}
        /\ job' = [job EXCEPT !.read = ok]
        /\ pc' = "burst"
        /\ oldRows' = {}
        /\ UNCHANGED <<publisher, receiver, lag, snapshotted, shown, why, keepalive, client,
                       daemon>>

\* [E] one frame.
SendSnapshotFrame(f) ==
    /\ pc = "burst" /\ f \in burst
    /\ burst' = burst \ {f}
    /\ snapshotted' = snapshotted \cup {f.key}
    /\ shown' = [shown EXCEPT ![f.key] = [cur |-> f.cur, ver |-> f.ver]]
    /\ UNCHANGED <<publisher, receiver, lag, subscriptions, pc, job, oldRows, why, keepalive,
                   client, daemon>>

SubscribeDone ==
    /\ pc = "burst" /\ burst = {}
    /\ pc' = "loop" /\ job' = NoJob
    /\ UNCHANGED <<publisher, receiver, lag, coverage, oldRows, burst, why, keepalive, client,
                   daemon>>

\* close_for_daemon_shutdown, after its drain.
CloseForShutdown ==
    /\ Drained /\ job.op = "shutdown"
    /\ Ends("shutdown")
    /\ UNCHANGED <<publisher, receiver, lag, coverage, job, oldRows, burst, keepalive, client,
                   daemon>>

\* A send that fails ends the task.
Sending ==
    \/ pc = "hello"
    \/ AtEnvelope /\ Subscribed(Head(backlog))
    \/ AtReceive /\ missed > 0 /\ subscriptions # {} /\ lastDropped # "recent"
    \/ pc = "burst" /\ burst # {}
    \/ Drained /\ job.op = "shutdown"
    \/ pc = "loop" /\ ~CloseReady /\ ~PongReady /\ ~FrameReady /\ ~RecvReady
         /\ pingDue /\ ~awaitingPong

SendFails ==
    /\ Sending
    /\ Ends("send")
    /\ UNCHANGED <<publisher, receiver, lag, coverage, job, oldRows, burst, keepalive, client,
                   daemon>>

-----------------------------------------------------------------------------
Writes ==
    \/ \E k \in Keys, cur \in States : Stamp(k, cur)
    \/ Commit \/ Publish

Environment ==
    \/ \E k \in Keys : Age(k)
    \/ \E m \in Requests : ClientSends(m)
    \/ ClientAnswersPing \/ PingTimerTicks \/ PongClockTicks \/ WindowExpires
    \/ RequestShutdown \/ CloseConnections \/ ProcessExits

Receive ==
    \/ DispatchFiltered \/ DispatchEvent \/ DispatchState
    \/ LaggedUnsubscribed \/ DroppedCoalesced \/ DroppedEmitted

Snapshot ==
    \/ ReadClock \/ \E ok \in BOOLEAN : ReadSnapshot(ok)
    \/ \E f \in burst : SendSnapshotFrame(f)
    \/ SubscribeDone

Connection ==
    \/ AcceptUpgrade \/ SubscribeReceiver \/ SendHello
    \/ CloseRequested \/ PongTimeout \/ BadMessage \/ ClientCloses \/ PongReceived
    \/ StartRequest \/ PingTick
    \/ Receive \/ Snapshot \/ ApplyUnsubscribe \/ CloseForShutdown \/ SendFails

\* The connection has ended.
Over == pc = "closed" /\ UNCHANGED vars

Next == Writes \/ Environment \/ Connection \/ Over

Spec == Init /\ [][Next]_vars

=============================================================================
