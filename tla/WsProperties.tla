---------------------------- MODULE WsProperties ----------------------------
(***************************************************************************)
(* What a client of the WebSocket may rely on (docs/protocol.md), stated   *)
(* of WsConnection.                                                        *)
(***************************************************************************)
EXTENDS WsConnection

\* The envelope at position i of the backlog is a State of k.
StateAt(i, k) == backlog[i].type = "State" /\ backlog[i].key = k

\* Version v of k is in the backlog.
Queued(k, v) == \E i \in 1..Len(backlog) : StateAt(i, k) /\ backlog[i].ver = v

\* The committed write is going to publish a State of k.
Pending(k) == write.step = "committed" /\ write.key = k /\ write.changed

\* The current version of k is still to come on the channel.
Coming(k) == Queued(k, rows[k].ver) \/ Pending(k)

\* The last State frame the client got for k is of the current version.
UpToDate(k) == shown[k].cur # "Absent" /\ shown[k].ver = rows[k].ver

\* A session that the connection takes for delivered is tracked by a topic:
\* coverage lapses with the last topic (the retain of Unsubscribe), so the
\* silent skip of a lag without topics forgets nothing.
CoverageIsTracked ==
    \A k \in snapshotted : \E t \in subscriptions : CoversStateSession(t, k.sid)

\* A session that the connection takes for delivered, and for which a
\* re-subscribe would therefore send nothing, is one whose current state the
\* client has or is about to get, unless the receiver lags and has not been
\* told: whatever the order of commits, publications, snapshot reads, lag,
\* subscribes and unsubscribes.
CoveredIsCurrent ==
    pc # "closed" /\ missed = 0 => \A k \in snapshotted : UpToDate(k) \/ Coming(k)

\* The connection's coverage is right: what it takes for delivered is tracked by
\* a topic, and current or about to be.
CoverageHolds == CoverageIsTracked /\ CoveredIsCurrent

\* No subscribed event is lost without a trace: until a Dropped frame whose
\* range starts at or before it has been sent, it is counted in
\* pending_drop_count and the captured start of the gap is not after it.  Where
\* the reported gap ends says nothing: last_dropped_event_id is an estimate
\* (protocol.md:343), and a lost event may lie above it.
EveryLossAccounted ==
    unreported # {} =>
        /\ pendingCount > 0 /\ pendingFirst # -1
        /\ \A i \in unreported : pendingFirst <= i

\* An unfiltered subscribe whose table read succeeds heals: when it is done,
\* every session under the topic has been delivered or is about to be, also
\* after a lag or an unsubscribe left the client with old state.
SubscribeHeals ==
    [][pc = "burst" /\ pc' = "loop" /\ job.read /\ job.states = {} /\ missed = 0
         => \A k \in Keys :
              rows[k].cur # "Absent" /\ IsStateSessionFamily(job.topic)
                /\ CoversStateSession(job.topic, k.sid)
              => UpToDate(k) \/ Coming(k)]_vars

\* A client that is told "daemon shutdown" has the final state of every
\* session that it is covered for: the tasks that write are joined before the
\* connections are closed, and the backlog is drained before Close is sent.
FinalStateBeforeClose ==
    why = "shutdown" => \A k \in snapshotted : UpToDate(k)

-----------------------------------------------------------------------------
(* Liveness.  The writer's transaction ends, the connection task is polled *)
(* when it is ready, and a send ends or fails; nothing is asked of the     *)
(* client.                                                                 *)

Fairness ==
    /\ WF_vars(Commit) /\ WF_vars(Publish)
    /\ WF_vars(Connection)
    /\ WF_vars(PongClockTicks) /\ WF_vars(CloseConnections)

FairSpec == Spec /\ Fairness

\* A covered session is brought up to date, or its coverage lapses (a lag, an
\* unsubscribe), or the connection ends.
CoveredConverges ==
    \A k \in Keys :
        k \in snapshotted ~> (UpToDate(k) \/ k \notin snapshotted \/ pc = "closed")

\* A Ping is answered or the connection is given up: later ticks of the ping
\* timer do not put off the deadline.
DeadPeerIsClosed == awaitingPong ~> (~awaitingPong \/ pc = "closed")
=============================================================================
