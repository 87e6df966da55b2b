------------------------------ MODULE WsProofs ------------------------------
(***************************************************************************)
(* Proofs about WsConnection for every set of sessions and topics, every   *)
(* capacity and every bound.                                               *)
(***************************************************************************)
EXTENDS WsProperties, SequenceTheorems, TLAPS

-----------------------------------------------------------------------------
(* Types.                                                                  *)

(* A part of the state that a step leaves alone keeps its type.            *)
LEMMA KeepType ==
    /\ PublisherOK /\ UNCHANGED publisher => PublisherOK'
    /\ ReceiverOK /\ UNCHANGED receiver => ReceiverOK'
    /\ LagOK /\ UNCHANGED lag => LagOK'
    /\ CoverageOK /\ UNCHANGED coverage => CoverageOK'
    /\ HandlerOK /\ UNCHANGED handler => HandlerOK'
    /\ KeepaliveOK /\ UNCHANGED keepalive => KeepaliveOK'
    /\ ClientOK /\ UNCHANGED client => ClientOK'
<1>1. PublisherOK /\ UNCHANGED publisher => PublisherOK'  BY DEF PublisherOK, publisher
<1>2. ReceiverOK /\ UNCHANGED receiver => ReceiverOK'  BY DEF ReceiverOK, receiver
<1>3. LagOK /\ UNCHANGED lag => LagOK'  BY DEF LagOK, lag
<1>4. CoverageOK /\ UNCHANGED coverage => CoverageOK'  BY DEF CoverageOK, coverage
<1>5. HandlerOK /\ UNCHANGED handler => HandlerOK'  BY DEF HandlerOK, handler
<1>6. KeepaliveOK /\ UNCHANGED keepalive => KeepaliveOK'  BY DEF KeepaliveOK, keepalive
<1>7. ClientOK /\ UNCHANGED client => ClientOK'  BY DEF ClientOK, client
<1> QED  BY <1>1, <1>2, <1>3, <1>4, <1>5, <1>6, <1>7

(* What a publication appends are envelopes.                               *)
LEMMA PublishedType ==
    ASSUME PublisherOK, write.step = "committed"
    PROVE  /\ write.key \in Keys /\ write.cur \in States
           /\ Published(write) \in Seq(Envelope)
           /\ \E e \in 1..2 : Len(Published(write)) = e
<1>1. /\ write.key \in Keys /\ write.cur \in States /\ rows[write.key].ver \in Nat
      /\ nextId \in Nat
  BY DEF PublisherOK, WriteT, NoWrite, RowT
<1>2. [type |-> "Event", key |-> write.key, id |-> nextId] \in Envelope
  BY <1>1 DEF Envelope, EventEnv
<1>3. [type |-> "State", key |-> write.key, cur |-> write.cur, ver |-> rows[write.key].ver]
        \in Envelope
  BY <1>1 DEF Envelope, StateEnv
<1> QED  BY <1>1, <1>2, <1>3 DEF Published

(* What Push leaves in the receiver: the last envelopes of the old backlog *)
(* followed by the new ones.                                               *)
LEMMA PushShape ==
    ASSUME ReceiverOK, NEW envs \in Seq(Envelope), NEW e \in 1..2, Len(envs) = e, Push(envs)
    PROVE  \E over \in 0..Len(backlog) :
             /\ backlog' \in Seq(Envelope)
             /\ Len(backlog') = Len(backlog) + e - over
             /\ Len(backlog') <= Capacity
             /\ missed' = missed + over
             /\ \A i \in 1..(Len(backlog) - over) : backlog'[i] = backlog[i + over]
             /\ \A i \in 1..e : backlog'[Len(backlog) - over + i] = envs[i]
             /\ lost' = lost \cup {backlog[i] : i \in {j \in 1..over : backlog[j].type = "Event"}}
<1> DEFINE all == backlog \o envs
           n == Len(backlog)
           over == IF Len(all) > Capacity THEN Len(all) - Capacity ELSE 0
<1>1. backlog \in Seq(Envelope) /\ n \in Nat /\ n <= Capacity
  BY LenProperties DEF ReceiverOK
<1>2. Capacity \in Nat /\ Capacity >= 2
  BY WsAssumption
<1>3. /\ all \in Seq(Envelope) /\ Len(all) = n + e
      /\ \A i \in 1..(n + e) : all[i] = IF i <= n THEN backlog[i] ELSE envs[i - n]
  BY <1>1, ConcatProperties
<1>4. /\ backlog' = SubSeq(all, over + 1, Len(all))
      /\ missed' = missed + over
      /\ lost' = lost \cup {all[i] : i \in {j \in 1..over : all[j].type = "Event"}}
  BY DEF Push
<1> HIDE DEF all
<1> HIDE DEF n
<1>5. over \in Nat /\ over <= n /\ n + e - over <= Capacity
  BY <1>1, <1>2, <1>3
<1> HIDE DEF over
<1>6. /\ backlog' \in Seq(Envelope)
      /\ Len(backlog') = n + e - over
      /\ \A i \in 1..(n + e - over) : backlog'[i] = all[i + over]
  <2>0. PICK m \in Nat : m = n + e
    BY <1>1
  <2>1. over + 1 \in Int /\ over + 1 <= m /\ Len(all) = m
    BY <1>1, <1>2, <1>3, <1>5, <2>0
  <2>2. \A i \in (over + 1)..m : all[i] \in Envelope
    BY <1>3, <1>5, <2>0, <2>1, ElementOfSeq
  <2>3. /\ SubSeq(all, over + 1, m) \in Seq(Envelope)
        /\ Len(SubSeq(all, over + 1, m)) = m - (over + 1) + 1
        /\ \A i \in 1..(m - (over + 1) + 1) :
              SubSeq(all, over + 1, m)[i] = all[(over + 1) + i - 1]
    BY <2>1, <2>2, SubSeqProperties
  <2>4. m - (over + 1) + 1 = m - over
    BY <2>1, <1>5
  <2>5. \A i \in 1..(m - over) : (over + 1) + i - 1 = i + over
    BY <1>5
  <2>6. backlog' = SubSeq(all, over + 1, m)
    BY <1>4, <2>1
  <2>7. \A i \in 1..(m - over) : backlog'[i] = all[i + over]
    BY <2>3, <2>4, <2>5, <2>6
  <2>8. backlog' \in Seq(Envelope) /\ Len(backlog') = m - over
    BY <2>3, <2>4, <2>6
  <2>9. Len(backlog') = n + e - over
    BY <1>1, <1>5, <2>0, <2>8
  <2>10. \A i \in 1..(n + e - over) : backlog'[i] = all[i + over]
    BY <1>1, <1>5, <2>0, <2>7
  <2> QED  BY <2>8, <2>9, <2>10
<1>7. \A i \in 1..over : all[i] = backlog[i]
  BY <1>1, <1>2, <1>3, <1>5
<1>8. \A i \in 1..(n - over) : backlog'[i] = backlog[i + over]
  <2> SUFFICES ASSUME NEW i \in 1..(n - over) PROVE backlog'[i] = backlog[i + over]
    OBVIOUS
  <2>1. i \in 1..(n + e - over) /\ i + over \in 1..(n + e) /\ i + over <= n
    BY <1>1, <1>2, <1>5
  <2> QED  BY <2>1, <1>3, <1>6
<1>9. \A i \in 1..e : backlog'[n - over + i] = envs[i]
  <2> SUFFICES ASSUME NEW i \in 1..e PROVE backlog'[n - over + i] = envs[i]
    OBVIOUS
  <2>1. /\ n - over + i \in 1..(n + e - over) /\ (n - over + i) + over = n + i
        /\ n + i \in 1..(n + e) /\ ~(n + i <= n) /\ n + i - n = i
    BY <1>1, <1>2, <1>5
  <2>2. backlog'[n - over + i] = all[n + i]
    BY <2>1, <1>6
  <2>3. all[n + i] = envs[n + i - n]
    BY <2>1, <1>1, <1>3
  <2> QED  BY <2>1, <2>2, <2>3
<1>10. lost' = lost \cup {backlog[i] : i \in {j \in 1..over : backlog[j].type = "Event"}}
  BY <1>4, <1>7
<1>11. Len(backlog') <= Capacity
  BY <1>5, <1>6
<1> QED
  <2>1. over \in 0..n
    BY <1>1, <1>5
  <2> QED  BY <2>1, <1>4, <1>6, <1>8, <1>9, <1>10, <1>11 DEF n

(* The publisher keeps the types.                                          *)
LEMMA WritesType == ASSUME TypeOK, Writes PROVE TypeOK'
<1>1. ASSUME NEW k \in Keys, NEW cur \in States, Stamp(k, cur) PROVE TypeOK'
  <2>1. PublisherOK'
    BY <1>1 DEF TypeOK, PublisherOK, Stamp, RowT, WriteT
  <2> QED  BY <1>1, <2>1, KeepType DEF TypeOK, Stamp
<1>2. CASE Commit
  <2>1. PublisherOK'
    <3> DEFINE changed == StateChanged(rows[write.key], write)
    <3>1. /\ write.key \in Keys /\ write.cur \in States /\ write.old \in BOOLEAN
          /\ write = [step |-> "stamped", key |-> write.key, cur |-> write.cur,
                      old |-> write.old, changed |-> write.changed]
      BY <1>2 DEF TypeOK, PublisherOK, Commit, WriteT, NoWrite
    <3>2. changed \in BOOLEAN
      BY DEF StateChanged
    <3>3. write' = [step |-> "committed", key |-> write.key, cur |-> write.cur,
                    old |-> write.old, changed |-> changed]
      BY <1>2, <3>1 DEF Commit
    <3>4. write' \in WriteT
      BY <3>1, <3>2, <3>3 DEF WriteT
    <3>5. rows' \in [Keys -> RowT] /\ nextId' \in Nat
      BY <1>2, <3>1 DEF TypeOK, PublisherOK, Commit, RowT
    <3> QED  BY <3>4, <3>5 DEF PublisherOK
  <2>2. HandlerOK'
    BY <1>2 DEF TypeOK, HandlerOK, Commit
  <2> QED  BY <1>2, <2>1, <2>2, KeepType DEF TypeOK, Commit
<1>3. CASE Publish
  <2>1. PublisherOK'
    BY <1>3 DEF TypeOK, PublisherOK, Publish, WriteT
  <2>2. ReceiverOK'
    <3>1. CASE Attached
      <4>1. Push(Published(write))
        BY <1>3, <3>1 DEF Publish
      <4>2. PICK over \in 0..Len(backlog) :
               /\ backlog' \in Seq(Envelope)
               /\ Len(backlog') <= Capacity
               /\ missed' = missed + over
               /\ lost' = lost \cup
                    {backlog[i] : i \in {j \in 1..over : backlog[j].type = "Event"}}
        BY <1>3, <4>1, PublishedType, PushShape DEF TypeOK, Publish
      <4>3. \A i \in 1..Len(backlog) : backlog[i] \in Envelope
        BY DEF TypeOK, ReceiverOK
      <4>4. lost' \subseteq EventEnv
        BY <4>2, <4>3 DEF TypeOK, ReceiverOK, Envelope, EventEnv, StateEnv
      <4> QED  BY <4>2, <4>4 DEF TypeOK, ReceiverOK
    <3>2. CASE ~Attached
      BY <1>3, <3>2, KeepType DEF TypeOK, Publish
    <3> QED  BY <3>1, <3>2
  <2> QED  BY <1>3, <2>1, <2>2, KeepType DEF TypeOK, Publish
<1> QED  BY <1>1, <1>2, <1>3 DEF Writes

(* The client, the clocks and the shutdown keep the types.                 *)
LEMMA EnvironmentType == ASSUME TypeOK, Environment PROVE TypeOK'
<1>1. ASSUME NEW k \in Keys, Age(k) PROVE TypeOK'
  <2>1. PublisherOK'
    BY <1>1 DEF TypeOK, PublisherOK, Age, RowT
  <2> QED  BY <1>1, <2>1, KeepType DEF TypeOK, Age
<1>2. ASSUME NEW m \in Requests, ClientSends(m) PROVE TypeOK'
  <2>1. ClientOK'
    BY <1>2 DEF TypeOK, ClientOK, ClientSends, InboundT
  <2> QED  BY <1>2, <2>1, KeepType DEF TypeOK, ClientSends
<1>3. CASE ClientAnswersPing
  <2>1. ClientOK'
    BY <1>3 DEF TypeOK, ClientOK, ClientAnswersPing, InboundT
  <2>2. inTime' = (pongAge < PongTicks) /\ pinged' = FALSE
    BY <1>3 DEF ClientAnswersPing
  <2>3. inTime' = TRUE \/ inTime' = FALSE
    BY <2>2
  <2>4. KeepaliveOK'
    BY <1>3, <2>2, <2>3 DEF TypeOK, KeepaliveOK, ClientAnswersPing
  <2> QED  BY <1>3, <2>1, <2>4, KeepType DEF TypeOK, ClientAnswersPing
<1>4. CASE PingTimerTicks
  <2>1. KeepaliveOK'
    BY <1>4 DEF TypeOK, KeepaliveOK, PingTimerTicks
  <2> QED  BY <1>4, <2>1, KeepType DEF TypeOK, PingTimerTicks
<1>5. CASE PongClockTicks
  <2>1. PongTicks \in Nat
    BY WsAssumption
  <2>2. pongAge' \in 0..PongTicks
    BY <1>5, <2>1 DEF TypeOK, KeepaliveOK, PongClockTicks
  <2>3. KeepaliveOK'
    BY <1>5, <2>2 DEF TypeOK, KeepaliveOK, PongClockTicks
  <2> QED  BY <1>5, <2>3, KeepType DEF TypeOK, PongClockTicks
<1>6. CASE WindowExpires
  <2>1. LagOK'
    BY <1>6 DEF TypeOK, LagOK, WindowExpires
  <2> QED  BY <1>6, <2>1, KeepType DEF TypeOK, WindowExpires
<1>7. CASE RequestShutdown
  BY <1>7, KeepType DEF TypeOK, RequestShutdown
<1>8. CASE CloseConnections
  BY <1>8, KeepType DEF TypeOK, CloseConnections
<1>9. CASE ProcessExits
  <2>1. HandlerOK'
    BY <1>9 DEF TypeOK, HandlerOK, ProcessExits, Ends
  <2> QED  BY <1>9, <2>1, KeepType DEF TypeOK, ProcessExits
<1> QED
  BY <1>1, <1>2, <1>3, <1>4, <1>5, <1>6, <1>7, <1>8, <1>9 DEF Environment

(* The first envelope of the backlog.                                      *)
LEMMA HeadType ==
    ASSUME ReceiverOK, backlog # <<>>
    PROVE  /\ Head(backlog) = backlog[1]
           /\ Head(backlog) \in Envelope
           /\ Head(backlog).key \in Keys
           /\ Head(backlog).type = "Event" => Head(backlog) \in EventEnv
           /\ Head(backlog).type # "Event" =>
                /\ Head(backlog).type = "State"
                /\ Head(backlog).cur \in States /\ Head(backlog).ver \in Nat
           /\ Tail(backlog) \in Seq(Envelope)
           /\ Len(Tail(backlog)) = Len(backlog) - 1
           /\ \A i \in 1..(Len(backlog) - 1) : Tail(backlog)[i] = backlog[i + 1]
<1>1. backlog \in Seq(Envelope)
  BY DEF ReceiverOK
<1>2. /\ Head(backlog) = backlog[1] /\ Head(backlog) \in Envelope
      /\ Tail(backlog) \in Seq(Envelope) /\ Len(Tail(backlog)) = Len(backlog) - 1
      /\ \A i \in 1..(Len(backlog) - 1) : Tail(backlog)[i] = backlog[i + 1]
  BY <1>1, HeadTailProperties
<1>3. \A x \in Envelope :
        /\ x.key \in Keys
        /\ x.type = "Event" => x \in EventEnv
        /\ x.type # "Event" => x.type = "State" /\ x.cur \in States /\ x.ver \in Nat
  BY DEF Envelope, EventEnv, StateEnv
<1> QED  BY <1>2, <1>3

(* Taking an envelope off keeps the receiver's types.                      *)
LEMMA TailType ==
    ASSUME ReceiverOK, backlog # <<>>, backlog' = Tail(backlog), UNCHANGED <<missed, lost>>
    PROVE  ReceiverOK'
<1>1. Len(backlog) \in Nat
  BY LenProperties DEF ReceiverOK
<1>2. Capacity \in Nat
  BY WsAssumption
<1>3. Len(backlog) - 1 <= Capacity
  BY <1>1, <1>2 DEF ReceiverOK
<1> QED  BY <1>3, HeadType DEF ReceiverOK

(* Receiving keeps the types.                                              *)
LEMMA ReceiveType == ASSUME TypeOK, Receive PROVE TypeOK'
<1>1. CASE DispatchFiltered
  <2>1. ReceiverOK'
    BY <1>1, TailType DEF TypeOK, DispatchFiltered, AtEnvelope
  <2> QED  BY <1>1, <2>1, KeepType DEF TypeOK, DispatchFiltered
<1>2. CASE DispatchEvent
  <2>1. ReceiverOK'
    BY <1>2, TailType DEF TypeOK, DispatchEvent, AtEnvelope
  <2>2. Head(backlog).id \in Nat
    BY <1>2, HeadType DEF TypeOK, DispatchEvent, AtEnvelope, EventEnv
  <2>3. LagOK'
    BY <1>2, <2>2 DEF TypeOK, LagOK, DispatchEvent
  <2> QED  BY <1>2, <2>1, <2>3, KeepType DEF TypeOK, DispatchEvent
<1>3. CASE DispatchState
  <2>1. ReceiverOK'
    BY <1>3, TailType DEF TypeOK, DispatchState, AtEnvelope
  <2>2. /\ Head(backlog).key \in Keys
        /\ [cur |-> Head(backlog).cur, ver |-> Head(backlog).ver] \in ShownT
    BY <1>3, HeadType DEF TypeOK, DispatchState, AtEnvelope, ShownT
  <2>3. CoverageOK'
    BY <1>3, <2>2 DEF TypeOK, CoverageOK, DispatchState
  <2> QED  BY <1>3, <2>1, <2>3, KeepType DEF TypeOK, DispatchState
<1>4. CASE LaggedUnsubscribed
  <2>1. ReceiverOK'
    BY <1>4 DEF TypeOK, ReceiverOK, LaggedUnsubscribed
  <2> QED  BY <1>4, <2>1, KeepType DEF TypeOK, LaggedUnsubscribed
<1>5. LostEvents \subseteq Nat
  BY DEF TypeOK, ReceiverOK, LostEvents, EventEnv
<1>6. CursorToFirst(lastDelivered) \in Nat
  BY DEF TypeOK, LagOK, CursorToFirst
<1>7. CASE DroppedCoalesced
  <2>1. ReceiverOK'
    BY <1>7 DEF TypeOK, ReceiverOK, DroppedCoalesced
  <2>2. LagOK'
    BY <1>5, <1>6, <1>7 DEF TypeOK, LagOK, ReceiverOK, DroppedCoalesced, SuppressedFirst
  <2>3. CoverageOK'
    BY <1>7 DEF TypeOK, CoverageOK, DroppedCoalesced, CoverageAfterLag
  <2> QED  BY <1>7, <2>1, <2>2, <2>3, KeepType DEF TypeOK, DroppedCoalesced
<1>8. CASE DroppedEmitted
  <2>1. ReceiverOK'
    BY <1>8 DEF TypeOK, ReceiverOK, DroppedEmitted
  <2>2. gap' \in GapT
    <3> DEFINE first == IF pendingFirst # -1 THEN pendingFirst ELSE CursorToFirst(lastDelivered)
               count == pendingCount + missed
    <3>1. first \in Nat /\ count \in Nat /\ first + count - 1 \in Nat
      BY <1>6, <1>8 DEF TypeOK, LagOK, ReceiverOK, DroppedEmitted
    <3>2. unreported \cup LostEvents \in SUBSET Nat
      BY <1>5 DEF TypeOK, LagOK
    <3> QED  BY <1>8, <3>1, <3>2 DEF DroppedEmitted, GapT
  <2>3. LagOK'
    BY <1>5, <1>8, <2>2 DEF TypeOK, LagOK, DroppedEmitted
  <2>4. CoverageOK'
    BY <1>8 DEF TypeOK, CoverageOK, DroppedEmitted, CoverageAfterLag
  <2> QED  BY <1>8, <2>1, <2>3, <2>4, KeepType DEF TypeOK, DroppedEmitted
<1> QED  BY <1>1, <1>2, <1>3, <1>4, <1>7, <1>8 DEF Receive
(* The snapshot steps of a subscribe keep the types.                       *)
LEMMA SnapshotType == ASSUME TypeOK, Snapshot PROVE TypeOK'
<1>1. CASE ReadClock
  <2>1. HandlerOK'
    BY <1>1 DEF TypeOK, HandlerOK, ReadClock
  <2> QED  BY <1>1, <2>1, KeepType DEF TypeOK, ReadClock
<1>2. ASSUME NEW ok \in BOOLEAN, ReadSnapshot(ok) PROVE TypeOK'
  <2>1. SnapshotForTopic(job.topic, job.states) \subseteq Frame
    <3> SUFFICES ASSUME NEW k \in Keys, rows[k].cur # "Absent"
                 PROVE  [key |-> k, cur |-> ReadAs(rows[k].cur, k \in oldRows),
                         ver |-> rows[k].ver] \in Frame
      BY DEF SnapshotForTopic
    <3>1. rows[k].cur \in States /\ rows[k].ver \in Nat
      BY DEF TypeOK, PublisherOK, RowT
    <3>2. ReadAs(rows[k].cur, k \in oldRows) \in States
      BY <3>1, WsAssumption DEF ReadAs
    <3> QED  BY <3>1, <3>2 DEF Frame
  <2>2. pc = "read" /\ job \in JobT /\ job.op = "subscribe"
    BY <1>2 DEF TypeOK, HandlerOK, ReadSnapshot
  <2>3. job.topic \in Topics /\ job' \in JobT
    <3>1. /\ job.topic \in Topics /\ job.states \in SUBSET States
          /\ job = [op |-> job.op, topic |-> job.topic, states |-> job.states,
                    read |-> job.read]
      BY <2>2 DEF JobT, NoJob
    <3>2. job' = [op |-> job.op, topic |-> job.topic, states |-> job.states, read |-> ok]
      BY <1>2, <3>1 DEF ReadSnapshot
    <3> QED  BY <2>2, <3>1, <3>2 DEF JobT
  <2>4. HandlerOK'
    BY <1>2, <2>1, <2>3 DEF TypeOK, HandlerOK, ReadSnapshot
  <2>5. CoverageOK'
    BY <1>2, <2>3 DEF TypeOK, CoverageOK, ReadSnapshot
  <2> QED  BY <1>2, <2>4, <2>5, KeepType DEF TypeOK, ReadSnapshot
<1>3. ASSUME NEW f \in burst, SendSnapshotFrame(f) PROVE TypeOK'
  <2>1. f.key \in Keys /\ [cur |-> f.cur, ver |-> f.ver] \in ShownT
    BY <1>3 DEF TypeOK, HandlerOK, Frame, ShownT
  <2>2. CoverageOK'
    BY <1>3, <2>1 DEF TypeOK, CoverageOK, SendSnapshotFrame
  <2>3. HandlerOK'
    BY <1>3 DEF TypeOK, HandlerOK, SendSnapshotFrame
  <2> QED  BY <1>3, <2>2, <2>3, KeepType DEF TypeOK, SendSnapshotFrame
<1>4. CASE SubscribeDone
  <2>1. HandlerOK'
    BY <1>4 DEF TypeOK, HandlerOK, SubscribeDone, JobT
  <2> QED  BY <1>4, <2>1, KeepType DEF TypeOK, SubscribeDone
<1> QED  BY <1>1, <1>2, <1>3, <1>4 DEF Snapshot

(* A step that only moves the task or ends it keeps the types.             *)
LEMMA MoveType ==
    ASSUME TypeOK, pc' \in {"upgrade", "hello", "loop", "closed"},
           why' \in {"open", "shutdown", "pong", "bad", "client", "send", "exit"},
           UNCHANGED <<publisher, receiver, lag, coverage, job, oldRows, burst, keepalive,
                       client, daemon>>
    PROVE  TypeOK'
<1>1. HandlerOK'
  BY DEF TypeOK, HandlerOK
<1> QED  BY <1>1, KeepType DEF TypeOK

(* The first frame of the socket.                                          *)
LEMMA InboxType ==
    ASSUME ClientOK, inbox # <<>>, inbox' = Tail(inbox), UNCHANGED frames
    PROVE  Head(inbox) \in InboundT /\ ClientOK'
<1>1. inbox \in Seq(InboundT)
  BY DEF ClientOK
<1>2. Head(inbox) \in InboundT /\ Tail(inbox) \in Seq(InboundT)
  BY <1>1, HeadTailProperties
<1> QED  BY <1>2 DEF ClientOK

(* A clock that starts is within its bound.                                *)
LEMMA ClockStarts == 0 \in 0..PongTicks
<1>1. PongTicks \in Nat
  BY WsAssumption
<1> QED  BY <1>1

(* The other arms of the connection task keep the types.                   *)
LEMMA ConnectionType == ASSUME TypeOK, Connection PROVE TypeOK'
<1>0. why \in {"open", "shutdown", "pong", "bad", "client", "send", "exit"}
  BY DEF TypeOK, HandlerOK
<1>1. CASE AcceptUpgrade
  BY <1>0, <1>1, MoveType DEF AcceptUpgrade
<1>2. CASE SubscribeReceiver
  BY <1>0, <1>2, MoveType DEF SubscribeReceiver
<1>3. CASE SendHello
  BY <1>0, <1>3, MoveType DEF SendHello
<1>4. CASE CloseRequested
  <2>1. job' \in JobT
    BY <1>4 DEF CloseRequested, JobT
  <2>2. HandlerOK'
    BY <1>4, <2>1 DEF TypeOK, HandlerOK, CloseRequested
  <2> QED  BY <1>4, <2>2, KeepType DEF TypeOK, CloseRequested
<1>5. CASE PongTimeout
  BY <1>5, MoveType DEF PongTimeout, Ends
<1>6. CASE BadMessage
  <2>1. ClientOK'
    BY <1>6, InboxType DEF TypeOK, BadMessage, AtInbound, FrameReady
  <2>2. HandlerOK'
    BY <1>6 DEF TypeOK, HandlerOK, BadMessage, Ends
  <2> QED  BY <1>6, <2>1, <2>2, KeepType DEF TypeOK, BadMessage
<1>7. CASE ClientCloses
  <2>1. ClientOK'
    BY <1>7, InboxType DEF TypeOK, ClientCloses, AtInbound, FrameReady
  <2>2. HandlerOK'
    BY <1>7 DEF TypeOK, HandlerOK, ClientCloses, Ends
  <2> QED  BY <1>7, <2>1, <2>2, KeepType DEF TypeOK, ClientCloses
<1>8. CASE PongReceived
  <2>1. ClientOK'
    BY <1>8, InboxType DEF TypeOK, PongReceived, AtInbound, FrameReady
  <2>2. KeepaliveOK'
    BY <1>8, ClockStarts DEF TypeOK, KeepaliveOK, PongReceived
  <2> QED  BY <1>8, <2>1, <2>2, KeepType DEF TypeOK, PongReceived
<1>9. CASE StartRequest
  <2>1. ClientOK' /\ Head(inbox) \in InboundT
    BY <1>9, InboxType DEF TypeOK, StartRequest, AtInbound, FrameReady
  <2>2. job' \in JobT
    <3> DEFINE m == Head(inbox)
    <3>1. m.op \in {"subscribe", "unsubscribe"}
      BY <1>9 DEF StartRequest
    <3>2. m.topic \in Topics /\ m.states \subseteq States
      BY <2>1, <3>1, WsAssumption DEF InboundT, Requests, Pong
    <3>3. job' = [op |-> m.op, topic |-> m.topic, states |-> m.states, read |-> FALSE]
      BY <1>9 DEF StartRequest
    <3> QED  BY <3>1, <3>2, <3>3 DEF JobT
  <2>3. HandlerOK'
    BY <1>9, <2>2 DEF TypeOK, HandlerOK, StartRequest
  <2> QED  BY <1>9, <2>1, <2>3, KeepType DEF TypeOK, StartRequest
<1>10. CASE PingTick
  <2>1. KeepaliveOK'
    <3>1. CASE awaitingPong
      BY <1>10, <3>1 DEF TypeOK, KeepaliveOK, PingTick
    <3>2. CASE ~awaitingPong
      BY <1>10, <3>2, ClockStarts DEF TypeOK, KeepaliveOK, PingTick
    <3> QED  BY <3>1, <3>2
  <2> QED  BY <1>10, <2>1, KeepType DEF TypeOK, PingTick
<1>11. CASE ApplyUnsubscribe
  <2>1. CoverageOK'
    BY <1>11 DEF TypeOK, CoverageOK, ApplyUnsubscribe, Retained
  <2>2. HandlerOK'
    BY <1>11 DEF TypeOK, HandlerOK, ApplyUnsubscribe, JobT
  <2> QED  BY <1>11, <2>1, <2>2, KeepType DEF TypeOK, ApplyUnsubscribe
<1>12. CASE CloseForShutdown
  BY <1>12, MoveType DEF CloseForShutdown, Ends
<1>13. CASE SendFails
  BY <1>13, MoveType DEF SendFails, Ends
<1> QED
  BY <1>1, <1>2, <1>3, <1>4, <1>5, <1>6, <1>7, <1>8, <1>9, <1>10, <1>11, <1>12, <1>13,
     ReceiveType, SnapshotType DEF Connection

(* The state space starts well-typed.                                      *)
LEMMA InitType == ASSUME Init PROVE TypeOK
<1>1. PublisherOK
  <2>1. [cur : States \cup {"Absent"}, ver : {0}, old : {FALSE}] \subseteq RowT
    <3> SUFFICES ASSUME NEW r \in [cur : States \cup {"Absent"}, ver : {0}, old : {FALSE}]
                 PROVE  r \in RowT
      OBVIOUS
    <3>1. /\ r = [cur |-> r.cur, ver |-> r.ver, old |-> r.old]
          /\ r.cur \in States \cup {"Absent"} /\ r.ver \in {0} /\ r.old \in {FALSE}
      OBVIOUS
    <3>2. r.ver \in Nat /\ r.old \in BOOLEAN
      <4>1. r.ver \in Nat
        BY <3>1
      <4> QED  BY <3>1, <4>1, Zenon
    <3> QED  BY <3>1, <3>2 DEF RowT
  <2>2. rows \in [Keys -> RowT]
    BY <2>1 DEF Init
  <2> QED  BY <2>2 DEF Init, PublisherOK, WriteT
<1>2. ReceiverOK
  BY WsAssumption DEF Init, ReceiverOK
<1>3. LagOK
  BY DEF Init, LagOK, GapT, NoGap
<1>4. CoverageOK
  BY DEF Init, CoverageOK, ShownT, NoFrame
<1>5. HandlerOK
  BY DEF Init, HandlerOK, JobT
<1>6. KeepaliveOK
  BY ClockStarts DEF Init, KeepaliveOK
<1>7. ClientOK
  BY DEF Init, ClientOK
<1> QED  BY <1>1, <1>2, <1>3, <1>4, <1>5, <1>6, <1>7 DEF Init, TypeOK

(* A step of the system, or none, keeps the types.                         *)
LEMMA StepType == ASSUME TypeOK, [Next]_vars PROVE TypeOK'
<1>1. ASSUME UNCHANGED vars PROVE TypeOK'
  BY <1>1, KeepType DEF TypeOK, vars
<1> QED
  BY <1>1, WritesType, EnvironmentType, ConnectionType DEF Next, Over

(* Type correctness of the connection, for every set of sessions and       *)
(* topics and every capacity: the positions an eviction leaves in the      *)
(* backlog are at most ws_broadcast_capacity envelopes, and the bounds of  *)
(* a Dropped frame are ids (api/ws.rs, coalesce_decision).                 *)
THEOREM WsTypeCorrect == Spec => []TypeOK
<1>1. Init => TypeOK
  BY InitType
<1>2. TypeOK /\ [Next]_vars => TypeOK'
  BY StepType
<1> QED  BY <1>1, <1>2, PTL DEF Spec

-----------------------------------------------------------------------------
(* The snapshot and the live frames of a connection agree: a session        *)
(* counted as delivered is one whose current state the client has or is    *)
(* about to get.                                                           *)

(* The inductive invariant.                                                *)

\* Versions of a session grow along the backlog.
VersionsAscend ==
    \A k \in Keys : \A i, j \in 1..Len(backlog) :
        i < j /\ StateAt(i, k) /\ StateAt(j, k) => backlog[i].ver < backlog[j].ver

\* None is ahead of the row, nor level with it while a newer one is pending.
NoneAhead ==
    \A k \in Keys : \A i \in 1..Len(backlog) :
        StateAt(i, k) => /\ backlog[i].ver <= rows[k].ver
                         /\ Pending(k) => backlog[i].ver < rows[k].ver

\* A State in the backlog is followed by the current one of its session.
Follows ==
    pc # "closed" =>
        \A k \in Keys : \A i \in 1..Len(backlog) : StateAt(i, k) => Coming(k)

\* A snapshot frame not yet sent is current, or a newer one is to come.
BurstIsCurrent ==
    pc # "closed" /\ missed = 0 =>
        \A f \in burst : f.ver = rows[f.key].ver \/ Coming(f.key)

\* Its session is under a topic of the connection.
BurstIsTracked ==
    /\ burst = {} \/ pc \in {"burst", "closed"}
    /\ \A f \in burst : \E t \in subscriptions : CoversStateSession(t, f.key.sid)

\* Nothing is received or delivered before the receiver exists.
NothingYet ==
    pc \in {"none", "upgrade"} =>
        backlog = <<>> /\ missed = 0 /\ snapshotted = {} /\ burst = {}

CoverageInv ==
    /\ VersionsAscend /\ NoneAhead /\ Follows
    /\ BurstIsCurrent /\ BurstIsTracked /\ NothingYet
    /\ CoverageIsTracked /\ CoveredIsCurrent

\* The tasks that write have ended before the connection says it is over.
ShutdownInv ==
    /\ daemon = "closing" => write = NoWrite
    /\ job.op = "shutdown" => daemon = "closing"
    /\ why = "shutdown" => pc = "closed" /\ daemon = "closing"
    /\ FinalStateBeforeClose

-----------------------------------------------------------------------------
(* Steps that leave the channel and the coverage alone.                    *)

(* The task may move on, or end, as long as no snapshot frame is left      *)
(* behind; the publisher may do what does not show in a version.           *)
LEMMA QuietKeeps ==
    ASSUME TypeOK, CoverageInv,
           UNCHANGED <<backlog, missed, subscriptions, snapshotted, shown, burst>>,
           \A k \in Keys : rows'[k].ver = rows[k].ver,
           \A k \in Keys : Pending(k)' <=> Pending(k),
           pc' \in {"none", "upgrade"} => pc \in {"none", "upgrade"},
           burst = {} \/ pc' \in {pc, "closed"},
           pc = "closed" => pc' = "closed"
    PROVE  CoverageInv'
<1>1. \A k \in Keys : Coming(k)' <=> Coming(k)
  BY DEF Coming, Queued, StateAt
<1>2. VersionsAscend'
  BY DEF CoverageInv, VersionsAscend, StateAt
<1>3. NoneAhead'
  BY DEF CoverageInv, NoneAhead, StateAt
<1>4. Follows'
  BY <1>1 DEF CoverageInv, Follows, StateAt
<1>5. \A f \in burst : f.key \in Keys
  BY DEF TypeOK, HandlerOK, Frame
<1>6. BurstIsCurrent'
  BY <1>1, <1>5 DEF CoverageInv, BurstIsCurrent
<1>7. BurstIsTracked'
  BY DEF CoverageInv, BurstIsTracked
<1>8. NothingYet'
  BY DEF CoverageInv, NothingYet
<1>9. CoverageIsTracked'
  BY DEF CoverageInv, CoverageIsTracked
<1>10. CoveredIsCurrent'
  BY <1>1 DEF CoverageInv, CoveredIsCurrent, UpToDate, TypeOK, CoverageOK
<1> QED
  BY <1>2, <1>3, <1>4, <1>6, <1>7, <1>8, <1>9, <1>10 DEF CoverageInv

(* The steps of the environment and the arms that only move the task.      *)
LEMMA UnchangedPublisher ==
    ASSUME UNCHANGED <<rows, write>>
    PROVE  /\ \A k \in Keys : rows'[k].ver = rows[k].ver
           /\ \A k \in Keys : Pending(k)' <=> Pending(k)
  BY DEF Pending

\* Commits, publications, requests and the end of the daemon keep coverage.
LEMMA EnvironmentKeeps == ASSUME TypeOK, CoverageInv, Environment PROVE CoverageInv'
<1>1. ASSUME NEW k \in Keys, Age(k) PROVE CoverageInv'
  <2>1. \A j \in Keys : rows'[j].ver = rows[j].ver
    BY <1>1 DEF Age, TypeOK, PublisherOK, RowT
  <2>2. \A j \in Keys : Pending(j)' <=> Pending(j)
    BY <1>1 DEF Age, Pending
  <2> QED
    BY <1>1, <2>1, <2>2, QuietKeeps DEF Age, receiver, coverage, handler
<1>2. ASSUME NEW m \in Requests, ClientSends(m) PROVE CoverageInv'
  BY <1>2, QuietKeeps, UnchangedPublisher
     DEF ClientSends, publisher, receiver, coverage, handler
<1>3. CASE ClientAnswersPing
  BY <1>3, QuietKeeps, UnchangedPublisher
     DEF ClientAnswersPing, publisher, receiver, coverage, handler
<1>4. CASE PingTimerTicks
  BY <1>4, QuietKeeps, UnchangedPublisher
     DEF PingTimerTicks, publisher, receiver, coverage, handler
<1>5. CASE PongClockTicks
  BY <1>5, QuietKeeps, UnchangedPublisher
     DEF PongClockTicks, publisher, receiver, coverage, handler
<1>6. CASE WindowExpires
  BY <1>6, QuietKeeps, UnchangedPublisher
     DEF WindowExpires, publisher, receiver, coverage, handler
<1>7. CASE RequestShutdown
  BY <1>7, QuietKeeps, UnchangedPublisher
     DEF RequestShutdown, publisher, receiver, coverage, handler
<1>8. CASE CloseConnections
  BY <1>8, QuietKeeps, UnchangedPublisher
     DEF CloseConnections, publisher, receiver, coverage, handler
<1>9. CASE ProcessExits
  BY <1>9, QuietKeeps, UnchangedPublisher
     DEF ProcessExits, Ends, publisher, receiver, coverage
<1> QED
  BY <1>1, <1>2, <1>3, <1>4, <1>5, <1>6, <1>7, <1>8, <1>9 DEF Environment

-----------------------------------------------------------------------------
(* The publisher.                                                          *)

(* A commit that changes the state makes a version that is pending; one    *)
(* that does not, none.                                                    *)
LEMMA CommitKeeps == ASSUME TypeOK, CoverageInv, Commit PROVE CoverageInv'
<1> DEFINE w == write.key
           changed == StateChanged(rows[w], write)
<1>1. /\ w \in Keys /\ \A k \in Keys : rows[k].ver \in Nat
      /\ write = [step |-> "stamped", key |-> w, cur |-> write.cur, old |-> write.old,
                  changed |-> write.changed]
  BY DEF TypeOK, PublisherOK, Commit, WriteT, NoWrite, RowT
<1>2. \A k \in Keys : ~Pending(k)
  BY DEF Commit, Pending
<1>3. /\ write'.step = "committed" /\ write'.key = w
      /\ write'.changed = changed
  BY <1>1 DEF Commit
<1>4. rows'[w].ver = rows[w].ver + (IF changed THEN 1 ELSE 0)
  BY <1>1 DEF Commit, TypeOK, PublisherOK
<1>5. \A k \in Keys : k # w => rows'[k].ver = rows[k].ver
  BY <1>1 DEF Commit, TypeOK, PublisherOK
<1>6. \A k \in Keys : Pending(k)' <=> k = w /\ changed
  BY <1>3 DEF Pending
<1>7. \A k \in Keys : ~Pending(k)' => rows'[k].ver = rows[k].ver
  BY <1>1, <1>4, <1>5, <1>6
<1>8. \A k \in Keys : Pending(k)' => rows'[k].ver = rows[k].ver + 1
  BY <1>4, <1>6
<1>9. UNCHANGED <<backlog, missed, subscriptions, snapshotted, shown, burst, pc>>
  BY DEF Commit, receiver, coverage
<1>10. \A k \in Keys : Coming(k) => Coming(k)'
  BY <1>2, <1>7, <1>9 DEF Coming, Queued, StateAt
<1>11. \A k \in Keys : ~Coming(k)' => rows'[k].ver = rows[k].ver
  BY <1>7 DEF Coming
<1>12. VersionsAscend'
  BY <1>9 DEF CoverageInv, VersionsAscend, StateAt
<1>13. NoneAhead'
  <2> SUFFICES ASSUME NEW k \in Keys, NEW i \in 1..Len(backlog), StateAt(i, k)
               PROVE  /\ backlog[i].ver <= rows'[k].ver
                      /\ Pending(k)' => backlog[i].ver < rows'[k].ver
    BY <1>9 DEF NoneAhead, StateAt
  <2>1. backlog[i].ver \in Nat
    BY DEF TypeOK, ReceiverOK, Envelope, EventEnv, StateEnv, StateAt
  <2>2. backlog[i].ver <= rows[k].ver
    BY DEF CoverageInv, NoneAhead
  <2>3. CASE Pending(k)'
    BY <1>1, <1>8, <2>1, <2>2, <2>3
  <2>4. CASE ~Pending(k)'
    BY <1>7, <2>2, <2>4
  <2> QED  BY <2>3, <2>4
<1>14. Follows'
  BY <1>9, <1>10 DEF CoverageInv, Follows, StateAt
<1>15. \A f \in burst : f.key \in Keys
  BY DEF TypeOK, HandlerOK, Frame
<1>16. BurstIsCurrent'
  BY <1>9, <1>10, <1>11, <1>15 DEF CoverageInv, BurstIsCurrent
<1>17. BurstIsTracked' /\ NothingYet' /\ CoverageIsTracked'
  BY <1>9 DEF CoverageInv, BurstIsTracked, NothingYet, CoverageIsTracked
<1>18. CoveredIsCurrent'
  BY <1>9, <1>10, <1>11
     DEF CoverageInv, CoveredIsCurrent, UpToDate, TypeOK, CoverageOK
<1> QED
  BY <1>12, <1>13, <1>14, <1>16, <1>17, <1>18 DEF CoverageInv

(* What a publication does to a receiver: the States left are old ones,    *)
(* moved down by the number evicted, and the one that was pending, last.   *)
LEMMA PublishShape ==
    ASSUME TypeOK, Publish, Attached
    PROVE  \E over \in 0..Len(backlog) :
             /\ missed' = missed + over
             /\ Len(backlog') \in Nat /\ Len(backlog) - over < Len(backlog')
             /\ \A i \in 1..(Len(backlog) - over) : backlog'[i] = backlog[i + over]
             /\ \A k \in Keys : \A i \in 1..Len(backlog') :
                  Len(backlog) - over < i /\ StateAt(i, k)' =>
                    Pending(k) /\ i = Len(backlog') /\ backlog'[i].ver = rows[k].ver
             /\ \A k \in Keys : Pending(k) =>
                  StateAt(Len(backlog), k)' /\ backlog'[Len(backlog')].ver = rows[k].ver
<1>1. write.step = "committed" /\ Push(Published(write))
  BY DEF Publish
<1>2. /\ write.key \in Keys /\ Published(write) \in Seq(Envelope)
      /\ \E e \in 1..2 : Len(Published(write)) = e
  BY <1>1, PublishedType DEF TypeOK
<1>3. PICK e \in 1..2 : Len(Published(write)) = e
  BY <1>2
<1>4. PICK over \in 0..Len(backlog) :
             /\ Len(backlog') = Len(backlog) + e - over
             /\ missed' = missed + over
             /\ \A i \in 1..(Len(backlog) - over) : backlog'[i] = backlog[i + over]
             /\ \A i \in 1..e : backlog'[Len(backlog) - over + i] = Published(write)[i]
  BY <1>1, <1>2, <1>3, PushShape DEF TypeOK
<1>5. Len(backlog) \in Nat
  BY LenProperties DEF TypeOK, ReceiverOK
<1>6. PICK d \in Nat : d = Len(backlog) - over
  BY <1>5
<1>7. Len(backlog') = d + e /\ d < d + e
  BY <1>4, <1>5, <1>6
<1>8. /\ Published(write)[1].type = "Event"
      /\ e = 2 => /\ write.changed
                  /\ Published(write)[2] =
                       [type |-> "State", key |-> write.key, cur |-> write.cur,
                        ver |-> rows[write.key].ver]
      /\ write.changed => e = 2
  <2>1. CASE write.changed
    BY <1>3, <2>1 DEF Published
  <2>2. CASE ~write.changed
    BY <1>3, <2>2 DEF Published
  <2> QED  BY <2>1, <2>2
<1>9. \A i \in 1..e : backlog'[d + i] = Published(write)[i]
  BY <1>4, <1>6
<1>10. \A k \in Keys : \A i \in 1..Len(backlog') :
         d < i /\ StateAt(i, k)' =>
           Pending(k) /\ i = Len(backlog') /\ backlog'[i].ver = rows[k].ver
  <2> SUFFICES ASSUME NEW k \in Keys, NEW i \in 1..(d + e), d < i,
                      backlog'[i].type = "State", backlog'[i].key = k
               PROVE  Pending(k) /\ i = d + e /\ backlog'[i].ver = rows[k].ver
    BY <1>7 DEF StateAt
  <2>1. PICK j \in 1..e : i = d + j
    <3>1. i - d \in 1..e /\ i = d + (i - d)
      BY <1>6
    <3> QED  BY <3>1
  <2>2. backlog'[i] = Published(write)[j]
    BY <1>9, <2>1
  <2>3. j # 1
    BY <1>8, <2>2
  <2>4. j = 2 /\ e = 2
    BY <2>3
  <2> QED  BY <1>1, <1>8, <2>1, <2>2, <2>4 DEF Pending
<1>11. \A k \in Keys : Pending(k) =>
         /\ backlog'[Len(backlog')].type = "State" /\ backlog'[Len(backlog')].key = k
         /\ backlog'[Len(backlog')].ver = rows[k].ver
  <2> SUFFICES ASSUME NEW k \in Keys, Pending(k)
               PROVE  /\ backlog'[Len(backlog')].type = "State"
                      /\ backlog'[Len(backlog')].key = k
                      /\ backlog'[Len(backlog')].ver = rows[k].ver
    OBVIOUS
  <2>1. e = 2 /\ k = write.key
    BY <1>8 DEF Pending
  <2>2. backlog'[Len(backlog')] = Published(write)[2]
    BY <1>7, <1>9, <2>1
  <2> QED  BY <1>8, <2>1, <2>2
<1>12. \A k \in Keys : Pending(k) =>
         StateAt(Len(backlog), k)' /\ backlog'[Len(backlog')].ver = rows[k].ver
  BY <1>11 DEF StateAt
<1>13. Len(backlog') \in Nat /\ d < Len(backlog')
  BY <1>7
<1> QED  BY <1>4, <1>6, <1>10, <1>12, <1>13

(* A publication: what was pending is in the backlog, and an eviction      *)
(* takes the older versions of a session before the newer ones.            *)
LEMMA PublishKeeps == ASSUME TypeOK, CoverageInv, Publish PROVE CoverageInv'
<1>0. /\ UNCHANGED <<rows, subscriptions, snapshotted, shown, burst, pc>>
      /\ write' = NoWrite
  BY DEF Publish, coverage, handler
<1>1. \A k \in Keys : ~Pending(k)'
  BY <1>0 DEF Pending, NoWrite
<1>2. \A f \in burst : f.key \in Keys
  BY DEF TypeOK, HandlerOK, Frame
<1>3. CASE ~Attached
  <2>1. UNCHANGED <<backlog, missed>>
    BY <1>3 DEF Publish, receiver
  <2>2. VersionsAscend' /\ NoneAhead'
    BY <1>0, <1>1, <2>1 DEF CoverageInv, VersionsAscend, NoneAhead, StateAt
  <2>3. pc = "closed" \/ (backlog = <<>> /\ snapshotted = {} /\ burst = {})
    BY <1>3 DEF Attached, CoverageInv, NothingYet
  <2>4. Follows'
    BY <1>0, <2>1, <2>3 DEF Follows
  <2>5. BurstIsCurrent' /\ CoveredIsCurrent'
    BY <1>0, <2>3 DEF BurstIsCurrent, CoveredIsCurrent
  <2>6. BurstIsTracked' /\ NothingYet' /\ CoverageIsTracked'
    BY <1>0, <2>1 DEF CoverageInv, BurstIsTracked, NothingYet, CoverageIsTracked
  <2> QED  BY <2>2, <2>4, <2>5, <2>6 DEF CoverageInv
<1>4. CASE Attached
  <2>0. PICK over \in 0..Len(backlog) :
             /\ missed' = missed + over
             /\ Len(backlog') \in Nat /\ Len(backlog) - over < Len(backlog')
             /\ \A i \in 1..(Len(backlog) - over) : backlog'[i] = backlog[i + over]
             /\ \A k \in Keys : \A i \in 1..Len(backlog') :
                  Len(backlog) - over < i /\ StateAt(i, k)' =>
                    Pending(k) /\ i = Len(backlog') /\ backlog'[i].ver = rows[k].ver
             /\ \A k \in Keys : Pending(k) =>
                  StateAt(Len(backlog), k)' /\ backlog'[Len(backlog')].ver = rows[k].ver
    BY <1>4, PublishShape
  <2>1. Len(backlog) \in Nat
    BY LenProperties DEF TypeOK, ReceiverOK
  <2>2. PICK d \in Nat : d = Len(backlog) - over
    BY <2>1
  <2>3. \A i \in 1..d : i + over \in 1..Len(backlog) /\ i \in 1..Len(backlog')
    BY <2>0, <2>1, <2>2
  <2>4. \A k \in Keys : \A i \in 1..d :
          /\ backlog'[i] = backlog[i + over]
          /\ StateAt(i, k)' <=> StateAt(i + over, k)
    BY <2>0, <2>2 DEF StateAt
  <2>5. \A k \in Keys : \A i \in 1..Len(backlog') :
          StateAt(i, k)' => \/ i \in 1..d
                            \/ Pending(k) /\ i = Len(backlog') /\ backlog'[i].ver = rows[k].ver
    BY <2>0, <2>1, <2>2
  <2>6. \A k \in Keys : Pending(k) => Coming(k)'
    <3>1. Len(backlog') \in 1..Len(backlog')
      BY <2>0, <2>2
    <3> QED  BY <1>0, <2>0, <3>1 DEF Coming, Queued
  <2>7. VersionsAscend'
    <3> SUFFICES ASSUME NEW k \in Keys, NEW i \in 1..Len(backlog'), NEW j \in 1..Len(backlog'),
                        i < j, StateAt(i, k)', StateAt(j, k)'
                 PROVE  backlog'[i].ver < backlog'[j].ver
      BY DEF VersionsAscend
    <3>1. i \in 1..d
      BY <2>0, <2>5
    <3>2. CASE j \in 1..d
      <4>1. i + over < j + over
        BY <3>1, <3>2, <2>2
      <4> QED  BY <2>3, <2>4, <3>1, <3>2, <4>1 DEF CoverageInv, VersionsAscend
    <3>3. CASE j \notin 1..d
      BY <2>3, <2>4, <2>5, <3>1, <3>3 DEF CoverageInv, NoneAhead
    <3> QED  BY <3>2, <3>3
  <2>8. NoneAhead'
    <3> SUFFICES ASSUME NEW k \in Keys, NEW i \in 1..Len(backlog'), StateAt(i, k)'
                 PROVE  backlog'[i].ver <= rows[k].ver
      BY <1>0, <1>1 DEF NoneAhead
    <3>1. rows[k].ver \in Nat
      BY DEF TypeOK, PublisherOK, RowT
    <3>2. CASE i \in 1..d
      BY <2>3, <2>4, <3>2 DEF CoverageInv, NoneAhead
    <3>3. CASE i \notin 1..d
      BY <2>5, <3>1, <3>3
    <3> QED  BY <3>2, <3>3
  <2>9. ASSUME NEW k \in Keys, NEW j \in 1..Len(backlog), j > over, StateAt(j, k),
               backlog[j].ver = rows[k].ver
        PROVE  Coming(k)'
    <3>1. PICK i \in 1..d : j = i + over
      <4>1. j - over \in 1..d /\ j = (j - over) + over
        BY <2>1, <2>2, <2>9
      <4> QED  BY <4>1
    <3> QED  BY <1>0, <2>3, <2>4, <2>9, <3>1 DEF Coming, Queued
  <2>10. Follows'
    <3> SUFFICES ASSUME pc # "closed", NEW k \in Keys, NEW i \in 1..d, StateAt(i, k)'
                 PROVE  Coming(k)'
      BY <1>0, <2>5, <2>6 DEF Follows
    <3>1. StateAt(i + over, k) /\ i + over \in 1..Len(backlog)
      BY <2>3, <2>4
    <3>2. CASE Pending(k)
      BY <2>6, <3>2
    <3>3. CASE ~Pending(k)
      <4>1. PICK j \in 1..Len(backlog) : StateAt(j, k) /\ backlog[j].ver = rows[k].ver
        BY <3>1, <3>3 DEF CoverageInv, Follows, Coming, Queued
      <4>2. backlog[i + over].ver <= backlog[j].ver
        BY <3>1, <4>1 DEF CoverageInv, NoneAhead
      <4>3. backlog[j].ver \in Nat /\ backlog[i + over].ver \in Nat
        BY <3>1, <4>1 DEF TypeOK, ReceiverOK, Envelope, EventEnv, StateEnv, StateAt
      <4>4. ~(j < i + over)
        BY <3>1, <4>1, <4>2, <4>3 DEF CoverageInv, VersionsAscend
      <4>5. j > over
        BY <2>1, <4>4
      <4> QED  BY <2>9, <4>1, <4>5
    <3> QED  BY <3>2, <3>3
  <2>11. missed' = 0 => missed = 0 /\ over = 0
    BY <2>0, <2>1 DEF TypeOK, ReceiverOK
  <2>12. \A k \in Keys : missed' = 0 /\ Coming(k) => Coming(k)'
    <3> SUFFICES ASSUME NEW k \in Keys, over = 0, Queued(k, rows[k].ver)
                 PROVE  Coming(k)'
      BY <2>6, <2>11 DEF Coming
    <3> QED  BY <2>9 DEF Queued
  <2>13. BurstIsCurrent'
    BY <1>0, <1>2, <2>11, <2>12 DEF CoverageInv, BurstIsCurrent
  <2>14. CoveredIsCurrent'
    BY <1>0, <2>11, <2>12
       DEF CoverageInv, CoveredIsCurrent, UpToDate, TypeOK, CoverageOK
  <2>15. BurstIsTracked' /\ NothingYet' /\ CoverageIsTracked'
    BY <1>0, <1>4
       DEF CoverageInv, BurstIsTracked, NothingYet, CoverageIsTracked, Attached
  <2> QED
    BY <2>7, <2>8, <2>10, <2>13, <2>14, <2>15 DEF CoverageInv
<1> QED  BY <1>3, <1>4

(* The publisher.                                                          *)
LEMMA WritesKeep == ASSUME TypeOK, CoverageInv, Writes PROVE CoverageInv'
<1>1. ASSUME NEW k \in Keys, NEW cur \in States, Stamp(k, cur) PROVE CoverageInv'
  <2>1. \A j \in Keys : Pending(j)' <=> Pending(j)
    BY <1>1 DEF Stamp, Pending, NoWrite
  <2> QED
    BY <1>1, <2>1, QuietKeeps DEF Stamp, receiver, coverage, handler
<1> QED  BY <1>1, CommitKeeps, PublishKeeps DEF Writes

-----------------------------------------------------------------------------
(* Receiving.                                                              *)

(* Taking the first envelope off: what was to come still is, unless it was *)
(* that envelope.                                                          *)
LEMMA DequeueKeeps ==
    ASSUME TypeOK, CoverageInv, AtEnvelope, backlog' = Tail(backlog),
           UNCHANGED <<rows, write, missed, subscriptions, burst, pc>>
    PROVE  /\ VersionsAscend' /\ NoneAhead' /\ Follows'
           /\ BurstIsCurrent' /\ BurstIsTracked' /\ NothingYet'
           /\ \A k \in Keys : Coming(k) =>
                Coming(k)' \/ (StateAt(1, k) /\ backlog[1].ver = rows[k].ver)
           /\ \A k \in Keys : StateAt(1, k) =>
                Coming(k)' \/ backlog[1].ver = rows[k].ver
<1>1. /\ pc \in {"loop", "drain"} /\ backlog # <<>>
      /\ burst = {}
  BY DEF AtEnvelope, AtReceive, CoverageInv, BurstIsTracked
<1>2. PICK n \in Nat : n = Len(backlog) - 1 /\ Len(backlog) = n + 1
  <2>1. Len(backlog) \in Nat /\ Len(backlog) # 0
    BY <1>1, LenProperties, EmptySeq DEF TypeOK, ReceiverOK
  <2> QED  BY SMTT(30), <2>1
<1>3. Len(backlog') = n /\ \A i \in 1..n : backlog'[i] = backlog[i + 1]
  BY <1>1, <1>2, HeadType DEF TypeOK
<1>4. \A i \in 1..n : i + 1 \in 1..Len(backlog)
  BY <1>2
<1>5. \A k \in Keys : \A i \in 1..n : StateAt(i, k)' <=> StateAt(i + 1, k)
  BY <1>3 DEF StateAt
<1>6. \A k \in Keys : Pending(k)' <=> Pending(k)
  BY DEF Pending
<1>7. VersionsAscend'
  <2> SUFFICES ASSUME NEW k \in Keys, NEW i \in 1..n, NEW j \in 1..n, i < j,
                      StateAt(i, k)', StateAt(j, k)'
               PROVE  backlog'[i].ver < backlog'[j].ver
    BY <1>3 DEF VersionsAscend
  <2>1. i + 1 < j + 1
    OBVIOUS
  <2> QED  BY <1>3, <1>4, <1>5, <2>1 DEF CoverageInv, VersionsAscend
<1>8. NoneAhead'
  BY <1>3, <1>4, <1>5, <1>6 DEF CoverageInv, NoneAhead
<1>9. ASSUME NEW k \in Keys, NEW j \in 1..Len(backlog), j # 1, StateAt(j, k),
             backlog[j].ver = rows[k].ver
      PROVE  Coming(k)'
  <2>1. PICK i \in 1..n : j = i + 1
    <3>1. j - 1 \in 1..n /\ j = (j - 1) + 1
      BY <1>2, <1>9
    <3> QED  BY <3>1
  <2> QED  BY <1>3, <1>5, <1>9, <2>1 DEF Coming, Queued
<1>10. \A k \in Keys : Coming(k) =>
         Coming(k)' \/ (StateAt(1, k) /\ backlog[1].ver = rows[k].ver)
  <2> SUFFICES ASSUME NEW k \in Keys, Coming(k)
               PROVE  Coming(k)' \/ (StateAt(1, k) /\ backlog[1].ver = rows[k].ver)
    OBVIOUS
  <2>1. CASE Pending(k)
    BY <1>6, <2>1 DEF Coming
  <2>2. CASE ~Pending(k)
    <3>1. PICK j \in 1..Len(backlog) : StateAt(j, k) /\ backlog[j].ver = rows[k].ver
      BY <2>2 DEF Coming, Queued
    <3>2. CASE j = 1
      BY <3>1, <3>2
    <3>3. CASE j # 1
      BY <1>9, <3>1, <3>3
    <3> QED  BY <3>2, <3>3
  <2> QED  BY <2>1, <2>2
<1>11. 1 \in 1..Len(backlog)
  BY <1>2
<1>12. \A k \in Keys : StateAt(1, k) => Coming(k)' \/ backlog[1].ver = rows[k].ver
  BY <1>1, <1>10, <1>11 DEF CoverageInv, Follows
<1>13. Follows'
  <2> SUFFICES ASSUME NEW k \in Keys, NEW i \in 1..n, StateAt(i, k)'
               PROVE  Coming(k)'
    BY <1>3 DEF Follows
  <2>1. StateAt(i + 1, k) /\ i + 1 \in 1..Len(backlog) /\ 1 < i + 1
    BY <1>4, <1>5
  <2>2. Coming(k)
    BY <1>1, <2>1 DEF CoverageInv, Follows
  <2>3. ASSUME StateAt(1, k), backlog[1].ver = rows[k].ver PROVE FALSE
    <3>1. backlog[1].ver < backlog[i + 1].ver
      BY <1>11, <2>1, <2>3 DEF CoverageInv, VersionsAscend
    <3>2. backlog[i + 1].ver <= rows[k].ver
      BY <2>1 DEF CoverageInv, NoneAhead
    <3>3. backlog[i + 1].ver \in Nat /\ rows[k].ver \in Nat
      BY <2>1 DEF TypeOK, ReceiverOK, Envelope, EventEnv, StateEnv, StateAt, PublisherOK, RowT
    <3> QED  BY <2>3, <3>1, <3>2, <3>3
  <2> QED  BY <1>10, <2>2, <2>3
<1>14. BurstIsCurrent' /\ BurstIsTracked' /\ NothingYet'
  BY <1>1 DEF BurstIsCurrent, BurstIsTracked, NothingYet
<1> QED  BY <1>7, <1>8, <1>10, <1>12, <1>13, <1>14

(* After a lag nothing counts as delivered.                                *)
LEMMA LagKeeps ==
    ASSUME TypeOK, CoverageInv, AtReceive, snapshotted' = {},
           UNCHANGED <<rows, write, backlog, subscriptions, burst, pc>>
    PROVE  CoverageInv'
<1>1. pc \in {"loop", "drain"} /\ burst = {}
  BY DEF AtReceive, CoverageInv, BurstIsTracked
<1>2. \A k \in Keys : Coming(k)' <=> Coming(k)
  BY DEF Coming, Queued, StateAt, Pending
<1>3. VersionsAscend' /\ NoneAhead'
  BY DEF CoverageInv, VersionsAscend, NoneAhead, StateAt, Pending
<1>4. Follows'
  BY <1>2 DEF CoverageInv, Follows, StateAt
<1>5. BurstIsCurrent' /\ BurstIsTracked' /\ NothingYet'
  BY <1>1 DEF BurstIsCurrent, BurstIsTracked, NothingYet
<1>6. CoverageIsTracked' /\ CoveredIsCurrent'
  BY DEF CoverageIsTracked, CoveredIsCurrent
<1> QED  BY <1>3, <1>4, <1>5, <1>6 DEF CoverageInv

\* So does every arm that takes an envelope or a lag,
LEMMA ReceiveKeeps == ASSUME TypeOK, CoverageInv, Receive PROVE CoverageInv'
<1>0. /\ ReceiverOK /\ snapshotted \subseteq Keys /\ shown \in [Keys -> ShownT]
  BY DEF TypeOK, CoverageOK
<1>1. CASE DispatchFiltered
  <2>1. /\ AtEnvelope /\ backlog' = Tail(backlog) /\ ~Subscribed(Head(backlog))
        /\ UNCHANGED <<rows, write, missed, subscriptions, snapshotted, shown, burst, pc>>
    BY <1>1 DEF DispatchFiltered, publisher, coverage, handler
  <2>2. Head(backlog) = backlog[1]
    BY <1>0, <2>1, HeadType DEF AtEnvelope
  <2>3. \A k \in snapshotted : ~StateAt(1, k)
    BY <2>1, <2>2 DEF CoverageInv, CoverageIsTracked, Subscribed, Matches, StateAt
  <2>4. CoveredIsCurrent'
    BY <1>0, <2>1, <2>3, DequeueKeeps DEF CoverageInv, CoveredIsCurrent, UpToDate
  <2>5. CoverageIsTracked'
    BY <2>1 DEF CoverageInv, CoverageIsTracked
  <2> QED  BY <2>1, <2>4, <2>5, DequeueKeeps DEF CoverageInv
<1>2. CASE DispatchEvent
  <2>1. /\ AtEnvelope /\ backlog' = Tail(backlog) /\ Head(backlog).type = "Event"
        /\ UNCHANGED <<rows, write, missed, subscriptions, snapshotted, shown, burst, pc>>
    BY <1>2 DEF DispatchEvent, publisher, coverage, handler
  <2>2. Head(backlog) = backlog[1]
    BY <1>0, <2>1, HeadType DEF AtEnvelope
  <2>3. \A k \in snapshotted : ~StateAt(1, k)
    BY <2>1, <2>2 DEF StateAt
  <2>4. CoveredIsCurrent'
    BY <1>0, <2>1, <2>3, DequeueKeeps DEF CoverageInv, CoveredIsCurrent, UpToDate
  <2>5. CoverageIsTracked'
    BY <2>1 DEF CoverageInv, CoverageIsTracked
  <2> QED  BY <2>1, <2>4, <2>5, DequeueKeeps DEF CoverageInv
<1>3. CASE DispatchState
  <2>1. PICK e \in Envelope : e = Head(backlog)
    BY <1>0, <1>3, HeadType DEF DispatchState, AtEnvelope
  <2>2. /\ AtEnvelope /\ backlog' = Tail(backlog) /\ e.type = "State" /\ Subscribed(e)
        /\ shown' = [shown EXCEPT ![e.key] = [cur |-> e.cur, ver |-> e.ver]]
        /\ snapshotted' = snapshotted \cup {e.key}
        /\ UNCHANGED <<rows, write, missed, subscriptions, burst, pc>>
    BY <1>3, <2>1 DEF DispatchState, publisher, handler
  <2>3. /\ e = backlog[1] /\ e.key \in Keys /\ e.cur \in States
    BY <1>0, <2>1, <2>2, HeadType DEF AtEnvelope
  <2>4. e.cur # "Absent"
    BY <2>3, WsAssumption
  <2>5. StateAt(1, e.key) /\ \A k \in Keys : k # e.key => ~StateAt(1, k)
    BY <2>2, <2>3 DEF StateAt
  <2>6. UpToDate(e.key)' \/ Coming(e.key)'
    <3>1. shown'[e.key].cur # "Absent" /\ shown'[e.key].ver = backlog[1].ver
      BY <1>0, <2>2, <2>3, <2>4
    <3>2. Coming(e.key)' \/ backlog[1].ver = rows[e.key].ver
      BY <2>2, <2>3, <2>5, DequeueKeeps
    <3> QED  BY <2>2, <3>1, <3>2 DEF UpToDate
  <2>7. ASSUME NEW k \in snapshotted, k # e.key, missed = 0, pc # "closed"
        PROVE  UpToDate(k)' \/ Coming(k)'
    <3>1. shown'[k] = shown[k] /\ k \in Keys
      BY <1>0, <2>2, <2>7
    <3>2. UpToDate(k) \/ Coming(k)
      BY <2>7 DEF CoverageInv, CoveredIsCurrent
    <3> QED  BY <2>2, <2>5, <2>7, <3>1, <3>2, DequeueKeeps DEF UpToDate
  <2>8. CoveredIsCurrent'
    BY <2>2, <2>6, <2>7 DEF CoveredIsCurrent
  <2>9. \E t \in subscriptions : CoversStateSession(t, e.key.sid)
    BY <2>2 DEF Subscribed, Matches
  <2>10. CoverageIsTracked'
    BY <2>2, <2>9 DEF CoverageInv, CoverageIsTracked
  <2> QED  BY <2>2, <2>8, <2>10, DequeueKeeps DEF CoverageInv
<1>4. CASE LaggedUnsubscribed
  <2>1. snapshotted = {}
    BY <1>4 DEF LaggedUnsubscribed, CoverageInv, CoverageIsTracked
  <2> QED
    BY <1>4, <2>1, LagKeeps DEF LaggedUnsubscribed, publisher, coverage, handler
<1>5. CASE DroppedCoalesced
  BY <1>5, LagKeeps DEF DroppedCoalesced, CoverageAfterLag, publisher, handler
<1>6. CASE DroppedEmitted
  BY <1>6, LagKeeps DEF DroppedEmitted, CoverageAfterLag, publisher, handler
<1> QED  BY <1>1, <1>2, <1>3, <1>4, <1>5, <1>6 DEF Receive

-----------------------------------------------------------------------------
(* The snapshot of a subscribe.                                            *)

\* every step of a snapshot,
LEMMA SnapshotKeeps == ASSUME TypeOK, CoverageInv, Snapshot PROVE CoverageInv'
<1>0. /\ snapshotted \subseteq Keys /\ shown \in [Keys -> ShownT] /\ burst \subseteq Frame
  BY DEF TypeOK, CoverageOK, HandlerOK
<1>1. CASE ReadClock
  <2>1. burst = {}
    BY <1>1 DEF ReadClock, Drained, CoverageInv, BurstIsTracked
  <2> QED
    BY <1>1, <2>1, QuietKeeps, UnchangedPublisher
       DEF ReadClock, Drained, publisher, receiver, coverage
<1>2. ASSUME NEW ok \in BOOLEAN, ReadSnapshot(ok) PROVE CoverageInv'
  <2>1. /\ UNCHANGED <<rows, write, backlog, missed, snapshotted, shown>>
        /\ pc = "read" /\ pc' = "burst"
        /\ subscriptions' = subscriptions \cup {job.topic}
    BY <1>2 DEF ReadSnapshot, publisher, receiver
  <2>2. \A f \in burst' : f.ver = rows[f.key].ver /\ CoversStateSession(job.topic, f.key.sid)
    <3>1. \A f \in SnapshotForTopic(job.topic, job.states) :
            f.ver = rows[f.key].ver /\ CoversStateSession(job.topic, f.key.sid)
      BY DEF SnapshotForTopic
    <3> QED  BY <1>2, <3>1 DEF ReadSnapshot
  <2>3. \A k \in Keys : Coming(k)' <=> Coming(k)
    BY <2>1 DEF Coming, Queued, StateAt, Pending
  <2>4. VersionsAscend' /\ NoneAhead'
    BY <2>1 DEF CoverageInv, VersionsAscend, NoneAhead, StateAt, Pending
  <2>5. Follows'
    BY <2>1, <2>3 DEF CoverageInv, Follows, StateAt
  <2>6. BurstIsCurrent' /\ BurstIsTracked' /\ NothingYet'
    BY <2>1, <2>2 DEF BurstIsCurrent, BurstIsTracked, NothingYet
  <2>7. CoverageIsTracked'
    BY <2>1 DEF CoverageInv, CoverageIsTracked
  <2>8. CoveredIsCurrent'
    BY <1>0, <2>1, <2>3 DEF CoverageInv, CoveredIsCurrent, UpToDate
  <2> QED  BY <2>4, <2>5, <2>6, <2>7, <2>8 DEF CoverageInv
<1>3. ASSUME NEW f \in burst, SendSnapshotFrame(f) PROVE CoverageInv'
  <2>1. /\ UNCHANGED <<rows, write, backlog, missed, subscriptions, pc>>
        /\ pc = "burst" /\ burst' = burst \ {f}
        /\ snapshotted' = snapshotted \cup {f.key}
        /\ shown' = [shown EXCEPT ![f.key] = [cur |-> f.cur, ver |-> f.ver]]
    BY <1>3 DEF SendSnapshotFrame, publisher, receiver
  <2>2. f.key \in Keys /\ f.cur \in States /\ f.cur # "Absent"
    BY <1>0, WsAssumption DEF Frame
  <2>3. \A k \in Keys : Coming(k)' <=> Coming(k)
    BY <2>1 DEF Coming, Queued, StateAt, Pending
  <2>4. VersionsAscend' /\ NoneAhead'
    BY <2>1 DEF CoverageInv, VersionsAscend, NoneAhead, StateAt, Pending
  <2>5. Follows'
    BY <2>1, <2>3 DEF CoverageInv, Follows, StateAt
  <2>6. \A g \in burst : g.key \in Keys
    BY <1>0 DEF Frame
  <2>7. BurstIsCurrent' /\ BurstIsTracked' /\ NothingYet'
    BY <2>1, <2>3, <2>6 DEF CoverageInv, BurstIsCurrent, BurstIsTracked, NothingYet
  <2>8. CoverageIsTracked'
    BY <2>1 DEF CoverageInv, CoverageIsTracked, BurstIsTracked
  <2>9. missed = 0 => UpToDate(f.key)' \/ Coming(f.key)'
    <3>1. shown'[f.key].cur # "Absent" /\ shown'[f.key].ver = f.ver
      BY <1>0, <2>1, <2>2
    <3> QED  BY <2>1, <2>2, <2>3, <3>1 DEF CoverageInv, BurstIsCurrent, UpToDate
  <2>10. ASSUME NEW k \in snapshotted, k # f.key, missed = 0
         PROVE  UpToDate(k)' \/ Coming(k)'
    <3>1. shown'[k] = shown[k] /\ k \in Keys
      BY <1>0, <2>1, <2>10
    <3> QED
      BY <2>1, <2>3, <2>10, <3>1 DEF CoverageInv, CoveredIsCurrent, UpToDate
  <2>11. CoveredIsCurrent'
    BY <2>1, <2>9, <2>10 DEF CoveredIsCurrent
  <2> QED  BY <2>4, <2>5, <2>7, <2>8, <2>11 DEF CoverageInv
<1>4. CASE SubscribeDone
  BY <1>4, QuietKeeps, UnchangedPublisher
     DEF SubscribeDone, publisher, receiver, coverage
<1> QED  BY <1>1, <1>2, <1>3, <1>4 DEF Snapshot

-----------------------------------------------------------------------------
(* The connection task.                                                    *)

(* Coverage goes with the last topic that tracks the session.              *)
LEMMA UnsubscribeKeeps == ASSUME TypeOK, CoverageInv, ApplyUnsubscribe PROVE CoverageInv'
<1> DEFINE topics == subscriptions \ {job.topic}
<1>1. /\ UNCHANGED <<rows, write, backlog, missed, shown, burst>>
      /\ pc = "drain" /\ pc' = "loop" /\ subscriptions' = topics
      /\ snapshotted' = Retained(topics)
  BY DEF ApplyUnsubscribe, Drained, publisher, receiver
<1>2. burst = {} /\ snapshotted \subseteq Keys
  BY <1>1 DEF CoverageInv, BurstIsTracked, TypeOK, CoverageOK
<1>3. \A k \in Keys : Coming(k)' <=> Coming(k)
  BY <1>1 DEF Coming, Queued, StateAt, Pending
<1>4. VersionsAscend' /\ NoneAhead'
  BY <1>1 DEF CoverageInv, VersionsAscend, NoneAhead, StateAt, Pending
<1>5. Follows'
  BY <1>1, <1>3 DEF CoverageInv, Follows, StateAt
<1>6. BurstIsCurrent' /\ BurstIsTracked' /\ NothingYet'
  BY <1>1, <1>2 DEF BurstIsCurrent, BurstIsTracked, NothingYet
<1>7. CoverageIsTracked'
  BY <1>1 DEF CoverageIsTracked, Retained
<1>8. CoveredIsCurrent'
  BY <1>1, <1>2, <1>3 DEF CoverageInv, CoveredIsCurrent, UpToDate, Retained
<1> QED  BY <1>4, <1>5, <1>6, <1>7, <1>8 DEF CoverageInv

(* An arm that leaves channel and coverage alone, from the loop or the     *)
(* drain or to the end of the task.                                        *)
LEMMA ArmKeeps ==
    ASSUME TypeOK, CoverageInv, UNCHANGED <<publisher, receiver, coverage, burst>>,
           pc # "closed", pc' # "none",
           pc' = "closed" \/ (pc = "none" /\ pc' = "upgrade")
             \/ (pc' \in {"hello", "loop", "drain"} /\ pc # "burst")
    PROVE  CoverageInv'
<1>1. burst = {} \/ pc' \in {pc, "closed"}
  BY DEF CoverageInv, BurstIsTracked
<1>2. pc' \in {"none", "upgrade"} => pc \in {"none", "upgrade"}
  OBVIOUS
<1> QED
  BY <1>1, <1>2, QuietKeeps, UnchangedPublisher DEF publisher, receiver, coverage

\* and so every step of the connection.
LEMMA ConnectionKeeps == ASSUME TypeOK, CoverageInv, Connection PROVE CoverageInv'
<1>1. CASE AcceptUpgrade
  BY <1>1, ArmKeeps DEF AcceptUpgrade
<1>2. CASE SubscribeReceiver
  BY <1>2, ArmKeeps DEF SubscribeReceiver
<1>3. CASE SendHello
  BY <1>3, ArmKeeps DEF SendHello
<1>4. CASE CloseRequested
  BY <1>4, ArmKeeps DEF CloseRequested
<1>5. CASE PongTimeout
  BY <1>5, ArmKeeps DEF PongTimeout, Ends
<1>6. CASE BadMessage
  BY <1>6, ArmKeeps DEF BadMessage, AtInbound, Ends
<1>7. CASE ClientCloses
  BY <1>7, ArmKeeps DEF ClientCloses, AtInbound, Ends
<1>8. CASE PongReceived
  BY <1>8, ArmKeeps DEF PongReceived, AtInbound, handler
<1>9. CASE StartRequest
  BY <1>9, ArmKeeps DEF StartRequest, AtInbound
<1>10. CASE PingTick
  BY <1>10, ArmKeeps DEF PingTick, handler
<1>11. CASE CloseForShutdown
  BY <1>11, ArmKeeps DEF CloseForShutdown, Drained, Ends
<1>12. CASE SendFails
  <2>1. pc # "closed"
    BY <1>12 DEF SendFails, Sending, AtEnvelope, AtReceive, Drained
  <2> QED  BY <1>12, <2>1, ArmKeeps DEF SendFails, Ends
<1> QED
  BY <1>1, <1>2, <1>3, <1>4, <1>5, <1>6, <1>7, <1>8, <1>9, <1>10, <1>11, <1>12,
     ReceiveKeeps, SnapshotKeeps, UnsubscribeKeeps DEF Connection

-----------------------------------------------------------------------------
(* The invariant is inductive, given the types.                            *)
LEMMA CoverageInvariant == Spec => []CoverageInv
<1>1. Init => CoverageInv
  <2> SUFFICES ASSUME Init PROVE CoverageInv
    OBVIOUS
  <2>1. Len(backlog) = 0
    BY DEF Init
  <2>2. VersionsAscend /\ NoneAhead /\ Follows
    BY <2>1 DEF VersionsAscend, NoneAhead, Follows
  <2>3. BurstIsCurrent /\ BurstIsTracked /\ NothingYet
    BY DEF Init, BurstIsCurrent, BurstIsTracked, NothingYet
  <2>4. CoverageIsTracked /\ CoveredIsCurrent
    BY DEF Init, CoverageIsTracked, CoveredIsCurrent
  <2> QED  BY <2>2, <2>3, <2>4 DEF CoverageInv
<1>2. TypeOK /\ CoverageInv /\ [Next]_vars => CoverageInv'
  <2> SUFFICES ASSUME TypeOK, CoverageInv, [Next]_vars PROVE CoverageInv'
    OBVIOUS
  <2>1. CASE UNCHANGED vars
    BY <2>1, QuietKeeps, UnchangedPublisher DEF vars, publisher, receiver, coverage, handler
  <2> QED  BY <2>1, WritesKeep, EnvironmentKeeps, ConnectionKeeps DEF Next, Over
<1> QED  BY <1>1, <1>2, WsTypeCorrect, PTL DEF Spec

(* The coverage of a connection is right: a session that it takes for      *)
(* delivered is under one of its topics, and its current state has been    *)
(* sent or is on its way unless a lag is about to be noticed (api/ws.rs,   *)
(* snapshotted_sessions; the steps [A] to [E] of Subscribe).               *)
THEOREM WsCoverageCorrect == Spec => []CoverageHolds
<1>1. CoverageInv => CoverageHolds
  BY DEF CoverageInv, CoverageHolds
<1> QED  BY <1>1, CoverageInvariant, PTL

-----------------------------------------------------------------------------
(* The close at shutdown.                                                  *)

(* A step that does not end the connection for the shutdown.               *)
LEMMA OpenKeeps ==
    ASSUME ShutdownInv, UNCHANGED <<write, daemon>>,
           job'.op = job.op \/ job'.op # "shutdown", why' # "shutdown"
    PROVE  ShutdownInv'
  BY DEF ShutdownInv, FinalStateBeforeClose

(* The steps of an open connection, but for its close at shutdown.         *)
LEMMA ConnectionOpen ==
    ASSUME TypeOK, ShutdownInv, pc # "closed", Connection, ~CloseForShutdown, ~CloseRequested
    PROVE  ShutdownInv'
<1>0. why # "shutdown"
  BY DEF ShutdownInv
<1>1. CASE AcceptUpgrade \/ SubscribeReceiver \/ SendHello
  BY <1>0, <1>1, OpenKeeps DEF AcceptUpgrade, SubscribeReceiver, SendHello, publisher
<1>2. CASE PongTimeout \/ BadMessage \/ ClientCloses \/ SendFails
  BY <1>2, OpenKeeps DEF PongTimeout, BadMessage, ClientCloses, SendFails, Ends, publisher
<1>3. CASE PongReceived \/ PingTick
  BY <1>0, <1>3, OpenKeeps DEF PongReceived, PingTick, publisher, handler
<1>4. CASE StartRequest
  BY <1>0, <1>4, OpenKeeps DEF StartRequest, publisher
<1>5. CASE Receive
  <2>1. UNCHANGED <<write, daemon, job, why>>
    BY <1>5 DEF Receive, DispatchFiltered, DispatchEvent, DispatchState, LaggedUnsubscribed,
                DroppedCoalesced, DroppedEmitted, publisher, handler
  <2> QED  BY <1>0, <2>1, OpenKeeps
<1>6. CASE Snapshot
  <2>1. ASSUME NEW ok \in BOOLEAN, ReadSnapshot(ok) PROVE ShutdownInv'
    <3>1. pc = "read" /\ job \in JobT /\ job.op = "subscribe"
      BY <2>1 DEF TypeOK, HandlerOK, ReadSnapshot
    <3>2. job'.op = "subscribe"
      BY <2>1, <3>1 DEF ReadSnapshot, JobT, NoJob
    <3> QED  BY <1>0, <2>1, <3>2, OpenKeeps DEF ReadSnapshot, publisher
  <2>2. CASE ReadClock
    BY <1>0, <2>2, OpenKeeps DEF ReadClock, publisher
  <2>3. ASSUME NEW f \in burst, SendSnapshotFrame(f) PROVE ShutdownInv'
    BY <1>0, <2>3, OpenKeeps DEF SendSnapshotFrame, publisher
  <2>4. CASE SubscribeDone
    BY <1>0, <2>4, OpenKeeps DEF SubscribeDone, NoJob, publisher
  <2> QED  BY <1>6, <2>1, <2>2, <2>3, <2>4 DEF Snapshot
<1>7. CASE ApplyUnsubscribe
  BY <1>0, <1>7, OpenKeeps DEF ApplyUnsubscribe, NoJob, publisher
<1> QED  BY <1>1, <1>2, <1>3, <1>4, <1>5, <1>6, <1>7 DEF Connection

(* The writes, the client and the clocks while the connection is open.     *)
LEMMA OutsideOpen ==
    ASSUME TypeOK, ShutdownInv, pc # "closed", Writes \/ Environment
    PROVE  ShutdownInv'
<1>0. why # "shutdown"
  BY DEF ShutdownInv
<1>1. CASE Writes
  <2>1. daemon # "closing" /\ UNCHANGED <<daemon, job, why>>
    BY <1>1 DEF Writes, Stamp, Commit, Publish, ShutdownInv, NoWrite, handler
  <2> QED  BY <1>0, <2>1 DEF ShutdownInv, FinalStateBeforeClose
<1>2. ASSUME NEW k \in Keys, Age(k) PROVE ShutdownInv'
  BY <1>0, <1>2, OpenKeeps DEF Age, handler
<1>3. ASSUME NEW m \in Requests, ClientSends(m) PROVE ShutdownInv'
  BY <1>0, <1>3, OpenKeeps DEF ClientSends, publisher, handler
<1>4. CASE ClientAnswersPing \/ PingTimerTicks \/ PongClockTicks \/ WindowExpires
  BY <1>0, <1>4, OpenKeeps
     DEF ClientAnswersPing, PingTimerTicks, PongClockTicks, WindowExpires, publisher, handler
<1>5. CASE RequestShutdown
  BY <1>0, <1>5 DEF RequestShutdown, ShutdownInv, FinalStateBeforeClose, publisher, handler
<1>6. CASE CloseConnections
  BY <1>0, <1>6 DEF CloseConnections, ShutdownInv, FinalStateBeforeClose, publisher, handler
<1>7. CASE ProcessExits
  BY <1>7, OpenKeeps DEF ProcessExits, Ends, publisher
<1> QED
  BY <1>1, <1>2, <1>3, <1>4, <1>5, <1>6, <1>7 DEF Environment

(* The close: nothing is pending and nothing is left in the backlog.       *)
LEMMA CloseKeeps ==
    ASSUME TypeOK, CoverageInv, ShutdownInv, CloseForShutdown PROVE ShutdownInv'
<1>1. /\ pc = "drain" /\ missed = 0 /\ backlog = <<>> /\ job.op = "shutdown"
      /\ pc' = "closed" /\ UNCHANGED <<rows, write, daemon, snapshotted, shown, job>>
  BY DEF CloseForShutdown, Drained, Ends, publisher, coverage
<1>2. daemon = "closing" /\ write = NoWrite
  BY <1>1 DEF ShutdownInv
<1>3. Len(backlog) = 0
  BY <1>1
<1>4. \A k \in snapshotted : ~Coming(k)
  BY <1>2, <1>3 DEF Coming, Queued, Pending, NoWrite
<1>5. \A k \in snapshotted : UpToDate(k)
  BY <1>1, <1>4 DEF CoverageInv, CoveredIsCurrent
<1>6. FinalStateBeforeClose'
  BY <1>1, <1>5 DEF FinalStateBeforeClose, UpToDate
<1> QED  BY <1>1, <1>2, <1>6 DEF ShutdownInv

(* After the connection has ended nothing moves that the client was told.  *)
LEMMA ClosedKeeps ==
    ASSUME TypeOK, ShutdownInv, pc = "closed", Next PROVE ShutdownInv'
<1>1. CASE Commit \/ Publish
  <2>1. daemon # "closing" /\ why # "shutdown" /\ UNCHANGED <<daemon, job, why>>
    BY <1>1 DEF Commit, Publish, ShutdownInv, NoWrite, handler
  <2> QED  BY <2>1 DEF ShutdownInv, FinalStateBeforeClose
<1>2. CASE Over
  BY <1>2 DEF Over, vars, publisher, coverage, handler, ShutdownInv, FinalStateBeforeClose,
              UpToDate
<1>3. ~Connection
  <2>1. ~Receive
    BY DEF Receive, DispatchFiltered, DispatchEvent, DispatchState, LaggedUnsubscribed,
           DroppedCoalesced, DroppedEmitted, AtEnvelope, AtReceive
  <2>2. ~Snapshot
    BY DEF Snapshot, ReadClock, Drained, ReadSnapshot, SendSnapshotFrame, SubscribeDone
  <2>3. ~SendFails
    BY DEF SendFails, Sending, AtEnvelope, AtReceive, Drained
  <2> QED
    BY <2>1, <2>2, <2>3
       DEF Connection, AcceptUpgrade, SubscribeReceiver, SendHello, CloseRequested, PongTimeout,
           BadMessage, ClientCloses, PongReceived, StartRequest, AtInbound, PingTick,
           ApplyUnsubscribe, CloseForShutdown, Drained
<1>4. ~Environment
  BY DEF Environment, Age, ClientSends, Attached, ClientAnswersPing, PingTimerTicks,
         PongClockTicks, WindowExpires, RequestShutdown, CloseConnections, ProcessExits
<1> QED  BY <1>1, <1>2, <1>3, <1>4 DEF Next, Writes, Stamp

(* A client that is told "daemon shutdown" has the final state of every    *)
(* session that it is covered for: run() joins the tasks that write before *)
(* it cancels ws_close_requested, and close_for_daemon_shutdown drains     *)
(* before it sends Close.                                                  *)
THEOREM WsFinalState == Spec => []FinalStateBeforeClose
<1>1. Init => ShutdownInv
  BY DEF Init, ShutdownInv, FinalStateBeforeClose, NoJob
<1>2. TypeOK /\ CoverageInv /\ ShutdownInv /\ [Next]_vars => ShutdownInv'
  <2> SUFFICES ASSUME TypeOK, CoverageInv, ShutdownInv, [Next]_vars PROVE ShutdownInv'
    OBVIOUS
  <2>1. CASE UNCHANGED vars
    BY <2>1 DEF vars, publisher, coverage, handler, ShutdownInv, FinalStateBeforeClose, UpToDate
  <2>2. CASE Next /\ pc = "closed"
    BY <2>2, ClosedKeeps
  <2>3. CASE Next /\ pc # "closed"
    <3>1. CASE CloseForShutdown
      BY <3>1, CloseKeeps
    <3>2. CASE CloseRequested
      BY <2>3, <3>2
         DEF CloseRequested, CloseReady, ShutdownInv, FinalStateBeforeClose, publisher
    <3>3. CASE Connection /\ ~CloseForShutdown /\ ~CloseRequested
      BY <2>3, <3>3, ConnectionOpen
    <3>4. CASE Writes \/ Environment
      BY <2>3, <3>4, OutsideOpen
    <3> QED  BY <2>3, <3>1, <3>2, <3>3, <3>4 DEF Next, Over
  <2> QED  BY <2>1, <2>2, <2>3
<1>3. ShutdownInv => FinalStateBeforeClose
  BY DEF ShutdownInv
<1> QED  BY <1>1, <1>2, <1>3, WsTypeCorrect, CoverageInvariant, PTL DEF Spec

-----------------------------------------------------------------------------
(* The accounting of lost events.                                          *)

\* Lost events are known to be lost, and come after the last one delivered.
LostAhead ==
    /\ missed = 0 => lost = {}
    /\ \A x \in lost : lastDelivered < x.id

\* The events of the backlog come after it too, in the order of their ids.
BacklogAhead ==
    \A i \in 1..Len(backlog) : backlog[i].type = "Event" =>
        /\ lastDelivered < backlog[i].id
        /\ \A j \in 1..Len(backlog) :
             i < j /\ backlog[j].type = "Event" => backlog[i].id < backlog[j].id

\* The id of the write under way is still to come.
IdsAreOld ==
    LET top == IF write.step = "committed" THEN nextId - 1 ELSE nextId
    IN  /\ lastDelivered <= top
        /\ \A i \in 1..Len(backlog) : backlog[i].type = "Event" => backlog[i].id <= top

\* The start of a suppressed gap is not after the cursor's successor.
StartIsEarly ==
    /\ pendingCount > 0 <=> pendingFirst # -1
    /\ pendingFirst <= lastDelivered + 1

LossInv == LostAhead /\ BacklogAhead /\ IdsAreOld /\ StartIsEarly /\ EveryLossAccounted

(* Steps that neither make nor take an event.                              *)
LEMMA LossQuiet ==
    ASSUME LossInv, UNCHANGED <<nextId, backlog, missed, lost, lastDelivered, pendingCount,
                                pendingFirst, unreported>>,
           write'.step = "committed" <=> write.step = "committed"
    PROVE  LossInv'
<1>1. LostAhead'
  BY DEF LossInv, LostAhead
<1>2. BacklogAhead'
  BY DEF LossInv, BacklogAhead
<1>3. IdsAreOld'
  BY DEF LossInv, IdsAreOld
<1>4. StartIsEarly' /\ EveryLossAccounted'
  BY DEF LossInv, StartIsEarly, EveryLossAccounted
<1> QED  BY <1>1, <1>2, <1>3, <1>4 DEF LossInv

(* The ids that the accounting speaks of are numbers.                      *)
LEMMA IdTypes ==
    ASSUME TypeOK
    PROVE  /\ nextId \in Nat /\ missed \in Nat /\ pendingCount \in Nat
           /\ lastDelivered \in Int /\ lastDelivered >= -1
           /\ pendingFirst \in Int /\ unreported \subseteq Nat
           /\ Len(backlog) \in Nat
           /\ \A i \in 1..Len(backlog) : backlog[i].type = "Event" => backlog[i].id \in Nat
           /\ \A x \in lost : x.id \in Nat
<1>1. /\ nextId \in Nat /\ missed \in Nat /\ pendingCount \in Nat
      /\ lastDelivered \in Int /\ lastDelivered >= -1
      /\ pendingFirst \in Int /\ unreported \subseteq Nat
  BY DEF TypeOK, PublisherOK, ReceiverOK, LagOK
<1>2. backlog \in Seq(Envelope) /\ Len(backlog) \in Nat
  BY LenProperties DEF TypeOK, ReceiverOK
<1>3. \A i \in 1..Len(backlog) : backlog[i].type = "Event" => backlog[i].id \in Nat
  BY <1>2 DEF Envelope, EventEnv, StateEnv
<1>4. \A x \in lost : x.id \in Nat
  BY DEF TypeOK, ReceiverOK, EventEnv
<1> QED  BY <1>1, <1>2, <1>3, <1>4

(* A commit gives out the id that its publication will carry.              *)
LEMMA CommitLoss == ASSUME TypeOK, LossInv, Commit PROVE LossInv'
<1>1. /\ write.step = "stamped" /\ nextId' = nextId + 1
      /\ UNCHANGED <<backlog, missed, lost, lastDelivered, pendingCount, pendingFirst,
                     unreported>>
  BY DEF Commit, receiver, lag
<1>2. write'.step = "committed"
  BY <1>1 DEF Commit, TypeOK, PublisherOK, WriteT, NoWrite
<1>3. nextId' - 1 = nextId
  BY <1>1, IdTypes
<1>4. IdsAreOld'
  BY <1>1, <1>2, <1>3 DEF LossInv, IdsAreOld
<1>5. LostAhead'
  BY <1>1 DEF LossInv, LostAhead
<1>6. BacklogAhead'
  BY <1>1 DEF LossInv, BacklogAhead
<1>7. StartIsEarly' /\ EveryLossAccounted'
  BY <1>1 DEF LossInv, StartIsEarly, EveryLossAccounted
<1> QED  BY <1>4, <1>5, <1>6, <1>7 DEF LossInv

(* A publication appends the newest id and may evict the oldest ones.      *)
LEMMA PublishLoss == ASSUME TypeOK, LossInv, Publish PROVE LossInv'
<1>0. /\ write.step = "committed" /\ write' = NoWrite
      /\ UNCHANGED <<nextId, lastDelivered, pendingCount, pendingFirst, unreported>>
  BY DEF Publish, lag
<1>1. write'.step # "committed"
  BY <1>0 DEF NoWrite
<1>2. StartIsEarly' /\ EveryLossAccounted'
  BY <1>0 DEF LossInv, StartIsEarly, EveryLossAccounted
<1>3. CASE ~Attached
  <2>1. UNCHANGED <<backlog, missed, lost>>
    BY <1>3 DEF Publish, receiver
  <2>2. LostAhead'
    BY <1>0, <2>1 DEF LossInv, LostAhead
  <2>3. BacklogAhead'
    BY <1>0, <2>1 DEF LossInv, BacklogAhead
  <2>4. IdsAreOld'
    BY <1>0, <1>1, <2>1, IdTypes DEF LossInv, IdsAreOld
  <2> QED  BY <1>2, <2>2, <2>3, <2>4 DEF LossInv
<1>4. CASE Attached
  <2>1. Push(Published(write))
    BY <1>4 DEF Publish
  <2>2. /\ Published(write) \in Seq(Envelope)
        /\ \E e \in 1..2 : Len(Published(write)) = e
    BY <1>0, PublishedType DEF TypeOK
  <2>3. PICK e \in 1..2 : Len(Published(write)) = e
    BY <2>2
  <2>4. PICK over \in 0..Len(backlog) :
          /\ Len(backlog') = Len(backlog) + e - over
          /\ missed' = missed + over
          /\ \A i \in 1..(Len(backlog) - over) : backlog'[i] = backlog[i + over]
          /\ \A i \in 1..e : backlog'[Len(backlog) - over + i] = Published(write)[i]
          /\ lost' = lost \cup {backlog[i] : i \in {j \in 1..over : backlog[j].type = "Event"}}
    BY <2>1, <2>2, <2>3, PushShape DEF TypeOK
  <2>5. /\ Published(write)[1].type = "Event" /\ Published(write)[1].id = nextId
        /\ e = 2 => Published(write)[2].type = "State"
    <3>1. CASE write.changed
      BY <2>3, <3>1 DEF Published
    <3>2. CASE ~write.changed
      BY <2>3, <3>2 DEF Published
    <3> QED  BY <3>1, <3>2
  <2>6. PICK d \in Nat : d = Len(backlog) - over /\ Len(backlog') = d + e
    <3>1. /\ Len(backlog) - over \in Nat
          /\ Len(backlog') = (Len(backlog) - over) + e
      BY <2>4, IdTypes
    <3> QED  BY <3>1, Zenon
  <2>7. \A i \in 1..d : i + over \in 1..Len(backlog) /\ backlog'[i] = backlog[i + over]
    BY <2>4, <2>6, IdTypes
  <2>8. \A i \in 1..Len(backlog') : backlog'[i].type = "Event" /\ ~(i <= d) =>
          i = d + 1 /\ backlog'[i].id = nextId
    <3> SUFFICES ASSUME NEW i \in 1..(d + e), backlog'[i].type = "Event", ~(i <= d)
                 PROVE  i = d + 1 /\ backlog'[i].id = nextId
      BY <2>6
    <3>1. PICK j \in 1..e : i = d + j
      <4>1. i - d \in 1..e /\ i = d + (i - d)
        BY <2>6
      <4> QED  BY <4>1
    <3>2. backlog'[i] = Published(write)[j]
      BY <2>4, <2>6, <3>1
    <3>3. j = 1
      BY <2>5, <3>2
    <3> QED  BY <2>5, <3>1, <3>2, <3>3
  <2>9. LostAhead'
    <3>1. \A x \in lost' : lastDelivered < x.id
      <4> SUFFICES ASSUME NEW i \in 1..over, backlog[i].type = "Event"
                   PROVE  lastDelivered < backlog[i].id
        BY <2>4 DEF LossInv, LostAhead
      <4>1. i \in 1..Len(backlog)
        BY IdTypes
      <4> QED  BY <4>1 DEF LossInv, BacklogAhead
    <3>2. missed' = 0 => lost' = {}
      <4> HAVE missed' = 0
      <4>1. missed = 0 /\ over = 0
        BY <2>4, IdTypes
      <4>2. lost = {} /\ {j \in 1..over : backlog[j].type = "Event"} = {}
        BY <4>1 DEF LossInv, LostAhead
      <4> QED  BY <2>4, <4>2
    <3> QED  BY <1>0, <3>1, <3>2 DEF LostAhead
  <2>10. \A i \in 1..Len(backlog) : backlog[i].type = "Event" =>
           lastDelivered < backlog[i].id /\ backlog[i].id < nextId
    BY <1>0, IdTypes DEF LossInv, BacklogAhead, IdsAreOld
  <2>11. lastDelivered < nextId
    BY <1>0, IdTypes DEF LossInv, IdsAreOld
  <2>12. IdsAreOld'
    <3>1. \A i \in 1..Len(backlog') : backlog'[i].type = "Event" => backlog'[i].id <= nextId
      <4> SUFFICES ASSUME NEW i \in 1..Len(backlog'), backlog'[i].type = "Event"
                   PROVE  backlog'[i].id <= nextId
        OBVIOUS
      <4>1. CASE i <= d
        <5>1. i \in 1..d
          BY <4>1, <2>6
        <5> QED  BY SMTT(30), <5>1, <2>7, <2>10, IdTypes
      <4>2. CASE ~(i <= d)
        BY <4>2, <2>8, IdTypes
      <4> QED  BY <4>1, <4>2
    <3> QED  BY <1>0, <1>1, <2>11, <3>1, IdTypes DEF IdsAreOld
  <2>13. BacklogAhead'
    <3> SUFFICES ASSUME NEW i \in 1..Len(backlog'), backlog'[i].type = "Event"
                 PROVE  /\ lastDelivered < backlog'[i].id
                        /\ \A j \in 1..Len(backlog') :
                             i < j /\ backlog'[j].type = "Event" => backlog'[i].id < backlog'[j].id
      BY <1>0 DEF BacklogAhead
    <3>1. CASE i <= d
      <4>1. /\ i \in 1..d /\ i + over \in 1..Len(backlog)
            /\ backlog'[i] = backlog[i + over]
        BY <3>1, <2>6, <2>7
      <4>2. ASSUME NEW j \in 1..Len(backlog'), i < j, backlog'[j].type = "Event"
            PROVE  backlog'[i].id < backlog'[j].id
        <5>1. CASE j <= d
          <6>1. /\ j \in 1..d /\ j + over \in 1..Len(backlog)
                /\ backlog'[j] = backlog[j + over] /\ i + over < j + over
            BY <4>2, <5>1, <2>6, <2>7
          <6> QED  BY <4>1, <4>2, <6>1 DEF LossInv, BacklogAhead
        <5>2. CASE ~(j <= d)
          BY <4>1, <4>2, <5>2, <2>8, <2>10
        <5> QED  BY <5>1, <5>2
      <4> QED  BY <4>1, <4>2, <2>10
    <3>2. CASE ~(i <= d)
      <4>1. i = d + 1 /\ backlog'[i].id = nextId
        BY <3>2, <2>8
      <4>2. ASSUME NEW j \in 1..Len(backlog'), i < j, backlog'[j].type = "Event"
            PROVE  FALSE
        <5>1. ~(j <= d)
          BY <4>1, <4>2, <2>6
        <5> QED  BY <4>1, <4>2, <5>1, <2>8
      <4> QED  BY <4>1, <4>2, <2>11
    <3> QED  BY <3>1, <3>2
  <2> QED  BY <1>2, <2>9, <2>12, <2>13 DEF LossInv
<1> QED  BY <1>3, <1>4

(* Taking the first envelope off, with the cursor moved to it or not.      *)
LEMMA DispatchLoss ==
    ASSUME TypeOK, LossInv, missed = 0, backlog # <<>>, backlog' = Tail(backlog),
           lastDelivered' = lastDelivered
             \/ (backlog[1].type = "Event" /\ lastDelivered' = backlog[1].id),
           UNCHANGED <<nextId, write, missed, lost, pendingCount, pendingFirst, unreported>>
    PROVE  LossInv'
<1>1. lost = {}
  BY DEF LossInv, LostAhead
<1>2. PICK n \in Nat : n = Len(backlog) - 1 /\ Len(backlog) = n + 1
  <2>1. Len(backlog) \in Nat /\ Len(backlog) # 0
    BY LenProperties, EmptySeq DEF TypeOK, ReceiverOK
  <2> QED  BY <2>1
<1>3. Len(backlog') = n /\ \A i \in 1..n : backlog'[i] = backlog[i + 1]
  BY <1>2, HeadType DEF TypeOK
<1>4. 1 \in 1..Len(backlog) /\ \A i \in 1..n : i + 1 \in 1..Len(backlog) /\ 1 < i + 1
  BY <1>2
<1>5. lastDelivered <= lastDelivered' /\ lastDelivered' \in Int
  BY <1>4, IdTypes DEF LossInv, BacklogAhead
<1>6. LostAhead'
  BY <1>1 DEF LostAhead
<1>7. BacklogAhead'
  <2> SUFFICES ASSUME NEW i \in 1..n, backlog[i + 1].type = "Event"
               PROVE  /\ lastDelivered' < backlog[i + 1].id
                      /\ \A j \in 1..n : i < j /\ backlog[j + 1].type = "Event"
                           => backlog[i + 1].id < backlog[j + 1].id
    BY <1>3 DEF BacklogAhead
  <2>1. lastDelivered' < backlog[i + 1].id
    BY <1>4 DEF LossInv, BacklogAhead
  <2>2. ASSUME NEW j \in 1..n, i < j, backlog[j + 1].type = "Event"
        PROVE  backlog[i + 1].id < backlog[j + 1].id
    <3>1. i + 1 < j + 1
      BY <2>2
    <3> QED  BY <1>4, <2>2, <3>1 DEF LossInv, BacklogAhead
  <2> QED  BY <2>1, <2>2
<1>8. IdsAreOld'
  BY <1>3, <1>4 DEF LossInv, IdsAreOld
<1>9. StartIsEarly'
  BY <1>5, IdTypes DEF LossInv, StartIsEarly
<1>10. EveryLossAccounted'
  BY DEF LossInv, EveryLossAccounted
<1> QED  BY <1>6, <1>7, <1>8, <1>9, <1>10 DEF LossInv

(* The first id of a gap: the cursor's successor, or the sentinel 0.       *)
LEMMA CursorNext == ASSUME TypeOK PROVE CursorToFirst(lastDelivered) = lastDelivered + 1
  BY IdTypes DEF CursorToFirst

(* What a lag loses of the client's events lies after the cursor.          *)
LEMMA LostEventsAhead ==
    ASSUME TypeOK, LossInv
    PROVE  \A i \in LostEvents : i \in Nat /\ lastDelivered + 1 <= i
<1> SUFFICES ASSUME NEW x \in lost PROVE x.id \in Nat /\ lastDelivered + 1 <= x.id
  BY DEF LostEvents
<1> QED  BY IdTypes DEF LossInv, LostAhead

(* The lag is noticed.                                                     *)
LEMMA LagLoss ==
    ASSUME TypeOK, LossInv, LaggedUnsubscribed \/ DroppedCoalesced \/ DroppedEmitted
    PROVE  LossInv'
<1>0. /\ missed > 0 /\ missed' = 0 /\ lost' = {}
      /\ UNCHANGED <<nextId, write, backlog, lastDelivered>>
  BY DEF LaggedUnsubscribed, DroppedCoalesced, DroppedEmitted, publisher, lag
<1>1. LostAhead'
  BY <1>0 DEF LostAhead
<1>2. BacklogAhead'
  BY <1>0 DEF LossInv, BacklogAhead
<1>3. IdsAreOld'
  BY <1>0 DEF LossInv, IdsAreOld
<1>4. CASE LaggedUnsubscribed
  <2>1. UNCHANGED <<pendingCount, pendingFirst, unreported>>
    BY <1>4 DEF LaggedUnsubscribed, lag
  <2>2. StartIsEarly' /\ EveryLossAccounted'
    BY <1>0, <2>1 DEF LossInv, StartIsEarly, EveryLossAccounted
  <2> QED  BY <1>1, <1>2, <1>3, <2>2 DEF LossInv
<1>5. CASE DroppedCoalesced
  <2>1. /\ pendingFirst' = SuppressedFirst /\ pendingCount' = pendingCount + missed
        /\ unreported' = unreported \cup LostEvents
    BY <1>5 DEF DroppedCoalesced
  <2>2. pendingCount' > 0
    BY <1>0, <2>1, IdTypes
  <2>3. CASE pendingCount = 0
    <3>1. pendingFirst' = lastDelivered + 1 /\ unreported = {}
      BY <2>1, <2>3, CursorNext DEF SuppressedFirst, LossInv, EveryLossAccounted
    <3>2. StartIsEarly'
      BY <1>0, <2>2, <3>1, IdTypes DEF StartIsEarly
    <3>3. EveryLossAccounted'
      BY <2>1, <2>2, <3>1, IdTypes, LostEventsAhead DEF EveryLossAccounted
    <3> QED  BY <1>1, <1>2, <1>3, <3>2, <3>3 DEF LossInv
  <2>4. CASE pendingCount # 0
    <3>1. pendingFirst' = pendingFirst /\ pendingCount > 0
      BY <2>1, <2>4, IdTypes DEF SuppressedFirst
    <3>2. pendingFirst # -1 /\ pendingFirst <= lastDelivered + 1
      BY <3>1 DEF LossInv, StartIsEarly
    <3>3. StartIsEarly'
      BY <1>0, <2>2, <3>1, <3>2 DEF StartIsEarly
    <3>4. \A i \in LostEvents : pendingFirst <= i
      BY <3>2, IdTypes, LostEventsAhead
    <3>5. \A i \in unreported : pendingFirst <= i
      BY DEF LossInv, EveryLossAccounted
    <3>6. EveryLossAccounted'
      BY <2>1, <2>2, <3>1, <3>2, <3>4, <3>5 DEF EveryLossAccounted
    <3> QED  BY <1>1, <1>2, <1>3, <3>3, <3>6 DEF LossInv
  <2> QED  BY <2>3, <2>4
<1>6. CASE DroppedEmitted
  <2> DEFINE first == IF pendingFirst # -1 THEN pendingFirst ELSE CursorToFirst(lastDelivered)
  <2>1. /\ pendingFirst' = -1 /\ pendingCount' = 0
        /\ unreported' = {i \in unreported \cup LostEvents : i < first}
    BY <1>6 DEF DroppedEmitted
  <2>2. first \in Int /\ first <= lastDelivered + 1
    BY IdTypes, CursorNext DEF LossInv, StartIsEarly
  <2>3. \A i \in unreported : pendingFirst # -1 /\ first <= i
    BY DEF LossInv, EveryLossAccounted
  <2>4. \A i \in unreported \cup LostEvents : ~(i < first)
    <3>1. \A i \in LostEvents : ~(i < first)
      BY <2>2, IdTypes, LostEventsAhead
    <3>2. \A i \in unreported : ~(i < first)
      BY <2>2, <2>3, IdTypes
    <3> QED  BY <3>1, <3>2
  <2>5. unreported' = {}
    BY <2>1, <2>4
  <2>6. StartIsEarly' /\ EveryLossAccounted'
    BY <1>0, <2>1, <2>5, IdTypes DEF StartIsEarly, EveryLossAccounted
  <2> QED  BY <1>1, <1>2, <1>3, <2>6 DEF LossInv
<1> QED  BY <1>4, <1>5, <1>6

(* Receiving.                                                              *)
LEMMA ReceiveLoss == ASSUME TypeOK, LossInv, Receive PROVE LossInv'
<1>1. CASE DispatchFiltered \/ DispatchState
  BY <1>1, DispatchLoss DEF DispatchFiltered, DispatchState, AtEnvelope, publisher, lag
<1>2. CASE DispatchEvent
  <2>1. Head(backlog) = backlog[1]
    BY <1>2, HeadType DEF DispatchEvent, AtEnvelope, TypeOK
  <2> QED  BY <1>2, <2>1, DispatchLoss DEF DispatchEvent, AtEnvelope, publisher
<1> QED  BY <1>1, <1>2, LagLoss DEF Receive

(* All the other steps.                                                    *)
LEMMA OtherLoss ==
    ASSUME TypeOK, LossInv, [Next]_vars, ~Commit, ~Publish, ~Receive
    PROVE  LossInv'
<1>1. ASSUME NEW k \in Keys, NEW cur \in States, Stamp(k, cur) PROVE LossInv'
  BY <1>1, LossQuiet DEF Stamp, NoWrite, receiver, lag
<1>2. ASSUME NEW k \in Keys, Age(k) PROVE LossInv'
  BY <1>2, LossQuiet DEF Age, receiver, lag
<1>3. ASSUME NEW m \in Requests, ClientSends(m) PROVE LossInv'
  BY <1>3, LossQuiet DEF ClientSends, publisher, receiver, lag
<1>4. CASE ClientAnswersPing \/ PingTimerTicks \/ PongClockTicks \/ WindowExpires
  BY <1>4, LossQuiet DEF ClientAnswersPing, PingTimerTicks, PongClockTicks, WindowExpires,
                         publisher, receiver, lag
<1>5. CASE RequestShutdown \/ CloseConnections \/ ProcessExits
  BY <1>5, LossQuiet DEF RequestShutdown, CloseConnections, ProcessExits, publisher, receiver,
                         lag
<1>6. CASE Snapshot
  <2>1. UNCHANGED <<publisher, receiver, lag>>
    BY <1>6 DEF Snapshot, ReadClock, ReadSnapshot, SendSnapshotFrame, SubscribeDone
  <2> QED  BY <2>1, LossQuiet DEF publisher, receiver, lag
<1>7. CASE Connection
  <2>1. CASE Snapshot
    BY <1>6, <2>1
  <2>2. CASE ~Snapshot
    <3>1. UNCHANGED <<publisher, receiver, lag>>
      BY <1>7, <2>2 DEF Connection, AcceptUpgrade, SubscribeReceiver, SendHello, CloseRequested,
           PongTimeout, BadMessage, ClientCloses, PongReceived, StartRequest, PingTick,
           ApplyUnsubscribe, CloseForShutdown, SendFails
    <3> QED  BY <3>1, LossQuiet DEF publisher, receiver, lag
  <2> QED  BY <2>1, <2>2
<1>8. CASE UNCHANGED vars
  BY <1>8, LossQuiet DEF vars, publisher, receiver, lag
<1> QED
  BY <1>1, <1>2, <1>3, <1>4, <1>5, <1>7, <1>8 DEF Next, Writes, Environment, Over

(* A loss is told, and from its start: as long as no Dropped frame that    *)
(* starts at or before a lost event is sent, something is counted and the  *)
(* captured start of the gap is not after that event, however lags, the    *)
(* coalesce window, deliveries and subscribes interleave (api/ws.rs,       *)
(* coalesce_decision and pending_dropped_first).  Nothing is said of where *)
(* the reported gap ends.                                                  *)
THEOREM WsLossAccounted == Spec => []EveryLossAccounted
<1>1. Init => LossInv
  <2> SUFFICES ASSUME Init PROVE LossInv
    OBVIOUS
  <2>1. Len(backlog) = 0
    BY DEF Init
  <2>2. LostAhead /\ EveryLossAccounted /\ StartIsEarly
    BY DEF Init, LostAhead, EveryLossAccounted, StartIsEarly
  <2>3. BacklogAhead
    BY <2>1 DEF BacklogAhead
  <2>4. IdsAreOld
    BY <2>1 DEF Init, IdsAreOld, NoWrite
  <2> QED  BY <2>2, <2>3, <2>4 DEF LossInv
<1>2. TypeOK /\ LossInv /\ [Next]_vars => LossInv'
  BY CommitLoss, PublishLoss, ReceiveLoss, OtherLoss
<1>3. LossInv => EveryLossAccounted
  BY DEF LossInv
<1> QED  BY <1>1, <1>2, <1>3, WsTypeCorrect, PTL DEF Spec

-----------------------------------------------------------------------------
(* The subscribe that heals.                                               *)

\* An unfiltered snapshot that was read is being sent, without a lag so far.
Healing ==
    pc = "burst" /\ missed = 0 /\ job.read /\ job.states = {} /\ IsStateSessionFamily(job.topic)

\* Its topic's sessions are delivered, in the burst or on the channel.
HealInv ==
    Healing => \A k \in Keys :
        rows[k].cur # "Absent" /\ CoversStateSession(job.topic, k.sid) =>
            k \in snapshotted \/ (\E f \in burst : f.key = k) \/ Coming(k)

(* Steps that leave the subscribe and the channel alone.                   *)
LEMMA HealQuiet ==
    ASSUME HealInv, pc' = "burst" => pc = "burst",
           UNCHANGED <<backlog, missed, snapshotted, burst, job>>,
           \A k \in Keys : rows'[k].cur = rows[k].cur /\ rows'[k].ver = rows[k].ver,
           \A k \in Keys : Pending(k)' <=> Pending(k)
    PROVE  HealInv'
<1>1. \A k \in Keys : Coming(k)' <=> Coming(k)
  BY DEF Coming, Queued, StateAt
<1> QED  BY <1>1 DEF HealInv, Healing

(* A session that appears after the read is pending, and one that changes  *)
(* is too.                                                                 *)
LEMMA CommitHeals == ASSUME TypeOK, HealInv, Commit PROVE HealInv'
<1> DEFINE key == write.key
           changed == StateChanged(rows[key], write)
<1>1. /\ write.step = "stamped" /\ key \in Keys
      /\ UNCHANGED <<backlog, missed, snapshotted, burst, job, pc>>
      /\ rows' = [rows EXCEPT ![key] =
                    [cur |-> write.cur, ver |-> rows[key].ver + (IF changed THEN 1 ELSE 0),
                     old |-> FALSE]]
  BY DEF Commit, receiver, coverage, TypeOK, PublisherOK, WriteT, NoWrite
<1>2. /\ write'.step = "committed" /\ write'.key = key /\ write'.changed = changed
      /\ write.cur \in States /\ "Absent" \notin States
  BY <1>1, WsAssumption DEF Commit, TypeOK, PublisherOK, WriteT, NoWrite
<1>3. ASSUME NEW k \in Keys, k # key
      PROVE  rows'[k] = rows[k] /\ (Coming(k) => Coming(k)')
  <2>1. rows'[k] = rows[k]
    BY <1>1, <1>3 DEF TypeOK, PublisherOK
  <2>2. Coming(k) => Coming(k)'
    BY <1>1, <2>1 DEF Coming, Queued, StateAt, Pending
  <2> QED  BY <2>1, <2>2
<1>4. changed => Coming(key)'
  BY <1>2 DEF Coming, Pending
<1>5. ~changed => rows[key].cur = write.cur /\ (Coming(key) => Coming(key)')
  <2> HAVE ~changed
  <2>1. rows[key].cur = write.cur
    BY DEF StateChanged
  <2>2. rows'[key].ver = rows[key].ver
    BY <1>1 DEF TypeOK, PublisherOK, RowT
  <2> QED  BY <1>1, <1>2, <2>1, <2>2 DEF Coming, Queued, StateAt, Pending
<1> SUFFICES ASSUME Healing', NEW k \in Keys, rows'[k].cur # "Absent",
                    CoversStateSession(job.topic, k.sid)
             PROVE  k \in snapshotted \/ (\E f \in burst : f.key = k) \/ Coming(k)'
  BY <1>1 DEF HealInv
<1>6. Healing
  BY <1>1 DEF Healing
<1>7. CASE k # key
  BY <1>3, <1>6, <1>7 DEF HealInv
<1>8. CASE k = key
  BY <1>2, <1>4, <1>5, <1>6, <1>8 DEF HealInv
<1> QED  BY <1>7, <1>8

(* A publication that evicts nothing leaves what was to come on its way.   *)
LEMMA PublishHeals == ASSUME TypeOK, HealInv, Publish PROVE HealInv'
<1>0. UNCHANGED <<rows, snapshotted, burst, job, pc>>
  BY DEF Publish, coverage, handler
<1> SUFFICES ASSUME Healing' PROVE Healing /\ \A k \in Keys : Coming(k) => Coming(k)'
  BY <1>0 DEF HealInv
<1>1. Attached
  BY <1>0 DEF Healing, Attached
<1>2. PICK over \in 0..Len(backlog) :
        /\ missed' = missed + over
        /\ Len(backlog') \in Nat /\ Len(backlog) - over < Len(backlog')
        /\ \A i \in 1..(Len(backlog) - over) : backlog'[i] = backlog[i + over]
        /\ \A k \in Keys : Pending(k) =>
             StateAt(Len(backlog), k)' /\ backlog'[Len(backlog')].ver = rows[k].ver
  BY <1>1, PublishShape
<1>3. missed' = 0
  BY DEF Healing
<1>4. missed = 0 /\ over = 0
  BY <1>2, <1>3, IdTypes
<1>5. \A i \in 1..Len(backlog) : i \in 1..Len(backlog') /\ backlog'[i] = backlog[i]
  BY <1>2, <1>4, IdTypes
<1>6. Healing
  BY <1>0, <1>4 DEF Healing
<1>7. ASSUME NEW k \in Keys, Pending(k) PROVE Coming(k)'
  <2>1. Len(backlog') \in 1..Len(backlog')
    BY <1>2, <1>4, IdTypes
  <2>2. StateAt(Len(backlog), k)' /\ backlog'[Len(backlog')].ver = rows'[k].ver
    BY <1>0, <1>2, <1>7
  <2>3. Queued(k, rows[k].ver)'
    BY <2>1, <2>2 DEF Queued
  <2> QED  BY <2>3 DEF Coming
<1>8. ASSUME NEW k \in Keys, Queued(k, rows[k].ver) PROVE Coming(k)'
  BY <1>0, <1>5, <1>8 DEF Coming, Queued, StateAt
<1> QED  BY <1>6, <1>7, <1>8 DEF Coming

(* The read takes every session of the topic that is not yet delivered.    *)
LEMMA ReadHeals ==
    ASSUME TypeOK, NEW ok \in BOOLEAN, ReadSnapshot(ok) PROVE HealInv'
<1>1. /\ UNCHANGED <<rows, snapshotted>> /\ job \in JobT /\ job.op = "subscribe"
      /\ burst' = IF ok THEN SnapshotForTopic(job.topic, job.states) ELSE {}
      /\ job' = [job EXCEPT !.read = ok]
  BY DEF ReadSnapshot, publisher, TypeOK, HandlerOK
<1>2. job'.read = ok /\ job'.topic = job.topic /\ job'.states = job.states
  BY <1>1 DEF JobT, NoJob
<1> SUFFICES ASSUME Healing', NEW k \in Keys, rows[k].cur # "Absent",
                    CoversStateSession(job.topic, k.sid), k \notin snapshotted
             PROVE  \E f \in burst' : f.key = k
  BY <1>1, <1>2 DEF HealInv
<1>3. ok /\ job.states = {} /\ IsStateSessionFamily(job.topic)
  BY <1>2 DEF Healing
<1> DEFINE f == [key |-> k, cur |-> ReadAs(rows[k].cur, k \in oldRows), ver |-> rows[k].ver]
<1>4. f \in SnapshotForTopic(job.topic, job.states)
  BY <1>3 DEF SnapshotForTopic, AlreadySnapshotted, StateMatches
<1> QED  BY <1>1, <1>3, <1>4

(* A frame that is sent makes its session a delivered one.                 *)
LEMMA SendHeals ==
    ASSUME TypeOK, HealInv, NEW f \in burst, SendSnapshotFrame(f) PROVE HealInv'
<1>1. /\ UNCHANGED <<rows, write, backlog, missed, job, pc>>
      /\ burst' = burst \ {f} /\ snapshotted' = snapshotted \cup {f.key}
  BY DEF SendSnapshotFrame, publisher, receiver
<1>2. \A k \in Keys : Coming(k)' <=> Coming(k)
  BY <1>1 DEF Coming, Queued, StateAt, Pending
<1> QED  BY <1>1, <1>2 DEF HealInv, Healing

(* The task is in a burst only by a read, and leaves it only when all is   *)
(* sent or the connection ends.                                            *)
LEMMA BurstMoves ==
    ASSUME Connection
    PROVE  /\ pc' = "burst" => \/ \E ok \in BOOLEAN : ReadSnapshot(ok)
                               \/ \E f \in burst : SendSnapshotFrame(f)
           /\ pc = "burst" /\ pc' = "loop" => SubscribeDone
<1>1. CASE Receive
  <2>1. pc' = pc /\ pc \in {"loop", "drain"}
    BY <1>1 DEF Receive, DispatchFiltered, DispatchEvent, DispatchState, LaggedUnsubscribed,
                DroppedCoalesced, DroppedEmitted, AtEnvelope, AtReceive, handler
  <2> QED  BY <2>1
<1>2. CASE Snapshot
  BY <1>2 DEF Snapshot, ReadClock, ReadSnapshot, SendSnapshotFrame, SubscribeDone
<1>3. CASE AcceptUpgrade \/ SubscribeReceiver \/ SendHello \/ CloseRequested
  BY <1>3 DEF AcceptUpgrade, SubscribeReceiver, SendHello, CloseRequested
<1>4. CASE PongTimeout \/ BadMessage \/ ClientCloses \/ CloseForShutdown \/ SendFails
  BY <1>4 DEF PongTimeout, BadMessage, ClientCloses, CloseForShutdown, SendFails, Ends
<1>5. CASE PongReceived \/ PingTick
  BY <1>5 DEF PongReceived, PingTick, AtInbound, handler
<1>6. CASE StartRequest \/ ApplyUnsubscribe
  BY <1>6 DEF StartRequest, ApplyUnsubscribe, Drained, AtInbound
<1> QED  BY <1>1, <1>2, <1>3, <1>4, <1>5, <1>6 DEF Connection

(* The client, the clocks and the shutdown.                                *)
LEMMA EnvironmentHeals == ASSUME TypeOK, HealInv, Environment PROVE HealInv'
<1>1. ASSUME NEW k \in Keys, Age(k) PROVE HealInv'
  <2>1. \A j \in Keys : rows'[j].cur = rows[j].cur /\ rows'[j].ver = rows[j].ver
    BY <1>1 DEF Age, TypeOK, PublisherOK, RowT
  <2>2. \A j \in Keys : Pending(j)' <=> Pending(j)
    BY <1>1 DEF Age, Pending
  <2> QED
    BY <1>1, <2>1, <2>2, HealQuiet DEF Age, receiver, coverage, handler
<1>2. ASSUME NEW m \in Requests, ClientSends(m) PROVE HealInv'
  BY <1>2, HealQuiet DEF ClientSends, publisher, receiver, coverage, handler, Pending
<1>3. CASE ClientAnswersPing \/ PingTimerTicks \/ PongClockTicks \/ WindowExpires
  <2>1. UNCHANGED <<publisher, receiver, coverage, handler>>
    BY <1>3 DEF ClientAnswersPing, PingTimerTicks, PongClockTicks, WindowExpires
  <2> QED  BY <2>1, HealQuiet DEF publisher, receiver, coverage, handler, Pending
<1>4. CASE RequestShutdown \/ CloseConnections
  <2>1. UNCHANGED <<publisher, receiver, coverage, handler>>
    BY <1>4 DEF RequestShutdown, CloseConnections
  <2> QED  BY <2>1, HealQuiet DEF publisher, receiver, coverage, handler, Pending
<1>5. CASE ProcessExits
  <2>1. pc' # "burst"
    BY <1>5 DEF ProcessExits, Ends
  <2> QED  BY <2>1 DEF HealInv, Healing
<1> QED  BY <1>1, <1>2, <1>3, <1>4, <1>5 DEF Environment

(* The subscribe's debt is kept by every step.                             *)
LEMMA StepHeals == ASSUME TypeOK, HealInv, [Next]_vars PROVE HealInv'
<1>1. ASSUME NEW k \in Keys, NEW cur \in States, Stamp(k, cur) PROVE HealInv'
  <2>1. \A j \in Keys : Pending(j)' <=> Pending(j)
    BY <1>1 DEF Stamp, Pending, NoWrite
  <2> QED  BY <1>1, <2>1, HealQuiet DEF Stamp, receiver, coverage, handler
<1>2. CASE Connection
  <2>1. CASE pc' # "burst"
    BY <2>1 DEF HealInv, Healing
  <2> QED  BY <1>2, <2>1, BurstMoves, ReadHeals, SendHeals
<1>3. CASE UNCHANGED vars
  BY <1>3, HealQuiet DEF vars, publisher, receiver, coverage, handler, Pending
<1> QED
  BY <1>1, <1>2, <1>3, CommitHeals, PublishHeals, EnvironmentHeals DEF Next, Writes, Over

(* An unfiltered subscribe whose read succeeds heals: when it is done, the *)
(* client has the current state of every session under the topic, or is    *)
(* about to get it, whatever committed between the drain, the read and the *)
(* burst (api/ws.rs, the steps [A] to [E] of Subscribe).                   *)
THEOREM WsSubscribeHeals == Spec => SubscribeHeals
<1>1. Init => HealInv
  BY DEF Init, HealInv, Healing
<1>2. TypeOK /\ HealInv /\ [Next]_vars => HealInv'
  BY StepHeals
<1>3. TypeOK /\ CoverageInv /\ HealInv /\ [Next]_vars =>
        [pc = "burst" /\ pc' = "loop" /\ job.read /\ job.states = {} /\ missed = 0
           => \A k \in Keys :
                rows[k].cur # "Absent" /\ IsStateSessionFamily(job.topic)
                  /\ CoversStateSession(job.topic, k.sid)
                => UpToDate(k) \/ Coming(k)]_vars
  <2> SUFFICES ASSUME TypeOK, CoverageInv, HealInv, Next, pc = "burst", pc' = "loop",
                      job.read, job.states = {}, missed = 0, NEW k \in Keys,
                      rows[k].cur # "Absent", IsStateSessionFamily(job.topic),
                      CoversStateSession(job.topic, k.sid)
               PROVE  UpToDate(k) \/ Coming(k)
    OBVIOUS
  <2>1. Connection
    <3>1. ~Writes
      BY DEF Writes, Stamp, Commit, Publish, handler
    <3>2. ~Environment
      BY DEF Environment, Age, ClientSends, ClientAnswersPing, PingTimerTicks, PongClockTicks,
             WindowExpires, RequestShutdown, CloseConnections, ProcessExits, Ends, handler
    <3> QED  BY <3>1, <3>2 DEF Next, Over
  <2>2. burst = {}
    BY <2>1, BurstMoves DEF SubscribeDone
  <2>3. k \in snapshotted \/ Coming(k)
    BY <2>2 DEF HealInv, Healing
  <2> QED  BY <2>3 DEF CoverageInv, CoveredIsCurrent
<1> QED
  BY <1>1, <1>2, <1>3, WsTypeCorrect, CoverageInvariant, PTL DEF Spec, SubscribeHeals
=============================================================================
