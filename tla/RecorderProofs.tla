--------------------------- MODULE RecorderProofs ---------------------------
(***************************************************************************)
(* Proofs about the recording core, for any sets of sessions, processes,   *)
(* inputs and clock readings, any capacity and any bounds.                 *)
(***************************************************************************)
EXTENDS RecorderProperties, TLAPS

-----------------------------------------------------------------------------
(* What one step of transition (projection/state.rs) does to the reading   *)
(* of the log, for every log: the inductive step behind RowsReflectLog.    *)

\* log[n + 1] joins the positions of its own session and no other.
LEMMA OfNext ==
    ASSUME NEW s, NEW log, NEW n \in Nat
    PROVE  /\ log[n + 1].sess = s => Of(s, log, n + 1) = Of(s, log, n) \cup {n + 1}
           /\ log[n + 1].sess # s => Of(s, log, n + 1) = Of(s, log, n)
           /\ \A i \in Of(s, log, n) : i \in Int /\ 1 <= i /\ i <= n
  BY DEF Of

(* An event of another session changes nothing that a row owes the log.    *)
LEMMA SkipReads ==
    ASSUME NEW s, NEW log, NEW n \in Nat, NEW prev,
           log[n + 1].sess # s, Agrees(prev, s, log, n)
    PROVE  Agrees(prev, s, log, n + 1)
<1>1. Of(s, log, n + 1) = Of(s, log, n)
  BY OfNext
<1>2. QED
  BY <1>1 DEF Agrees, ReadsAs, ReadsLast, ReadsFirst, ReadsPid, ReadsState

(* The reading depends on the first n events only.                         *)
LEMMA PrefixReads ==
    ASSUME NEW s, NEW a, NEW b, NEW n \in Nat, NEW prev,
           \A i \in 1..n : a[i] = b[i], Agrees(prev, s, a, n)
    PROVE  Agrees(prev, s, b, n)
<1>1. Of(s, a, n) = Of(s, b, n)
  BY DEF Of
<1>2. \A i \in Of(s, a, n) : a[i] = b[i]
  BY DEF Of
<1>3. CASE prev = NoRow
  BY <1>1, <1>3 DEF Agrees
<1>4. CASE prev # NoRow
  <2>1. ReadsAs(prev, s, a, n)
    BY <1>4 DEF Agrees
  <2>2. ReadsLast(prev, s, b, n)
    BY <1>1, <1>2, <2>1 DEF ReadsAs, ReadsLast
  <2>3. ReadsFirst(prev, s, b, n)
    BY <1>1, <1>2, <2>1 DEF ReadsAs, ReadsFirst
  <2>4. ReadsPid(prev, s, b, n)
    <3>1. {i \in Of(s, a, n) : a[i].pid # NoPid} = {i \in Of(s, b, n) : b[i].pid # NoPid}
      BY <1>1, <1>2
    <3>2. \A i \in {i \in Of(s, a, n) : a[i].pid # NoPid} : a[i] = b[i]
      BY <1>2
    <3>3. QED
      BY <2>1, <3>1, <3>2 DEF ReadsAs, ReadsPid
  <2>5. ReadsState(prev, s, b, n)
    <3>1. {i \in Of(s, a, n) : Decisive(a[i])} = {i \in Of(s, b, n) : Decisive(b[i])}
      BY <1>1, <1>2
    <3>2. \A i \in {i \in Of(s, a, n) : Decisive(a[i])} : a[i] = b[i]
      BY <1>2
    <3>3. \A i : {j \in Of(s, a, n) : j > i} = {j \in Of(s, b, n) : j > i}
      BY <1>1
    <3>4. QED
      BY <1>1, <1>2, <2>1, <3>1, <3>2, <3>3 DEF ReadsAs, ReadsState
  <2>6. QED
    BY <1>4, <2>2, <2>3, <2>4, <2>5 DEF Agrees, ReadsAs
<1>5. QED
  BY <1>3, <1>4

(* One application of transition takes a row that reads the first n events *)
(* to one that reads the first n + 1.                                      *)
LEMMA StepReads ==
    ASSUME NEW s, NEW log, NEW n \in Nat, NEW prev,
           prev \in Row \cup {NoRow},
           log[n + 1].sess = s, Agrees(prev, s, log, n)
    PROVE  ReadsAs(Transition(prev, log[n + 1], log[n + 1].at), s, log, n + 1)
<1> DEFINE e == log[n + 1]
           new == Transition(prev, e, e.at)
           old == Of(s, log, n)
<1>1. Of(s, log, n + 1) = old \cup {n + 1}
  BY OfNext
<1>2. \A i \in old : i \in Int /\ 1 <= i /\ i <= n
  BY OfNext
<1>3. prev = NoRow => old = {}
  BY DEF Agrees
<1>4. prev # NoRow => ReadsAs(prev, s, log, n)
  BY DEF Agrees
<1>5. ReadsLast(new, s, log, n + 1)
  <2>1. IsLast(n + 1, old \cup {n + 1})
    BY <1>2 DEF IsLast
  <2>2. new.last_event_kind = log[n + 1].kind /\ new.last_event_at_ms = log[n + 1].at
    BY DEF Transition
  <2>3. QED
    BY <1>1, <2>1, <2>2 DEF ReadsLast
<1>6. ReadsFirst(new, s, log, n + 1)
  <2>1. CASE prev = NoRow
    <3>1. new.started_at = log[n + 1].at
      BY <2>1 DEF Transition
    <3>2. IsFirst(n + 1, {n + 1})
      BY DEF IsFirst
    <3>3. QED
      BY <1>1, <1>3, <2>1, <3>1, <3>2 DEF ReadsFirst
  <2>2. CASE prev # NoRow
    <3>1. PICK i \in old : IsFirst(i, old) /\ prev.started_at = log[i].at
      BY <1>4, <2>2 DEF ReadsAs, ReadsFirst
    <3>2. IsFirst(i, old \cup {n + 1})
      BY <1>2, <3>1 DEF IsFirst
    <3>3. new.started_at = log[i].at
      BY <2>2, <3>1 DEF Transition
    <3>4. QED
      BY <1>1, <3>1, <3>2, <3>3 DEF ReadsFirst
  <2>3. QED
    BY <2>1, <2>2
<1>7. ReadsPid(new, s, log, n + 1)
  <2> DEFINE bound == {i \in old : log[i].pid # NoPid}
  <2>1. CASE e.pid # NoPid
    <3>1. {i \in old \cup {n + 1} : log[i].pid # NoPid} = bound \cup {n + 1}
      BY <2>1
    <3>2. IsLast(n + 1, bound \cup {n + 1})
      BY <1>2 DEF IsLast
    <3>3. new.last_pid = log[n + 1].pid
      BY <2>1 DEF Transition
    <3>4. QED
      BY <1>1, <3>1, <3>2, <3>3 DEF ReadsPid
  <2>2. CASE e.pid = NoPid
    <3>1. {i \in old \cup {n + 1} : log[i].pid # NoPid} = bound
      BY <2>2
    <3>2. CASE prev = NoRow
      BY <1>1, <1>3, <2>2, <3>1, <3>2 DEF ReadsPid, Transition
    <3>3. CASE prev # NoRow
      <4>1. new.last_pid = prev.last_pid
        BY <2>2, <3>3 DEF Transition
      <4>2. QED
        BY <1>1, <1>4, <3>1, <3>3, <4>1 DEF ReadsAs, ReadsPid
    <3>4. QED
      BY <3>2, <3>3
  <2>3. QED
    BY <2>1, <2>2
<1>8. ReadsState(new, s, log, n + 1)
  <2> DEFINE decisive == {i \in old : Decisive(log[i])}
             all == {i \in old \cup {n + 1} : Decisive(log[i])}
             Since(i) == {j \in old : j > i}
             SinceAll(i) == {j \in old \cup {n + 1} : j > i}
  <2>0. new.current_state = NextCurrent(CurrentOf(prev), e)
    BY DEF Transition
  <2>1. CASE Decisive(e)
    <3>1. all = decisive \cup {n + 1}
      BY <2>1
    <3>2. IsLast(n + 1, all)
      BY <1>2, <3>1 DEF IsLast
    <3>3. SinceAll(n + 1) = {}
      BY <1>2
    <3>4. new.current_state = NextCurrent("Absent", log[n + 1])
      BY <2>0, <2>1 DEF NextCurrent, Decisive, BlocksOnUser
    <3>5. n + 1 \in all
      BY <3>1
    <3>6. QED
      BY <1>1, <3>2, <3>3, <3>4, <3>5 DEF ReadsState
  <2>2. CASE ~Decisive(e)
    <3>1. all = decisive
      BY <2>2
    <3>2. new.current_state = IF IsIdlePrompt(e)
                              THEN IF CurrentOf(prev) = "WaitingInput"
                                   THEN "WaitingInput" ELSE "Idle"
                              ELSE IF CurrentOf(prev) \in {"Ended", "Absent"}
                                   THEN "Idle" ELSE CurrentOf(prev)
      BY <2>0, <2>2 DEF NextCurrent, Decisive
    <3>3. CASE prev = NoRow
      <4>1. all = {}
        BY <1>3, <3>1, <3>3
      <4>2. new.current_state = "Idle"
        BY <3>2, <3>3 DEF CurrentOf
      <4>3. QED
        BY <1>1, <4>1, <4>2 DEF ReadsState
    <3>4. CASE prev # NoRow /\ decisive = {}
      <4>1. CurrentOf(prev) = "Idle"
        BY <1>4, <3>4 DEF ReadsAs, ReadsState, CurrentOf
      <4>2. QED
        BY <1>1, <3>1, <3>2, <3>4, <4>1 DEF ReadsState
    <3>5. CASE prev # NoRow /\ decisive # {}
      <4>1. PICK i \in decisive :
              /\ IsLast(i, decisive)
              /\ prev.current_state =
                   IF /\ NextCurrent("Absent", log[i]) = "Working"
                      /\ \E j \in Since(i) : IsIdlePrompt(log[j])
                   THEN "Idle"
                   ELSE IF NextCurrent("Absent", log[i]) = "Ended" /\ Since(i) # {}
                        THEN "Idle" ELSE NextCurrent("Absent", log[i])
        BY <1>4, <3>5 DEF ReadsAs, ReadsState
      <4>2. SinceAll(i) = Since(i) \cup {n + 1}
        BY <1>2, <4>1
      <4>3. NextCurrent("Absent", log[i]) \in States
        BY DEF NextCurrent, States
      <4>4. (\E j \in SinceAll(i) : IsIdlePrompt(log[j])) <=>
              (\E j \in Since(i) : IsIdlePrompt(log[j])) \/ IsIdlePrompt(e)
        BY <4>2
      <4>5. SinceAll(i) # {}
        BY <4>2
      <4>6. CurrentOf(prev) = prev.current_state
        BY <3>5 DEF CurrentOf
      <4>7. new.current_state =
              IF /\ NextCurrent("Absent", log[i]) = "Working"
                 /\ \E j \in SinceAll(i) : IsIdlePrompt(log[j])
              THEN "Idle"
              ELSE IF NextCurrent("Absent", log[i]) = "Ended" /\ SinceAll(i) # {}
                   THEN "Idle" ELSE NextCurrent("Absent", log[i])
        <5> HIDE DEF new, e, Since, SinceAll
        <5> QED
          BY <3>2, <4>1, <4>3, <4>4, <4>5, <4>6 DEF States
      <4>8. i \in all /\ IsLast(i, all)
        BY <3>1, <4>1
      <4>9. QED
        BY <1>1, <4>7, <4>8 DEF ReadsState
    <3>6. QED
      BY <3>3, <3>4, <3>5
  <2>3. QED
    BY <2>1, <2>2
<1>9. QED
  BY <1>5, <1>6, <1>7, <1>8 DEF ReadsAs


USE ConstantsAssumption, NoRowAssumption, RecorderAssumption
USE DEF store, wtask, ptask, hub, ghosts

-----------------------------------------------------------------------------
(* Types.                                                                  *)

\* What the tasks hold at each of their control points.
ControlInv ==
    /\ writerPc \in {"write", "publish", "scan", "ending", "publishEnd"} => item \in Item
    /\ writerPc \in {"scan", "ending", "publishEnd"} => Supersedes(item)
    /\ probePc = "ending" => suspect \in Scan
    /\ rb.sess # Daemon => rb.next # 0

TypeInv == TypeOK /\ ControlInv

(* Transition returns a row whatever it is given.                          *)
LEMMA TransitionType ==
    ASSUME NEW prev \in Row \cup {NoRow}, NEW e, e.kind \in Kinds, e.pid \in PidOrNone,
           NEW t \in Int
    PROVE  Transition(prev, e, t) \in Row
<1>1. NextCurrent(CurrentOf(prev), e) \in States
  <2>1. CurrentOf(prev) \in States \cup {"Absent"}
    BY DEF CurrentOf, Row
  <2>2. QED
    BY <2>1 DEF NextCurrent, States
<1>2. (IF e.pid # NoPid THEN e.pid ELSE IF prev = NoRow THEN NoPid ELSE prev.last_pid)
        \in PidOrNone
  BY DEF PidOrNone, Row
<1>3. (IF prev = NoRow THEN t ELSE prev.started_at) \in Int
  BY DEF Row
<1> QED
  BY <1>1, <1>2, <1>3 DEF Transition, Row

(* The events the tasks build are events.                                  *)
LEMMA EventTypes ==
    ASSUME TypeInv
    PROVE  /\ \A it \in Item : HookEvent(it) \in Event
           /\ \A v \in Scan, r \in EndedReasons : EndEvent(v, r) \in Event
           /\ \A k \in SentinelKinds : Sentinel(k) \in Event
<1>1. now \in Int
  BY DEF TypeInv, TypeOK
<1>2. \A it \in Item : HookEvent(it) \in Event
  BY <1>1 DEF Item, HookEvent, Event
<1>3. \A v \in Scan, r \in EndedReasons : EndEvent(v, r) \in Event
  BY <1>1 DEF Scan, Row, EndEvent, Event, Kinds, NotificationTypes
<1>4. \A k \in SentinelKinds : Sentinel(k) \in Event
  BY <1>1 DEF Sentinel, Event, Kinds, NotificationTypes, PidOrNone
<1> QED
  BY <1>2, <1>3, <1>4

(* A commit keeps the tables and the publications well typed.              *)
LEMMA CommitType ==
    ASSUME TypeInv, NEW t \in Tasks, NEW e \in Event, e.sess \in Sessions, Commit(t, e)
    PROVE  /\ events' \in Seq(Event)
           /\ proj' \in [Sessions -> Row \cup {NoRow}]
           /\ owed' \in [Tasks -> Pub]
<1> DEFINE new == Transition(proj[e.sess], e, now)
<1>1. new \in Row
  BY TransitionType DEF TypeInv, TypeOK, Event
<1>2. StateChanged(proj[e.sess], new) \in BOOLEAN
  BY DEF StateChanged
<1>3. [id |-> Len(events) + 1, sess |-> e.sess, state |-> new.current_state,
       changed |-> StateChanged(proj[e.sess], new)] \in Pub
  BY <1>1, <1>2 DEF Pub, Row, TypeInv, TypeOK
<1> HIDE DEF new
<1>4. events' = Append(events, e) /\ proj' = [proj EXCEPT ![e.sess] = new]
  BY DEF Commit, new
<1>5. owed' = [owed EXCEPT ![t] =
        [id |-> Len(events) + 1, sess |-> e.sess, state |-> new.current_state,
         changed |-> StateChanged(proj[e.sess], new)]]
  BY DEF Commit, new
<1> QED
  BY <1>1, <1>3, <1>4, <1>5 DEF TypeInv, TypeOK

(* The environment and ingest keep the types.                              *)
LEMMA EnvironmentType ==
    ASSUME TypeInv,
           \/ ClockStep
           \/ \E p \in Pids : ProcessExits(p)
           \/ \E s \in Sessions : RowDeleted(s)
           \/ \E in \in Inputs : Submit(in)
    PROVE  TypeInv'
<1>1. CASE ClockStep
  BY <1>1
     DEF TypeInv, TypeOK, ControlInv, ClockStep
<1>2. ASSUME NEW p \in Pids, ProcessExits(p) PROVE TypeInv'
  BY <1>2
     DEF TypeInv, TypeOK, ControlInv, ProcessExits
<1>3. ASSUME NEW s \in Sessions, RowDeleted(s) PROVE TypeInv'
  BY <1>3
     DEF TypeInv, TypeOK, ControlInv, RowDeleted
<1>4. ASSUME NEW in \in Inputs, Submit(in) PROVE TypeInv'
  <2>1. [sess |-> in.sess, kind |-> in.kind, ntype |-> in.ntype, pid |-> in.pid,
         origin |-> in.origin, ticket |-> acked + 1] \in Item
    BY DEF Input, Item, Kinds, TypeInv, TypeOK
  <2>2. queue' \in Seq(Item) /\ Len(queue') <= Capacity
    BY <1>4, <2>1 DEF Submit, HasRoom, TypeInv, TypeOK
  <2>3. QED
    BY <1>4, <2>2 DEF Submit, TypeInv, TypeOK, ControlInv
<1> QED
  BY <1>1, <1>2, <1>3, <1>4

(* What publishing leaves behind.                                          *)
LEMMA PublishType ==
    ASSUME TypeInv, NEW t \in Tasks, Publish(t)
    PROVE  /\ owed' \in [Tasks -> Pub]
           /\ lastEvent' \in Nat
           /\ shown' \in [Sessions -> States \cup {"None"}]
  BY DEF Publish, TypeInv, TypeOK, Pub, NoPub, States

(* The rows a SELECT returns.                                              *)
LEMMA ScanType ==
    ASSUME TypeInv, NEW S \in SUBSET Sessions, \A s \in S : proj[s] # NoRow
    PROVE  {[sess |-> s, row |-> proj[s], seen |-> Len(events)] : s \in S} \subseteq Scan
  BY DEF TypeInv, TypeOK, Scan

(* The writer task keeps the types.                                        *)
LEMMA WriterType ==
    ASSUME TypeInv, Writer
    PROVE  TypeInv'
<1>1. CASE WriterRecv
  BY <1>1
     DEF TypeInv, TypeOK, ControlInv, WriterRecv
<1>2. CASE WriterCommit
  <2>1. item \in Item
    BY <1>2 DEF WriterCommit, TypeInv, ControlInv
  <2>2. HookEvent(item) \in Event /\ HookEvent(item).sess \in Sessions
    BY <2>1, EventTypes DEF HookEvent, Item
  <2>3. /\ events' \in Seq(Event)
        /\ proj' \in [Sessions -> Row \cup {NoRow}]
        /\ owed' \in [Tasks -> Pub]
    BY <1>2, <2>2, CommitType DEF WriterCommit, Tasks
  <2>4. excused' \subseteq Pids
    BY <1>2 DEF WriterCommit, UncheckedClaims, TypeInv, TypeOK
  <2>5. QED
    BY <1>2, <2>1, <2>3, <2>4 DEF WriterCommit, TypeInv, TypeOK, ControlInv
<1>3. CASE WriterWriteFails
  <2>1. item.ticket \in Nat
    BY <1>3 DEF WriterWriteFails, TypeInv, ControlInv, Item
  <2>2. gone' \subseteq Nat
    BY <1>3, <2>1 DEF WriterWriteFails, TypeInv, TypeOK
  <2>3. QED
    BY <1>3, <2>2 DEF WriterWriteFails, TypeInv, TypeOK, ControlInv
<1>4. CASE WriterPublish
  BY PublishType, <1>4
     DEF TypeInv, TypeOK, ControlInv, WriterPublish, Tasks, Supersedes
<1>5. CASE SupersedeSelect
  <2>1. victims' \subseteq Scan
    BY <1>5, ScanType DEF SupersedeSelect, Predecessors, Claims
  <2>2. QED
    BY <1>5, <2>1 DEF SupersedeSelect, TypeInv, TypeOK, ControlInv, Supersedes
<1>6. CASE SupersedeSelectFails
  BY <1>6
     DEF TypeInv, TypeOK, ControlInv, SupersedeSelectFails, Supersedes, Item, PidOrNone
<1>7. ASSUME NEW v \in victims, SupersedeEnd(v) PROVE TypeInv'
  <2>1. EndEvent(v, "PidSuperseded") \in Event /\ EndEvent(v, "PidSuperseded").sess \in Sessions
    BY EventTypes DEF TypeInv, TypeOK, EndEvent, Scan, EndedReasons
  <2>2. /\ events' \in Seq(Event)
        /\ proj' \in [Sessions -> Row \cup {NoRow}]
        /\ owed' \in [Tasks -> Pub]
    BY <1>7, <2>1, CommitType DEF SupersedeEnd, Tasks
  <2>3. QED
    BY <1>7, <2>2 DEF SupersedeEnd, TypeInv, TypeOK, ControlInv, Supersedes
<1>8. ASSUME NEW v \in victims, SupersedeSkip(v) PROVE TypeInv'
  BY <1>8
     DEF TypeInv, TypeOK, ControlInv, SupersedeSkip, Supersedes
<1>9. ASSUME NEW v \in victims, SupersedeEndFails(v) PROVE TypeInv'
  BY <1>9
     DEF TypeInv, TypeOK, ControlInv, SupersedeEndFails, Supersedes, Item, PidOrNone
<1>10. CASE SupersedePublish
  BY PublishType, <1>10
     DEF TypeInv, TypeOK, ControlInv, SupersedePublish, Tasks, Supersedes
<1>11. CASE SupersedeDone
  BY <1>11
     DEF TypeInv, TypeOK, ControlInv, SupersedeDone
<1>12. CASE WriterExit
  BY <1>12
     DEF TypeInv, TypeOK, ControlInv, WriterExit
<1> QED
  BY <1>1, <1>2, <1>3, <1>4, <1>5, <1>6, <1>7, <1>8, <1>9, <1>10, <1>11, <1>12 DEF Writer

(* The probe keeps the types.                                              *)
LEMMA ProbeType ==
    ASSUME TypeInv, Probe
    PROVE  TypeInv'
<1>1. CASE ProbeSelect
  <2>1. scanned' \subseteq Scan
    BY <1>1, ScanType DEF ProbeSelect, Unended
  <2>2. QED
    BY <1>1, <2>1 DEF ProbeSelect, TypeInv, TypeOK, ControlInv, Supersedes
<1>2. CASE ProbeSelectFails
  BY <1>2
     DEF TypeInv, TypeOK, ControlInv, ProbeSelectFails, ProbeReturns, Supersedes
<1>3. ASSUME NEW r \in scanned, ProbeSpare(r) PROVE TypeInv'
  BY <1>3
     DEF TypeInv, TypeOK, ControlInv, ProbeSpare, Supersedes
<1>4. ASSUME NEW r \in scanned, ProbeCondemn(r) PROVE TypeInv'
  BY <1>4
     DEF TypeInv, TypeOK, ControlInv, ProbeCondemn, Supersedes
<1>5. CASE ProbeEnd
  <2>1. suspect \in Scan /\ ReasonFor(suspect) \in EndedReasons
    BY <1>5 DEF ProbeEnd, TypeInv, ControlInv, ReasonFor, EndedReasons
  <2>2. /\ EndEvent(suspect, ReasonFor(suspect)) \in Event
        /\ EndEvent(suspect, ReasonFor(suspect)).sess \in Sessions
    BY <2>1, EventTypes DEF EndEvent, Scan
  <2>3. /\ events' \in Seq(Event)
        /\ proj' \in [Sessions -> Row \cup {NoRow}]
        /\ owed' \in [Tasks -> Pub]
    BY <1>5, <2>2, CommitType DEF ProbeEnd, Tasks
  <2>4. QED
    BY <1>5, <2>3 DEF ProbeEnd, TypeInv, TypeOK, ControlInv, Supersedes
<1>6. CASE ProbeSkip
  BY <1>6
     DEF TypeInv, TypeOK, ControlInv, ProbeSkip, Supersedes
<1>7. CASE ProbeEndFails
  BY <1>7
     DEF TypeInv, TypeOK, ControlInv, ProbeEndFails, Supersedes
<1>8. CASE ProbePublish
  BY PublishType, <1>8
     DEF TypeInv, TypeOK, ControlInv, ProbePublish, Tasks, Supersedes
<1>9. CASE ProbeDone
  BY <1>9
     DEF TypeInv, TypeOK, ControlInv, ProbeDone, ProbeReturns, Supersedes
<1>10. CASE ProbeExit
  BY <1>10
     DEF TypeInv, TypeOK, ControlInv, ProbeExit, Supersedes
<1> QED
  BY <1>1, <1>2, <1>3, <1>4, <1>5, <1>6, <1>7, <1>8, <1>9, <1>10 DEF Probe

(* A vanished process holds nothing.                                       *)
LEMMA VanishType ==
    ASSUME TypeInv, Vanish,
           UNCHANGED <<now, alive, events, proj, recs, boots, acked, torn>>,
           faults' \in Nat, gone' \subseteq Nat, excused' \subseteq Pids
    PROVE  TypeInv'
  BY DEF Vanish, TypeInv, TypeOK, ControlInv, NoRebuild, Pub, NoPub, States, Kinds

\* The conjuncts of TypeInv that mention rb.
RebuildType ==
    /\ rb \in [sess : Sessions \cup {Daemon}, next : Nat, acc : Row \cup {NoRow},
               out : [Sessions -> Row \cup {NoRow}]]
    /\ rb.sess # Daemon => rb.next # 0

(* Startup keeps the types.                                                *)
LEMMA StartupType ==
    ASSUME TypeInv, Startup
    PROVE  TypeInv'
<1>1. ASSUME NEW s \in Sessions, RebuildOpen(s) PROVE TypeInv'
  <2>1. RebuildType'
    <3>1. rb' = [sess |-> s, next |-> 1, acc |-> NoRow, out |-> rb.out]
      BY <1>1 DEF RebuildOpen, TypeInv, TypeOK
    <3>2. QED
      BY <3>1 DEF RebuildType, TypeInv, TypeOK
  <2>2. QED
    BY <1>1, <2>1 DEF RebuildOpen, RebuildType, TypeInv, TypeOK, ControlInv, Supersedes
<1>2. CASE RebuildFold
  <2>1. events[rb.next] \in Event
    BY <1>2 DEF RebuildFold, TypeInv, TypeOK, ControlInv
  <2>2. Transition(rb.acc, events[rb.next], events[rb.next].at) \in Row
    BY <2>1, TransitionType DEF Event, TypeInv, TypeOK
  <2> DEFINE acc == IF events[rb.next].sess = rb.sess
                    THEN Transition(rb.acc, events[rb.next], events[rb.next].at) ELSE rb.acc
  <2>3. acc \in Row \cup {NoRow}
    BY <2>2 DEF TypeInv, TypeOK
  <2>4. rb' = [rb EXCEPT !.next = rb.next + 1, !.acc = acc]
    BY <1>2 DEF RebuildFold
  <2> HIDE DEF acc
  <2>5. RebuildType'
    <3>1. rb' = [sess |-> rb.sess, next |-> rb.next + 1, acc |-> acc, out |-> rb.out]
      BY <2>4 DEF TypeInv, TypeOK
    <3>2. QED
      BY <2>3, <3>1 DEF RebuildType, TypeInv, TypeOK
  <2>6. QED
    BY <1>2, <2>5 DEF RebuildFold, RebuildType, TypeInv, TypeOK, ControlInv, Supersedes
<1>3. CASE RebuildUpsert
  BY <1>3
     DEF TypeInv, TypeOK, ControlInv, RebuildUpsert, Supersedes
<1>4. CASE RebuildCommit
  BY <1>4
     DEF TypeInv, TypeOK, ControlInv, RebuildCommit, RebuiltClaims, NoRebuild, Supersedes
<1>5. CASE RebuildFails
  BY <1>5
     DEF TypeInv, TypeOK, ControlInv, RebuildFails, NoRebuild, Supersedes
<1>6. CASE StartRecording
  <2>1. events' \in Seq(Event)
    BY <1>6, EventTypes DEF StartRecording, SentinelKinds, TypeInv, TypeOK
  <2>2. recs' \in Seq([started : Nat \ {0}, ended : Nat])
    BY <1>6 DEF StartRecording, TypeInv, TypeOK
  <2>3. QED
    BY <1>6, <2>1, <2>2 DEF StartRecording, TypeInv, TypeOK, ControlInv, Supersedes
<1>7. CASE StartRecordingFails
  BY VanishType, <1>7
     DEF TypeInv, TypeOK, ControlInv, StartRecordingFails
<1> QED
  BY <1>1, <1>2, <1>3, <1>4, <1>5, <1>6, <1>7 DEF Startup

(* Boot and shutdown keep the types.                                       *)
LEMMA LifeType ==
    ASSUME TypeInv,
           Boot \/ RequestShutdown \/ EndRecording \/ EndRecordingFails \/ Exit \/ Crash
    PROVE  TypeInv'
<1>1. CASE Boot
  <2>1. rb' = [sess |-> Daemon, next |-> 0, acc |-> NoRow, out |-> proj]
    BY <1>1 DEF Boot, NoRebuild
  <2>2. RebuildType'
    BY <2>1 DEF RebuildType, TypeInv, TypeOK
  <2>3. QED
    BY <1>1, <2>2, SMTT(30) DEF Boot, RebuildType, TypeInv, TypeOK, ControlInv, Supersedes
<1>2. CASE RequestShutdown
  BY <1>2
     DEF TypeInv, TypeOK, ControlInv, RequestShutdown, Supersedes
<1>3. CASE EndRecording
  <2>1. events' \in Seq(Event)
    BY SMTT(30), <1>3, EventTypes DEF EndRecording, SentinelKinds, TypeInv, TypeOK
  <2>2. recs' \in Seq([started : Nat \ {0}, ended : Nat])
    <3> DEFINE R == [started : Nat \ {0}, ended : Nat]
    <3>1. recs \in Seq(R) /\ Len(events) + 1 \in Nat
      BY DEF TypeInv, TypeOK
    <3>2. recs' = [recs EXCEPT ![Len(recs)] = [@ EXCEPT !.ended = Len(events) + 1]]
      BY <1>3 DEF EndRecording
    <3>3. \A r \in R : [r EXCEPT !.ended = Len(events) + 1] \in R
      BY <3>1
    <3> HIDE DEF R
    <3>4. QED
      <4>1. \A i \in 1..Len(recs) : recs'[i] \in R
        BY <3>1, <3>2, <3>3
      <4>2. Len(recs) \in Nat /\ recs' = [i \in 1..Len(recs) |-> recs'[i]]
        <5>1. Len(recs) \in Nat /\ DOMAIN recs = 1..Len(recs)
          BY <3>1
        <5>2. DOMAIN recs' = 1..Len(recs)
          BY <3>2, <5>1
        <5>3. recs' = [i \in DOMAIN recs' |-> recs'[i]]
          BY <3>2, Zenon
        <5>4. QED
          BY <5>1, <5>2, <5>3, Zenon
      <4>3. recs' \in Seq(R)
        BY <4>1, <4>2
      <4>4. QED
        BY <4>3 DEF R
  <2>3. TypeOK'
    BY <1>3, <2>1, <2>2 DEF EndRecording, TypeInv, TypeOK
  <2>4. ControlInv'
    BY <1>3 DEF EndRecording, TypeInv, ControlInv, Supersedes
  <2>5. QED
    BY <2>3, <2>4 DEF TypeInv
<1>4. CASE EndRecordingFails
  BY <1>4
     DEF TypeInv, TypeOK, ControlInv, EndRecordingFails, Supersedes
<1>5. CASE Exit
  BY VanishType, <1>5
     DEF TypeInv, TypeOK, ControlInv, Exit
<1>6. CASE Crash
  <2>1. InMemory \subseteq Nat
    <3>1. \A i \in 1..Len(queue) : queue[i].ticket \in Nat
      <4>1. queue \in Seq(Item)
        BY DEF TypeInv, TypeOK
      <4>2. \A i \in 1..Len(queue) : queue[i] \in Item
        BY <4>1
      <4>3. QED
        BY <4>2 DEF Item
    <3>2. writerPc = "write" => item.ticket \in Nat
      BY DEF TypeInv, ControlInv, Item
    <3>3. QED
      BY <3>1, <3>2 DEF InMemory
  <2>2. CutShort \subseteq Pids
    BY DEF CutShort, Supersedes, TypeInv, ControlInv, Item, PidOrNone
  <2>3. QED
    BY <1>6, <2>1, <2>2, VanishType DEF Crash, TypeInv, TypeOK
<1> QED
  BY <1>1, <1>2, <1>3, <1>4, <1>5, <1>6

(* Every reachable state is well typed, and each task holds what its       *)
(* control point needs.                                                    *)
THEOREM TypeInvariance == Spec => []TypeInv
<1>1. Init => TypeInv
  BY DEF Init, TypeInv, TypeOK, ControlInv, NoRebuild, NoPub, Pub, States
<1>2. TypeInv /\ [Next]_vars => TypeInv'
  <2> SUFFICES ASSUME TypeInv, [Next]_vars PROVE TypeInv'
    OBVIOUS
  <2>1. CASE Next
    BY <2>1, EnvironmentType, WriterType, ProbeType, StartupType, LifeType DEF Next
  <2>2. CASE UNCHANGED vars
    BY <2>2 DEF vars, TypeInv, TypeOK, ControlInv, Supersedes
  <2>3. QED
    BY <2>1, <2>2
<1>3. QED
  BY <1>1, <1>2, PTL DEF Spec

(* The type invariant the runs check.                                      *)
THEOREM TypeCorrect == Spec => []TypeOK
  BY TypeInvariance, PTL DEF TypeInv

-----------------------------------------------------------------------------
(* The projection table reflects the event log (RowsReflectLog), for any   *)
(* number of sessions, events, restarts, crashes and faults.               *)
(*                                                                         *)
(* RowsReflectLog is not inductive: rebuild_missing_projections replaces   *)
(* the whole table by what it folded in earlier steps.  RebuildInv says    *)
(* what that transaction holds on the way, and TaskInv that no task writes *)
(* while it runs.                                                          *)

\* The tasks run only once main has spawned them, and main has joined them
\* before it closes.
TaskInv ==
    /\ phase \in {"down", "rebuild", "startRecording", "closing"} => probePc = "exited"
    /\ phase \notin {"serving", "stopping"} => writerPc = "exited"

\* The rebuild keeps the rows there are, its finished rows read the whole log,
\* and the row it is folding reads the events it has passed.
RebuildInv ==
    phase = "rebuild" =>
        /\ \A s \in Sessions : proj[s] # NoRow => rb.out[s] = proj[s]
        /\ \A s \in Sessions :
              (proj[s] = NoRow /\ rb.out[s] # NoRow) => Agrees(rb.out[s], s, events, Len(events))
        /\ rb.sess # Daemon =>
              /\ proj[rb.sess] = NoRow
              /\ rb.next <= Len(events) + 1
              /\ Agrees(rb.acc, rb.sess, events, rb.next - 1)

ReflectionInv == TypeInv /\ TaskInv /\ RebuildInv /\ RowsReflectLog

(* Appending an event keeps the readings of all the sessions it is not of. *)
LEMMA AppendSkips ==
    ASSUME TypeInv, NEW e \in Event, NEW s, s # e.sess,
           Agrees(proj[s], s, events, Len(events))
    PROVE  Agrees(proj[s], s, Append(events, e), Len(events) + 1)
<1> DEFINE n == Len(events)
           log == Append(events, e)
<1>1. events \in Seq(Event) /\ n \in Nat
  BY DEF TypeInv, TypeOK
<1>2. log[n + 1] = e /\ \A i \in 1..n : events[i] = log[i]
  BY <1>1
<1> HIDE DEF n, log
<1>3. Agrees(proj[s], s, log, n)
  BY <1>1, <1>2, PrefixReads DEF n
<1>4. Agrees(proj[s], s, log, n + 1)
  BY <1>1, <1>2, <1>3, SkipReads
<1>5. QED
  BY <1>4 DEF n, log

(* write_inner keeps every row it may: the row it writes reads the log     *)
(* with the new event, the others are not touched by it.                   *)
LEMMA CommitReflects ==
    ASSUME TypeInv, RowsReflectLog, NEW t \in Tasks, NEW e \in Event,
           e.sess \in Sessions, e.at = now, Commit(t, e), torn' = torn
    PROVE  RowsReflectLog'
<1> SUFFICES ASSUME NEW s \in Sessions \ torn
             PROVE  Agrees(proj'[s], s, events', Len(events'))
  BY DEF RowsReflectLog
<1> DEFINE n == Len(events)
           log == Append(events, e)
<1>1. events \in Seq(Event) /\ n \in Nat /\ proj \in [Sessions -> Row \cup {NoRow}]
  BY DEF TypeInv, TypeOK
<1>2. events' = log /\ Len(events') = n + 1
  BY <1>1 DEF Commit
<1>3. Agrees(proj[s], s, events, n)
  BY DEF RowsReflectLog
<1>4. CASE s # e.sess
  <2>1. proj'[s] = proj[s]
    BY <1>1, <1>4 DEF Commit
  <2>2. QED
    BY <1>2, <1>3, <1>4, <2>1, AppendSkips
<1>5. CASE s = e.sess
  <2>1. proj'[s] = Transition(proj[s], e, e.at)
    BY <1>1, <1>5 DEF Commit
  <2>2. log[n + 1] = e /\ \A i \in 1..n : events[i] = log[i]
    BY <1>1
  <2>3. proj[s] \in Row \cup {NoRow}
    BY <1>1
  <2> HIDE DEF n, log
  <2>4. Agrees(proj[s], s, log, n)
    BY <1>1, <1>3, <2>2, PrefixReads
  <2>5. ReadsAs(proj'[s], s, log, n + 1)
    BY <1>1, <1>5, <2>1, <2>2, <2>3, <2>4, StepReads
  <2>6. proj'[s] # NoRow
    BY <2>1, <2>3, TransitionType DEF Event
  <2>7. QED
    BY <1>2, <2>5, <2>6 DEF Agrees
<1>6. QED
  BY <1>4, <1>5

(* A sentinel belongs to no session.                                       *)
LEMMA SentinelReflects ==
    ASSUME TypeInv, RowsReflectLog, NEW k \in SentinelKinds,
           events' = Append(events, Sentinel(k)), UNCHANGED <<proj, torn>>
    PROVE  RowsReflectLog'
<1>1. Sentinel(k) \in Event /\ Sentinel(k).sess = Daemon
  BY EventTypes DEF Sentinel
<1>2. Len(events') = Len(events) + 1
  BY DEF TypeInv, TypeOK
<1>3. QED
  BY <1>1, <1>2, AppendSkips DEF RowsReflectLog

(* A step that writes no row, no event and nothing of the rebuild.         *)
LEMMA QuietReflects ==
    ASSUME RowsReflectLog, RebuildInv, UNCHANGED <<events, proj, torn>>,
           phase' = "rebuild" => phase = "rebuild" /\ rb' = rb
    PROVE  RowsReflectLog' /\ RebuildInv'
  BY DEF RowsReflectLog, RebuildInv

(* Every step of the writer keeps the rows what the log says of them.      *)
LEMMA WriterReflects ==
    ASSUME ReflectionInv, Writer
    PROVE  ReflectionInv'
<1> USE DEF ReflectionInv
<1>1. TypeInv'
  BY WriterType
<1>2. ASSUME UNCHANGED <<events, proj, torn, rb, phase, probePc>>, writerPc # "exited"
      PROVE  ReflectionInv'
  BY <1>1, <1>2, QuietReflects DEF TaskInv
<1>3. ASSUME NEW e \in Event, e.sess \in Sessions, e.at = now, Commit("writer", e),
             torn' = torn, phase' = phase, probePc' = probePc, writerPc # "exited"
      PROVE  ReflectionInv'
  BY <1>1, <1>3, CommitReflects DEF TaskInv, RebuildInv, Tasks
<1>4. CASE WriterCommit
  <2>1. HookEvent(item) \in Event /\ HookEvent(item).sess \in Sessions /\ HookEvent(item).at = now
    <3>1. item \in Item
      BY <1>4 DEF WriterCommit, TypeInv, ControlInv
    <3>2. QED
      BY <3>1, EventTypes DEF HookEvent, Item
  <2>2. QED
    BY <1>3, <1>4, <2>1 DEF WriterCommit
<1>5. ASSUME NEW v \in victims, SupersedeEnd(v) PROVE ReflectionInv'
  <2> DEFINE e == EndEvent(v, "PidSuperseded")
  <2>1. e \in Event /\ e.sess \in Sessions /\ e.at = now
    BY EventTypes DEF TypeInv, TypeOK, EndEvent, Scan, EndedReasons
  <2>2. QED
    BY <1>3, <1>5, <2>1 DEF SupersedeEnd
<1>6. CASE WriterRecv \/ WriterWriteFails \/ WriterPublish \/ SupersedePublish
  BY <1>2, <1>6 DEF WriterRecv, WriterWriteFails, WriterPublish, SupersedePublish
<1>7. CASE SupersedeSelect \/ SupersedeSelectFails \/ SupersedeDone \/ WriterExit
  BY <1>2, <1>7 DEF SupersedeSelect, SupersedeSelectFails, SupersedeDone, WriterExit
<1>8. ASSUME NEW v \in victims, SupersedeSkip(v) \/ SupersedeEndFails(v) PROVE ReflectionInv'
  BY <1>2, <1>8 DEF SupersedeSkip, SupersedeEndFails
<1>9. QED
  BY <1>4, <1>5, <1>6, <1>7, <1>8 DEF Writer

(* Every step of the probe keeps the rows what the log says of them.       *)
LEMMA ProbeReflects ==
    ASSUME ReflectionInv, Probe
    PROVE  ReflectionInv'
<1> USE DEF ReflectionInv
<1>1. TypeInv'
  BY ProbeType
<1>2. ASSUME UNCHANGED <<events, proj, torn, rb, writerPc>>, probePc # "exited",
             phase' # phase => /\ phase = "startProbe" /\ phase' = "startRecording"
                               /\ probePc' = "exited"
      PROVE  ReflectionInv'
  BY <1>1, <1>2, QuietReflects DEF TaskInv
<1>3. CASE ProbeEnd
  <2> DEFINE e == EndEvent(suspect, ReasonFor(suspect))
  <2>1. suspect \in Scan /\ ReasonFor(suspect) \in EndedReasons
    BY <1>3 DEF ProbeEnd, TypeInv, ControlInv, ReasonFor, EndedReasons
  <2>2. e \in Event /\ e.sess \in Sessions /\ e.at = now
    BY <2>1, EventTypes DEF EndEvent, Scan
  <2>3. phase # "rebuild" /\ phase' = phase
    BY <1>3 DEF ProbeEnd, TaskInv
  <2>4. RowsReflectLog'
    BY <1>3, <2>2, CommitReflects DEF ProbeEnd, Tasks
  <2>5. TaskInv'
    BY <1>3 DEF ProbeEnd, TaskInv
  <2>6. QED
    BY <1>1, <2>3, <2>4, <2>5 DEF RebuildInv
<1>4. CASE ProbeSelect \/ ProbeSelectFails \/ ProbeSkip \/ ProbeEndFails
  BY <1>2, <1>4 DEF ProbeSelect, ProbeSelectFails, ProbeReturns, ProbeSkip, ProbeEndFails
<1>5. CASE ProbePublish \/ ProbeDone \/ ProbeExit
  BY <1>2, <1>5 DEF ProbePublish, ProbeDone, ProbeReturns, ProbeExit
<1>6. ASSUME NEW r \in scanned, ProbeSpare(r) \/ ProbeCondemn(r) PROVE ReflectionInv'
  BY <1>2, <1>6 DEF ProbeSpare, ProbeCondemn
<1>7. QED
  BY <1>3, <1>4, <1>5, <1>6 DEF Probe

(* The rebuild replays the log into rows that say what the log says, and its *)
(* commit replaces the table by them.                                      *)
LEMMA StartupReflects ==
    ASSUME ReflectionInv, Startup
    PROVE  ReflectionInv'
<1> USE DEF ReflectionInv
<1>1. TypeInv'
  BY StartupType
<1>2. rb \in [sess : Sessions \cup {Daemon}, next : Nat, acc : Row \cup {NoRow},
              out : [Sessions -> Row \cup {NoRow}]]
  BY DEF TypeInv, TypeOK
<1>3. ASSUME NEW s \in Sessions, RebuildOpen(s) PROVE ReflectionInv'
  <2>1. rb' = [sess |-> s, next |-> 1, acc |-> NoRow, out |-> rb.out]
    BY <1>2, <1>3 DEF RebuildOpen
  <2>2. Agrees(NoRow, s, events, 0)
    BY DEF Agrees, Of
  <2>3. proj[s] = NoRow
    BY <1>3 DEF RebuildOpen, RebuildInv
  <2>4. Len(events) \in Nat
    BY DEF TypeInv, TypeOK
  <2>5. RebuildInv'
    BY <1>3, <2>1, <2>2, <2>3, <2>4 DEF RebuildOpen, RebuildInv
  <2>6. QED
    BY <1>1, <1>3, <2>5 DEF RebuildOpen, TaskInv, RowsReflectLog
<1>4. CASE RebuildFold
  <2> DEFINE e == events[rb.next]
             acc == IF e.sess = rb.sess THEN Transition(rb.acc, e, e.at) ELSE rb.acc
             n == rb.next - 1
  <2>1. rb' = [sess |-> rb.sess, next |-> rb.next + 1, acc |-> acc, out |-> rb.out]
    BY <1>2, <1>4 DEF RebuildFold
  <2>2. n \in Nat /\ rb.next = n + 1
    BY <1>2, <1>4 DEF RebuildFold, TypeInv, ControlInv
  <2>3. Agrees(rb.acc, rb.sess, events, n)
    BY <1>4 DEF RebuildFold, RebuildInv
  <2>4. Agrees(acc, rb.sess, events, n + 1)
    <3>1. CASE e.sess # rb.sess
      <4> HIDE DEF n
      <4> QED
        BY <2>2, <2>3, <3>1, SkipReads
    <3>2. CASE e.sess = rb.sess
      <4>1. e \in Event
        BY SMTT(30), <1>4, <2>2 DEF RebuildFold, TypeInv, TypeOK
      <4>2. acc # NoRow
        BY <1>2, <3>2, <4>1, TransitionType DEF Event
      <4> HIDE DEF n
      <4>3. ReadsAs(acc, rb.sess, events, n + 1)
        BY <1>2, <2>2, <2>3, <3>2, StepReads
      <4>4. QED
        BY <4>2, <4>3 DEF Agrees
    <3>3. QED
      BY <3>1, <3>2
  <2>5. Len(events) \in Nat
    BY DEF TypeInv, TypeOK
  <2> HIDE DEF acc
  <2>6. RebuildInv'
    <3>1. phase = "rebuild" /\ rb.sess # Daemon /\ proj[rb.sess] = NoRow
      BY <1>4 DEF RebuildFold, RebuildInv
    <3>2. UNCHANGED <<events, proj, phase>>
      BY <1>4 DEF RebuildFold
    <3>3. /\ rb'.sess = rb.sess /\ rb'.out = rb.out /\ rb'.acc = acc
          /\ rb'.next - 1 = n + 1
      BY <2>1, <2>2
    <3>4. rb'.next <= Len(events) + 1
      BY <1>4, <2>1, <2>2, <2>5 DEF RebuildFold
    <3>5. QED
      BY <2>4, <3>1, <3>2, <3>3, <3>4 DEF RebuildInv
  <2>7. QED
    BY <1>1, <1>4, <2>6 DEF RebuildFold, TaskInv, RowsReflectLog
<1>5. CASE RebuildUpsert
  <2>1. rb' = [sess |-> Daemon, next |-> 0, acc |-> NoRow,
               out |-> [rb.out EXCEPT ![rb.sess] = rb.acc]]
    BY <1>2, <1>5 DEF RebuildUpsert
  <2>2. rb.next - 1 = Len(events)
    BY SMTT(30), <1>2, <1>5 DEF RebuildUpsert, RebuildInv, TypeInv, TypeOK
  <2>3. Agrees(rb.acc, rb.sess, events, Len(events)) /\ proj[rb.sess] = NoRow
    BY <1>5, <2>2 DEF RebuildUpsert, RebuildInv
  <2>4. RebuildInv'
    BY <1>2, <1>5, <2>1, <2>3 DEF RebuildUpsert, RebuildInv
  <2>5. QED
    BY <1>1, <1>5, <2>4 DEF RebuildUpsert, TaskInv, RowsReflectLog
<1>6. CASE RebuildCommit
  <2>1. ASSUME NEW s \in Sessions \ torn' PROVE Agrees(proj'[s], s, events', Len(events'))
    <3>1. CASE proj[s] # NoRow
      BY <1>6, <2>1, <3>1 DEF RebuildCommit, RebuildInv, RowsReflectLog
    <3>2. CASE proj[s] = NoRow /\ rb.out[s] # NoRow
      BY <1>6, <3>2 DEF RebuildCommit, RebuildInv
    <3>3. CASE proj[s] = NoRow /\ rb.out[s] = NoRow
      BY <1>6, <3>3 DEF RebuildCommit, Agrees
    <3>4. QED
      BY <3>1, <3>2, <3>3
  <2>2. QED
    BY <1>1, <1>6, <2>1 DEF RebuildCommit, RowsReflectLog, RebuildInv, TaskInv
<1>7. CASE RebuildFails
  BY <1>1, <1>7, QuietReflects DEF RebuildFails, TaskInv
<1>8. CASE StartRecording
  <2>1. RowsReflectLog'
    BY <1>8, SentinelReflects DEF StartRecording, SentinelKinds
  <2>2. QED
    BY <1>1, <1>8, <2>1 DEF StartRecording, RebuildInv, TaskInv
<1>9. CASE StartRecordingFails
  BY <1>1, <1>9, QuietReflects DEF StartRecordingFails, Vanish, TaskInv
<1>10. QED
  BY <1>3, <1>4, <1>5, <1>6, <1>7, <1>8, <1>9 DEF Startup

(* The environment, ingest, boot and shutdown write no row of a session.   *)
LEMMA OthersReflect ==
    ASSUME ReflectionInv,
           \/ ClockStep
           \/ \E p \in Pids : ProcessExits(p)
           \/ \E s \in Sessions : RowDeleted(s)
           \/ \E in \in Inputs : Submit(in)
           \/ Boot \/ RequestShutdown \/ EndRecording \/ EndRecordingFails \/ Exit \/ Crash
    PROVE  ReflectionInv'
<1> USE DEF ReflectionInv
<1>1. TypeInv'
  BY EnvironmentType, LifeType
<1>2. ASSUME UNCHANGED <<events, proj, torn, rb, phase, writerPc, probePc>> PROVE ReflectionInv'
  BY <1>1, <1>2, QuietReflects DEF TaskInv
<1>3. CASE ClockStep
  BY <1>2, <1>3 DEF ClockStep
<1>4. ASSUME NEW p \in Pids, ProcessExits(p) PROVE ReflectionInv'
  BY <1>2, <1>4 DEF ProcessExits
<1>5. ASSUME NEW s \in Sessions, RowDeleted(s) PROVE ReflectionInv'
  <2>1. \A r \in Sessions \ torn' : r # s /\ r \in Sessions \ torn /\ proj'[r] = proj[r]
    BY <1>5 DEF RowDeleted, TypeInv, TypeOK
  <2>2. QED
    BY <1>1, <1>5, <2>1 DEF RowDeleted, RowsReflectLog, RebuildInv, TaskInv
<1>6. ASSUME NEW in \in Inputs, Submit(in) PROVE ReflectionInv'
  BY <1>2, <1>6 DEF Submit
<1>7. CASE Boot
  <2>1. rb' = [sess |-> Daemon, next |-> 0, acc |-> NoRow, out |-> proj]
    BY <1>7 DEF Boot, NoRebuild
  <2>2. RebuildInv'
    BY <1>7, <2>1 DEF Boot, RebuildInv
  <2>3. QED
    BY <1>1, <1>7, <2>2 DEF Boot, TaskInv, RowsReflectLog
<1>8. CASE RequestShutdown \/ EndRecordingFails
  BY <1>1, <1>8, QuietReflects DEF RequestShutdown, EndRecordingFails, TasksJoined, TaskInv
<1>9. CASE EndRecording
  <2>1. RowsReflectLog'
    BY <1>9, SentinelReflects DEF EndRecording, SentinelKinds
  <2>2. QED
    BY <1>1, <1>9, <2>1 DEF EndRecording, TasksJoined, RebuildInv, TaskInv
<1>10. CASE Exit \/ Crash
  BY <1>1, <1>10, QuietReflects DEF Exit, Crash, Vanish, TaskInv
<1>11. QED
  BY <1>3, <1>4, <1>5, <1>6, <1>7, <1>8, <1>9, <1>10

(* The invariant that carries the argument.                                *)
THEOREM ReflectionInvariance == Spec => []ReflectionInv
<1>1. Init => ReflectionInv
  <2> SUFFICES ASSUME Init PROVE ReflectionInv
    OBVIOUS
  <2>1. TypeInv
    BY DEF Init, TypeInv, TypeOK, ControlInv, NoRebuild, NoPub, Pub, States
  <2>2. RowsReflectLog
    <3>1. events = <<>> /\ Len(events) = 0 /\ \A s \in Sessions : proj[s] = NoRow
      BY DEF Init
    <3>2. \A s : Of(s, events, 0) = {}
      BY DEF Of
    <3>3. QED
      BY <3>1, <3>2 DEF RowsReflectLog, Agrees
  <2>3. QED
    BY <2>1, <2>2 DEF Init, ReflectionInv, TaskInv, RebuildInv
<1>2. ReflectionInv /\ [Next]_vars => ReflectionInv'
  <2> SUFFICES ASSUME ReflectionInv, [Next]_vars PROVE ReflectionInv'
    OBVIOUS
  <2>1. CASE Next
    BY <2>1, OthersReflect, WriterReflects, ProbeReflects, StartupReflects DEF Next
  <2>2. CASE UNCHANGED vars
    <3>1. TypeInv'
      BY <2>2 DEF vars, ReflectionInv, TypeInv, TypeOK, ControlInv, Supersedes
    <3>2. QED
      BY <2>2, <3>1, QuietReflects DEF vars, ReflectionInv, TaskInv
  <2>3. QED
    BY <2>1, <2>2
<1>3. QED
  BY <1>1, <1>2, PTL DEF Spec

(* In every reachable state every projection row is what the log says of   *)
(* its session, except a row deleted by hand that no rebuild has restored. *)
THEOREM Reflection == Spec => []RowsReflectLog
<1>1. ReflectionInv => RowsReflectLog
  BY DEF ReflectionInv
<1>2. QED
  BY <1>1, ReflectionInvariance, PTL

-----------------------------------------------------------------------------
(* The recorder implements EventLog, and therefore stores what it accepts  *)
(* at most once and in order, for any inputs, capacity and bounds.         *)

\* The writer lives only while the daemon serves or stops, and the channel is
\* empty when it is gone.
LifeInv ==
    /\ phase \notin {"serving", "stopping"} => writerPc = "exited"
    /\ writerPc = "exited" => queue = <<>>

Pending == Waiting \cup InFlight

\* The tickets of the log ascend.
Ordered ==
    \A i, j \in 1..Len(events) :
        (i < j /\ events[i].ticket # 0 /\ events[j].ticket # 0)
            => events[i].ticket < events[j].ticket

\* The channel is in order, the item in flight is older than the channel.
QueueOrdered ==
    /\ \A i, j \in 1..Len(queue) : i < j => queue[i].ticket < queue[j].ticket
    /\ writerPc = "write" => \A i \in 1..Len(queue) : item.ticket < queue[i].ticket

\* What is settled is older than what is pending: a ticket that is stored or
\* lost cannot come back.
LogInv ==
    /\ Pending \cup Stored \cup gone = 1..acked
    /\ Stored \cap gone = {}
    /\ \A m \in Stored \cup gone, n \in Pending : m < n
    /\ QueueOrdered
    /\ Ordered

(* The writer is started, drained and joined as main orders it.            *)
THEOREM LifeInvariance == Spec => []LifeInv
<1>1. Init => LifeInv
  BY DEF Init, LifeInv
<1>2. TypeInv /\ LifeInv /\ [Next]_vars => LifeInv'
  <2> SUFFICES ASSUME TypeInv, LifeInv, [Next]_vars PROVE LifeInv'
    OBVIOUS
  <2> USE DEF LifeInv
  <2>1. CASE \/ ClockStep \/ (\E p \in Pids : ProcessExits(p))
             \/ (\E s \in Sessions : RowDeleted(s)) \/ (\E in \in Inputs : Submit(in))
    BY <2>1 DEF ClockStep, ProcessExits, RowDeleted, Submit
  <2>2. CASE Writer
    BY <2>2 DEF Writer, WriterRecv, WriterCommit, WriterWriteFails, WriterPublish,
                SupersedeSelect, SupersedeSelectFails, SupersedeEnd, SupersedeSkip,
                SupersedeEndFails, SupersedePublish, SupersedeDone, WriterExit
  <2>3. CASE Probe
    BY <2>3 DEF Probe, ProbeSelect, ProbeSelectFails, ProbeSpare, ProbeCondemn, ProbeEnd,
                ProbeSkip, ProbeEndFails, ProbePublish, ProbeDone, ProbeExit, ProbeReturns
  <2>4. CASE Startup
    BY <2>4 DEF Startup, RebuildOpen, RebuildFold, RebuildUpsert, RebuildCommit,
                RebuildFails, StartRecording, StartRecordingFails, Vanish
  <2>5. CASE Boot \/ RequestShutdown \/ EndRecording \/ EndRecordingFails \/ Exit \/ Crash
    BY <2>5 DEF Boot, RequestShutdown, EndRecording, EndRecordingFails, Exit, Crash,
                Vanish, TasksJoined
  <2>6. CASE UNCHANGED vars
    BY <2>6 DEF vars
  <2>7. QED
    BY <2>1, <2>2, <2>3, <2>4, <2>5, <2>6 DEF Next
<1>3. QED
  BY <1>1, <1>2, TypeInvariance, PTL DEF Spec

-----------------------------------------------------------------------------
(* A daemon-made event has ticket 0 and stores nothing.                    *)
LEMMA AppendZero ==
    ASSUME TypeInv, NEW e \in Event, e.ticket = 0, events' = Append(events, e)
    PROVE  Stored' = Stored /\ (Ordered => Ordered')
<1>1. events \in Seq(Event)
  BY DEF TypeInv, TypeOK
<1>2. Len(events') = Len(events) + 1 /\ Len(events) \in Nat /\ events'[Len(events) + 1] = e
  BY <1>1
<1>3. \A i \in 1..Len(events) : events'[i] = events[i]
  BY <1>1
<1>4. Stored' = Stored
  BY <1>2, <1>3 DEF Stored
<1>5. Ordered => Ordered'
  BY <1>2, <1>3 DEF Ordered
<1> QED
  BY <1>4, <1>5

(* A hook event newer than all that is stored is stored last.              *)
LEMMA AppendTicket ==
    ASSUME TypeInv, NEW e \in Event, e.ticket # 0, events' = Append(events, e),
           \A m \in Stored : m < e.ticket
    PROVE  Stored' = Stored \cup {e.ticket} /\ (Ordered => Ordered')
<1>1. events \in Seq(Event)
  BY DEF TypeInv, TypeOK
<1>2. Len(events') = Len(events) + 1 /\ Len(events) \in Nat /\ events'[Len(events) + 1] = e
  BY <1>1
<1>3. \A i \in 1..Len(events) : events'[i] = events[i]
  BY <1>1
<1>4. Stored' = Stored \cup {e.ticket}
  BY <1>2, <1>3 DEF Stored
<1>5. \A i \in 1..Len(events) : events[i].ticket # 0 => events[i].ticket < e.ticket
  BY DEF Stored
<1>6. Ordered => Ordered'
  BY <1>2, <1>3, <1>5 DEF Ordered
<1> QED
  BY <1>4, <1>6

\* A step that touches neither the channel, the item in flight, what is stored
\* nor what is lost.
Quiet ==
    /\ queue' = queue /\ acked' = acked /\ gone' = gone
    /\ Stored' = Stored /\ (Ordered => Ordered')
    /\ \/ writerPc' = writerPc /\ item' = item
       \/ writerPc \notin {"write", "exited"} /\ writerPc' \notin {"write", "exited"}

(* It keeps the invariant and is a stuttering step of EventLog.            *)
LEMMA QuietStep ==
    ASSUME LogInv, Quiet
    PROVE  LogInv' /\ UNCHANGED Log!logVars
<1>1. Waiting' = Waiting
  BY DEF Quiet, Waiting
<1>2. InFlight' = InFlight
  BY DEF Quiet, InFlight
<1>3. Pending' = Pending
  BY <1>1, <1>2 DEF Pending
<1>4. QueueOrdered'
  BY DEF Quiet, LogInv, QueueOrdered
<1>5. LogInv'
  BY <1>3, <1>4 DEF LogInv, Quiet
<1>6. UNCHANGED Log!logVars
  BY <1>1, <1>2 DEF Log!logVars, Quiet
<1> QED
  BY <1>5, <1>6

-----------------------------------------------------------------------------
(* The steps that EventLog sees.                                           *)

(* The tickets of the channel are numbers.                                 *)
LEMMA QueueTickets ==
    ASSUME TypeInv
    PROVE  /\ queue \in Seq(Item) /\ Len(queue) \in Nat /\ acked \in Nat
           /\ \A i \in 1..Len(queue) : queue[i] \in Item /\ queue[i].ticket \in Nat
           /\ writerPc = "write" => item \in Item /\ item.ticket \in Nat
<1>1. queue \in Seq(Item) /\ acked \in Nat
  BY DEF TypeInv, TypeOK
<1>2. \A i \in 1..Len(queue) : queue[i] \in Item
  BY <1>1
<1>3. writerPc = "write" => item \in Item
  BY DEF TypeInv, ControlInv
<1> QED
  BY <1>1, <1>2, <1>3 DEF Item

(* An accepted event joins the channel as its newest.                      *)
LEMMA SubmitStep ==
    ASSUME TypeInv, LogInv, NEW in \in Inputs, Submit(in)
    PROVE  LogInv' /\ Log!Accept
<1> DEFINE q == [sess |-> in.sess, kind |-> in.kind, ntype |-> in.ntype, pid |-> in.pid,
                 origin |-> in.origin, ticket |-> acked + 1]
<1>1. q.ticket = acked + 1 /\ queue' = Append(queue, q) /\ acked' = acked + 1
  BY DEF Submit
<1> HIDE DEF q
<1>2. /\ Len(queue') = Len(queue) + 1 /\ queue'[Len(queue) + 1] = q
      /\ \A i \in 1..Len(queue) : queue'[i] = queue[i]
  BY <1>1, QueueTickets
<1>3. Waiting' = Waiting \cup {acked + 1}
  BY <1>1, <1>2, QueueTickets DEF Waiting
<1>4. InFlight' = InFlight /\ Stored' = Stored /\ gone' = gone /\ events' = events
  BY DEF Submit, InFlight, Stored
<1>5. Pending' = Pending \cup {acked + 1}
  BY <1>3, <1>4 DEF Pending
<1>6. \A n \in Pending \cup Stored \cup gone : n \in 1..acked
  BY DEF LogInv
<1>7. QueueOrdered'
  <2>1. \A i \in 1..Len(queue) : queue[i].ticket \in 1..acked
    BY <1>6 DEF Pending, Waiting
  <2>2. writerPc = "write" => item.ticket \in 1..acked
    BY <1>6 DEF Pending, InFlight
  <2>3. writerPc' = writerPc /\ item' = item
    BY DEF Submit
  <2>4. ASSUME NEW i \in 1..Len(queue'), NEW j \in 1..Len(queue'), i < j
        PROVE  queue'[i].ticket < queue'[j].ticket
    <3>1. i \in 1..Len(queue) /\ queue'[i] = queue[i]
      BY <1>2, <2>4, QueueTickets
    <3>2. CASE j = Len(queue) + 1
      BY <3>1, <3>2, <1>1, <1>2, <2>1, QueueTickets
    <3>3. CASE j # Len(queue) + 1
      <4>1. j \in 1..Len(queue) /\ queue'[j] = queue[j]
        BY <1>2, <3>3, QueueTickets
      <4>2. QED
        BY <3>1, <4>1, <2>4 DEF LogInv, QueueOrdered
    <3>4. QED
      BY <3>2, <3>3
  <2>5. ASSUME writerPc = "write", NEW i \in 1..Len(queue')
        PROVE  item.ticket < queue'[i].ticket
    <3>1. CASE i = Len(queue) + 1
      BY <3>1, <1>1, <1>2, <2>2, <2>5, QueueTickets
    <3>2. CASE i # Len(queue) + 1
      <4>1. i \in 1..Len(queue) /\ queue'[i] = queue[i]
        BY <1>2, <3>2, QueueTickets
      <4>2. QED
        BY <4>1, <2>5 DEF LogInv, QueueOrdered
    <3>3. QED
      BY <3>1, <3>2
  <2>6. QED
    BY <2>3, <2>4, <2>5 DEF QueueOrdered
<1>8. Ordered'
  BY <1>4 DEF LogInv, Ordered
<1>9. 1..(acked + 1) = 1..acked \cup {acked + 1}
  BY QueueTickets
<1>10. LogInv'
  <2>1. (Pending \cup Stored \cup gone)' = 1..acked'
    BY <1>1, <1>4, <1>5, <1>9 DEF LogInv
  <2>2. \A m \in Stored \cup gone, n \in Pending' : m < n
    BY <1>5, <1>6, QueueTickets DEF LogInv
  <2>3. QED
    BY <2>1, <2>2, <1>4, <1>7, <1>8 DEF LogInv
<1>11. Log!Accept
  BY <1>1, <1>3, <1>4 DEF Log!Accept, Submit
<1> QED
  BY <1>10, <1>11

(* Receiving moves the oldest event of the channel into flight.            *)
LEMMA RecvStep ==
    ASSUME TypeInv, LogInv, WriterRecv
    PROVE  LogInv' /\ UNCHANGED Log!logVars
<1>1. /\ queue' = Tail(queue) /\ item' = Head(queue) /\ queue # <<>>
      /\ writerPc = "idle" /\ writerPc' = "write"
      /\ acked' = acked /\ gone' = gone /\ events' = events
  BY DEF WriterRecv
<1>2. /\ Len(queue) >= 1 /\ Len(queue') = Len(queue) - 1 /\ item' = queue[1]
      /\ \A i \in 1..Len(queue') : queue'[i] = queue[i + 1]
  BY <1>1, QueueTickets
<1>3. Stored' = Stored /\ Ordered'
  BY <1>1 DEF Stored, LogInv, Ordered
<1>4. Pending' = Pending
  <2>1. Pending = {queue[i].ticket : i \in 1..Len(queue)}
    BY <1>1 DEF Pending, Waiting, InFlight
  <2>2. Pending' = {queue'[i].ticket : i \in 1..Len(queue')} \cup {item'.ticket}
    BY <1>1 DEF Pending, Waiting, InFlight
  <2>3. \A n \in Pending' : n \in Pending
    BY <1>2, <2>1, <2>2, QueueTickets
  <2>4. ASSUME NEW i \in 1..Len(queue) PROVE queue[i].ticket \in Pending'
    <3>1. CASE i = 1
      BY <3>1, <1>2, <2>2
    <3>2. CASE i # 1
      <4>1. i - 1 \in 1..Len(queue') /\ queue'[i - 1] = queue[i]
        BY <3>2, <1>2, QueueTickets
      <4>2. QED
        BY <4>1, <2>2
    <3>3. QED
      BY <3>1, <3>2
  <2>5. QED
    BY <2>1, <2>3, <2>4
<1>5. QueueOrdered'
  BY <1>1, <1>2, QueueTickets DEF LogInv, QueueOrdered
<1>6. LogInv'
  BY <1>1, <1>3, <1>4, <1>5 DEF LogInv
<1>7. UNCHANGED Log!logVars
  BY <1>1, <1>3, <1>4 DEF Log!logVars, Pending
<1> QED
  BY <1>6, <1>7

(* The item in flight is the oldest pending one, and is not in the channel. *)
LEMMA InFlightOldest ==
    ASSUME TypeInv, LogInv, writerPc = "write"
    PROVE  /\ item.ticket \in Pending /\ item.ticket \notin Waiting
           /\ \A n \in Pending : item.ticket <= n
           /\ Log!Oldest(item.ticket)
           /\ item.ticket \in Nat \ {0}
           /\ Pending \ {item.ticket} = Waiting
           /\ item.ticket \notin Stored \cup gone
<1>1. InFlight = {item.ticket}
  BY DEF InFlight
<1>2. \A n \in Waiting : item.ticket < n
  BY DEF LogInv, QueueOrdered, Waiting
<1>3. item.ticket \in Nat /\ Waiting \subseteq Nat
  BY QueueTickets DEF Waiting
<1>4. item.ticket \in 1..acked
  BY <1>1 DEF LogInv, Pending
<1>5. item.ticket \notin Waiting
  BY <1>2, <1>3
<1>6. \A n \in Pending : item.ticket <= n
  BY <1>1, <1>2, <1>3 DEF Pending
<1>7. item.ticket \notin Stored \cup gone
  BY <1>1, <1>3 DEF LogInv, Pending
<1> QED
  BY <1>1, <1>3, <1>4, <1>5, <1>6, <1>7 DEF Pending, Log!Oldest

(* A commit stores the oldest pending event, after all that are stored.    *)
LEMMA CommitStep ==
    ASSUME TypeInv, LogInv, WriterCommit
    PROVE  LogInv' /\ Log!Store
<1> DEFINE e == HookEvent(item)
<1>1. /\ writerPc = "write" /\ writerPc' = "publish" /\ events' = Append(events, e)
      /\ queue' = queue /\ acked' = acked /\ gone' = gone /\ item' = item
  BY DEF WriterCommit, Commit
<1>2. e \in Event /\ e.ticket = item.ticket
  BY <1>1, QueueTickets, EventTypes DEF HookEvent
<1> HIDE DEF e
<1>3. \A m \in Stored : m < e.ticket
  BY <1>1, <1>2, InFlightOldest DEF LogInv
<1>4. Stored' = Stored \cup {item.ticket} /\ Ordered'
  BY <1>1, <1>2, <1>3, AppendTicket, InFlightOldest DEF LogInv
<1>5. Waiting' = Waiting /\ InFlight' = {}
  BY <1>1 DEF Waiting, InFlight
<1>6. Pending' = Pending \ {item.ticket}
  BY <1>1, <1>5, InFlightOldest DEF Pending
<1>7. QueueOrdered'
  BY <1>1 DEF LogInv, QueueOrdered
<1>8. LogInv'
  <2>1. (Pending \cup Stored \cup gone)' = 1..acked'
    BY <1>1, <1>4, <1>6, InFlightOldest DEF LogInv
  <2>2. (Stored \cap gone)' = {}
    BY <1>1, <1>4, InFlightOldest DEF LogInv
  <2>3. \A m \in (Stored \cup gone)', n \in Pending' : m < n
    <3>1. \A n \in Pending' : item.ticket < n
      BY <1>1, <1>5, InFlightOldest DEF LogInv, QueueOrdered, Waiting, Pending
    <3>2. QED
      BY <1>1, <1>4, <1>6, <3>1 DEF LogInv
  <2>4. QED
    BY <2>1, <2>2, <2>3, <1>4, <1>7 DEF LogInv
<1>9. Log!Store
  BY <1>1, <1>4, <1>5, <1>6, InFlightOldest DEF Log!Store, Pending
<1> QED
  BY <1>8, <1>9

(* A failed write loses the oldest pending event.                          *)
LEMMA LoseStep ==
    ASSUME TypeInv, LogInv, WriterWriteFails
    PROVE  LogInv' /\ Log!Lose
<1>1. /\ writerPc = "write" /\ writerPc' = "idle" /\ events' = events
      /\ queue' = queue /\ acked' = acked /\ gone' = gone \cup {item.ticket}
  BY DEF WriterWriteFails
<1>2. Stored' = Stored /\ Ordered'
  BY <1>1 DEF Stored, LogInv, Ordered
<1>3. Waiting' = Waiting /\ InFlight' = {}
  BY <1>1 DEF Waiting, InFlight
<1>4. Pending' = Pending \ {item.ticket}
  BY <1>1, <1>3, InFlightOldest DEF Pending
<1>5. QueueOrdered'
  BY <1>1 DEF LogInv, QueueOrdered
<1>6. LogInv'
  <2>1. (Pending \cup Stored \cup gone)' = 1..acked'
    BY <1>1, <1>2, <1>4, InFlightOldest DEF LogInv
  <2>2. (Stored \cap gone)' = {}
    BY <1>1, <1>2, InFlightOldest DEF LogInv
  <2>3. \A m \in (Stored \cup gone)', n \in Pending' : m < n
    <3>1. \A n \in Pending' : item.ticket < n
      BY <1>1, <1>3, InFlightOldest DEF LogInv, QueueOrdered, Waiting, Pending
    <3>2. QED
      BY <1>1, <1>2, <1>4, <3>1 DEF LogInv
  <2>4. QED
    BY <2>1, <2>2, <2>3, <1>2, <1>5 DEF LogInv
<1>7. Log!Lose
  BY <1>1, <1>2, <1>3, <1>4, InFlightOldest DEF Log!Lose, Pending
<1> QED
  BY <1>6, <1>7

(* A crash loses what only memory holds, and nothing else.                 *)
LEMMA CrashStep ==
    ASSUME TypeInv, LifeInv, LogInv, Crash
    PROVE  LogInv' /\ [Log!LogNext]_Log!logVars
<1>1. /\ queue' = <<>> /\ writerPc' = "exited" /\ events' = events /\ acked' = acked
      /\ gone' = gone \cup InMemory
  BY DEF Crash, Vanish
<1>2. InMemory = Pending
  BY DEF InMemory, Pending, Waiting, InFlight
<1>3. Waiting' = {} /\ InFlight' = {} /\ Pending' = {}
  BY <1>1 DEF Waiting, InFlight, Pending
<1>4. Stored' = Stored /\ Ordered'
  BY <1>1 DEF Stored, LogInv, Ordered
<1>5. Stored \cap Pending = {}
  <2>1. Pending \subseteq Int
    BY QueueTickets DEF Pending, Waiting, InFlight
  <2>2. QED
    BY <2>1 DEF LogInv
<1>6. QueueOrdered'
  BY <1>1 DEF QueueOrdered
<1>7. LogInv'
  BY <1>1, <1>2, <1>3, <1>4, <1>5, <1>6 DEF LogInv
<1>8. CASE writerPc = "exited"
  <2>1. Waiting = {} /\ InFlight = {}
    BY <1>8 DEF LifeInv, Waiting, InFlight
  <2>2. UNCHANGED Log!logVars
    BY <1>1, <1>2, <1>3, <1>4, <1>8, <2>1 DEF Log!logVars, Pending
  <2>3. QED
    BY <1>7, <2>2
<1>9. CASE writerPc # "exited"
  <2>1. Log!LogCrash
    BY <1>1, <1>2, <1>3, <1>4, <1>9 DEF Log!LogCrash, Pending
  <2>2. QED
    BY <1>7, <2>1 DEF Log!LogNext
<1> QED
  BY <1>8, <1>9

(* The process ends with nothing pending: an orderly exit, or a start that *)
(* failed before the writer was spawned.                                   *)
LEMMA VanishStep ==
    ASSUME LifeInv, LogInv, Vanish, phase \notin {"serving", "stopping"},
           UNCHANGED <<events, acked, gone>>
    PROVE  LogInv' /\ UNCHANGED Log!logVars
<1>1. /\ writerPc = "exited" /\ writerPc' = "exited" /\ queue = <<>> /\ queue' = <<>>
  BY DEF LifeInv, Vanish
<1>2. Waiting' = Waiting /\ InFlight' = InFlight /\ Pending' = Pending
  BY <1>1 DEF Waiting, InFlight, Pending
<1>3. Stored' = Stored /\ Ordered'
  BY DEF Stored, LogInv, Ordered
<1>4. QueueOrdered'
  BY <1>1 DEF QueueOrdered
<1>5. LogInv'
  BY <1>2, <1>3, <1>4 DEF LogInv
<1>6. UNCHANGED Log!logVars
  BY <1>1, <1>2, <1>3 DEF Log!logVars
<1> QED
  BY <1>5, <1>6

(* The writer is spawned and leaves with an empty channel.                 *)
LEMMA OpenCloseStep ==
    ASSUME TypeInv, LifeInv, LogInv, StartRecording \/ WriterExit
    PROVE  LogInv' /\ [Log!LogNext]_Log!logVars
<1>1. CASE StartRecording
  <2>1. /\ writerPc = "exited" /\ writerPc' = "idle" /\ queue' = queue
        /\ acked' = acked /\ gone' = gone
        /\ events' = Append(events, Sentinel("RecordingStarted"))
    BY <1>1 DEF StartRecording, LifeInv
  <2>2. Sentinel("RecordingStarted") \in Event /\ Sentinel("RecordingStarted").ticket = 0
    BY EventTypes DEF SentinelKinds, Sentinel
  <2>3. Stored' = Stored /\ Ordered'
    BY <2>1, <2>2, AppendZero DEF LogInv
  <2>4. Waiting' = Waiting /\ InFlight' = InFlight /\ Pending' = Pending
    BY <2>1 DEF Waiting, InFlight, Pending
  <2>5. QueueOrdered'
    BY <2>1 DEF LogInv, QueueOrdered
  <2>6. LogInv'
    BY <2>1, <2>3, <2>4, <2>5 DEF LogInv
  <2>7. Log!Start
    BY <2>1, <2>3, <2>4 DEF Log!Start
  <2>8. QED
    BY <2>6, <2>7 DEF Log!LogNext
<1>2. CASE WriterExit
  <2>1. /\ writerPc = "idle" /\ writerPc' = "exited" /\ queue = <<>> /\ queue' = queue
        /\ acked' = acked /\ gone' = gone /\ events' = events
    BY <1>2 DEF WriterExit
  <2>2. Stored' = Stored /\ Ordered'
    BY <2>1 DEF Stored, LogInv, Ordered
  <2>3. Waiting' = Waiting /\ InFlight' = InFlight /\ Waiting \cup InFlight = {}
    BY <2>1 DEF Waiting, InFlight
  <2>4. QueueOrdered'
    BY <2>1 DEF LogInv, QueueOrdered
  <2>5. LogInv'
    BY <2>1, <2>2, <2>3, <2>4 DEF LogInv, Pending
  <2>6. Log!Stop
    BY <2>1, <2>2, <2>3 DEF Log!Stop
  <2>7. QED
    BY <2>5, <2>6 DEF Log!LogNext
<1> QED
  BY <1>1, <1>2

(* A supersession or a probe writes a SessionEnded, which has no ticket.   *)
LEMMA EndingStep ==
    ASSUME TypeInv, \/ \E v \in victims : SupersedeEnd(v)
                    \/ ProbeEnd \/ EndRecording
    PROVE  Quiet
<1>1. ASSUME NEW v \in victims, SupersedeEnd(v) PROVE Quiet
  <2>1. EndEvent(v, "PidSuperseded") \in Event /\ EndEvent(v, "PidSuperseded").ticket = 0
    BY EventTypes DEF TypeInv, TypeOK, EndedReasons, EndEvent
  <2>2. events' = Append(events, EndEvent(v, "PidSuperseded"))
    BY <1>1 DEF SupersedeEnd, Commit
  <2>3. Stored' = Stored /\ (Ordered => Ordered')
    BY <2>1, <2>2, AppendZero
  <2>4. QED
    BY <1>1, <2>3 DEF Quiet, SupersedeEnd
<1>2. CASE ProbeEnd
  <2>1. suspect \in Scan /\ ReasonFor(suspect) \in EndedReasons
    BY <1>2 DEF ProbeEnd, TypeInv, ControlInv, ReasonFor, EndedReasons
  <2>2. /\ EndEvent(suspect, ReasonFor(suspect)) \in Event
        /\ EndEvent(suspect, ReasonFor(suspect)).ticket = 0
    BY <2>1, EventTypes DEF EndEvent
  <2>3. events' = Append(events, EndEvent(suspect, ReasonFor(suspect)))
    BY <1>2 DEF ProbeEnd, Commit
  <2>4. Stored' = Stored /\ (Ordered => Ordered')
    BY <2>2, <2>3, AppendZero
  <2>5. QED
    BY <1>2, <2>4 DEF Quiet, ProbeEnd
<1>3. CASE EndRecording
  <2>1. Sentinel("RecordingEnded") \in Event /\ Sentinel("RecordingEnded").ticket = 0
    BY EventTypes DEF SentinelKinds, Sentinel
  <2>2. Stored' = Stored /\ (Ordered => Ordered')
    BY <1>3, <2>1, AppendZero DEF EndRecording
  <2>3. QED
    BY <1>3, <2>2 DEF Quiet, EndRecording
<1> QED
  BY <1>1, <1>2, <1>3

(* Steps that write no event at all are quiet when they leave the writer's *)
(* item and the channel alone.                                             *)
LEMMA SilentStep ==
    ASSUME UNCHANGED <<events, queue, acked, gone>>,
           \/ UNCHANGED <<writerPc, item>>
           \/ writerPc \notin {"write", "exited"} /\ writerPc' \notin {"write", "exited"}
    PROVE  Quiet
<1>1. Stored' = Stored /\ (Ordered => Ordered')
  BY DEF Stored, Ordered
<1> QED
  BY <1>1 DEF Quiet

(* Every step keeps the invariant and is a step of EventLog or stutters.   *)
LEMMA LogStep ==
    ASSUME TypeInv, LifeInv, LogInv, [Next]_vars
    PROVE  LogInv' /\ [Log!LogNext]_Log!logVars
<1>1. CASE ClockStep \/ (\E p \in Pids : ProcessExits(p)) \/ (\E s \in Sessions : RowDeleted(s))
  BY <1>1, SilentStep, QuietStep DEF ClockStep, ProcessExits, RowDeleted
<1>2. CASE \E in \in Inputs : Submit(in)
  BY <1>2, SubmitStep DEF Log!LogNext
<1>3. CASE Writer
  <2>1. CASE WriterRecv
    BY <2>1, RecvStep
  <2>2. CASE WriterCommit
    BY <2>2, CommitStep DEF Log!LogNext
  <2>3. CASE WriterWriteFails
    BY <2>3, LoseStep DEF Log!LogNext
  <2>4. CASE \/ WriterPublish \/ SupersedeSelect \/ SupersedeSelectFails
             \/ (\E v \in victims : SupersedeSkip(v) \/ SupersedeEndFails(v))
             \/ SupersedePublish \/ SupersedeDone
    BY <2>4, SilentStep, QuietStep
       DEF WriterPublish, SupersedeSelect, SupersedeSelectFails, SupersedeSkip,
           SupersedeEndFails, SupersedePublish, SupersedeDone
  <2>5. CASE \E v \in victims : SupersedeEnd(v)
    BY <2>5, EndingStep, QuietStep
  <2>6. CASE WriterExit
    BY <2>6, OpenCloseStep
  <2>7. QED
    BY <1>3, <2>1, <2>2, <2>3, <2>4, <2>5, <2>6 DEF Writer
<1>4. CASE Probe
  <2>1. CASE ProbeEnd
    BY <2>1, EndingStep, QuietStep
  <2>2. CASE ~ProbeEnd
    BY <1>4, <2>2, SilentStep, QuietStep
       DEF Probe, ProbeSelect, ProbeSelectFails, ProbeSpare, ProbeCondemn, ProbeSkip,
           ProbeEndFails, ProbePublish, ProbeDone, ProbeExit
  <2>3. QED
    BY <2>1, <2>2
<1>5. CASE Startup
  <2>1. CASE StartRecording
    BY <2>1, OpenCloseStep
  <2>2. CASE StartRecordingFails
    BY <2>2, VanishStep DEF StartRecordingFails
  <2>3. CASE \/ \E s \in Sessions : RebuildOpen(s)
             \/ RebuildFold \/ RebuildUpsert \/ RebuildCommit \/ RebuildFails
    BY <2>3, SilentStep, QuietStep
       DEF RebuildOpen, RebuildFold, RebuildUpsert, RebuildCommit, RebuildFails
  <2>4. QED
    BY <1>5, <2>1, <2>2, <2>3 DEF Startup
<1>6. CASE Boot \/ RequestShutdown \/ EndRecordingFails
  BY <1>6, SilentStep, QuietStep DEF Boot, RequestShutdown, EndRecordingFails
<1>7. CASE EndRecording
  BY <1>7, EndingStep, QuietStep
<1>8. CASE Exit
  BY <1>8, VanishStep DEF Exit
<1>9. CASE Crash
  BY <1>9, CrashStep
<1>10. CASE UNCHANGED vars
  BY <1>10, SilentStep, QuietStep DEF vars
<1> QED
  BY <1>1, <1>2, <1>3, <1>4, <1>5, <1>6, <1>7, <1>8, <1>9, <1>10 DEF Next

(* The invariant holds at the start, with nothing accepted.                *)
LEMMA LogStart == Init => LogInv /\ Log!LogInit
<1> SUFFICES ASSUME Init PROVE LogInv /\ Log!LogInit
  OBVIOUS
<1>1. Waiting = {} /\ InFlight = {} /\ Stored = {} /\ gone = {} /\ acked = 0
  BY DEF Init, Waiting, InFlight, Stored
<1>2. QueueOrdered /\ Ordered
  BY DEF Init, QueueOrdered, Ordered
<1>3. 1..0 = {}
  OBVIOUS
<1> QED
  BY <1>1, <1>2, <1>3 DEF LogInv, Pending, Log!LogInit, Init

(* What is pending, stored and lost partitions what was accepted, in order. *)
THEOREM LogInvariance == Spec => []LogInv
<1>1. Init => LogInv
  BY LogStart
<1>2. TypeInv /\ LifeInv /\ LogInv /\ [Next]_vars => LogInv'
  BY LogStep
<1>3. QED
  BY <1>1, <1>2, TypeInvariance, LifeInvariance, PTL DEF Spec

(* Refinement: channel, writer, probe, drain and restart implement EventLog. *)
THEOREM RecorderImplementsEventLog == Spec => ImplementsEventLog
<1>1. Init => Log!LogInit
  BY LogStart
<1>2. TypeInv /\ LifeInv /\ LogInv /\ [Next]_vars => [Log!LogNext]_Log!logVars
  BY LogStep
<1>3. QED
  BY <1>1, <1>2, TypeInvariance, LifeInvariance, LogInvariance, PTL
     DEF Spec, ImplementsEventLog, Log!LogSpec

(* Nothing accepted is stored twice, out of order, or lost unaccounted.    *)
THEOREM AcceptedCorrect == Spec => []AcceptedOnceInOrder
<1>1. TypeInv /\ LogInv => AcceptedOnceInOrder
  <2> SUFFICES ASSUME TypeInv, LogInv PROVE AcceptedOnceInOrder
    OBVIOUS
  <2>1. Waiting \cap InFlight = {}
    BY InFlightOldest DEF InFlight
  <2>2. Pending \subseteq Int
    BY QueueTickets DEF Pending, Waiting, InFlight
  <2>3. Pending \cap (Stored \cup gone) = {}
    BY <2>2 DEF LogInv
  <2>4. 1..acked = Waiting \cup InFlight \cup Stored \cup gone /\ Stored \cap gone = {}
    BY DEF LogInv, Pending
  <2>5. Ordered
    BY DEF LogInv
  <2>6. QED
    BY <2>1, <2>3, <2>4, <2>5 DEF AcceptedOnceInOrder, Pending, Ordered
<1>2. QED
  BY <1>1, TypeInvariance, LogInvariance, PTL
=============================================================================
