-------------------------- MODULE PublicationProofs --------------------------
(***************************************************************************)
(* When the daemon ends a session and which session holds a process        *)
(* (EndsAreJustified, EndNamesBinding, OneHolderPerPid), what subscribers  *)
(* are told (PublishedStateIsStored, PublicationFollowsLog) and what       *)
(* recording_sessions says of the log (RecordingsTellGaps), for any number *)
(* of sessions, processes and events, across restarts and faults.          *)
(*                                                                         *)
(* The writer and the probe end sessions by rows they selected earlier.    *)
(* ScanInv says what such a row was, LiveGoesOn what the log holds for a   *)
(* row that is not Ended, EmitterInv which event the pass of the writer is *)
(* about, and HolderInv which claims on a PID it has still to end.         *)
(*                                                                         *)
(* What is told rests on the connection: whoever has committed and not     *)
(* published holds it, so at most one publication is owed, and it is of    *)
(* the newest event (OwedInv).                                             *)
(***************************************************************************)
EXTENDS RecorderProofs

USE ConstantsAssumption, NoRowAssumption, RecorderAssumption
USE DEF store, wtask, ptask, hub, ghosts

\* The writer is past the commit of its item.
PassPc == {"publish", "scan", "ending", "publishEnd"}

\* A row that a task selected was not Ended; a victim of the writer held the
\* item's PID and belongs to another session.
ScanInv ==
    /\ \A v \in victims : v.row.current_state # "Ended"
    /\ \A r \in scanned : r.row.current_state # "Ended"
    /\ probePc = "ending" => suspect.row.current_state # "Ended"
    /\ writerPc \in {"ending", "publishEnd"} =>
          \A v \in victims : v.sess # item.sess /\ v.row.last_pid = item.pid

\* A SessionEnded of a session whose row is live is not its last event.
LiveGoesOn ==
    \A s \in Sessions : (proj[s] # NoRow /\ proj[s].current_state # "Ended") =>
        \A i \in Of(s, events, Len(events)) : events[i].kind = "SessionEnded" =>
            \E j \in Of(s, events, Len(events)) : j > i

\* The event the running supersession pass is about; no hook came after it.
IsEmitter(j) ==
    /\ events[j].cause = "live" /\ events[j].pid = item.pid /\ events[j].sess = item.sess
    /\ \A k \in (j + 1)..Len(events) : ~ByHook(events[k])

EmitterInv ==
    (writerPc \in PassPc /\ Supersedes(item)) => \E j \in 1..Len(events) : IsEmitter(j)

EndsInv == ReflectionInv /\ ScanInv /\ LiveGoesOn /\ EmitterInv /\ EndsAreJustified

\* Two sessions never both hold p.
OneHolder(p) ==
    \A s, t \in Sessions : Claims(proj[s], p) /\ Claims(proj[t], p) => s = t

\* The writer has claimed p for its item's session and is not yet done with the
\* sessions that held it before.
PassOn(p) == writerPc \in PassPc /\ Supersedes(item) /\ item.pid = p

\* Only the PID of the running pass may have two holders, and whoever holds it
\* beside the item's session is a victim whose row is still the selected one.
HolderInv ==
    /\ \A p \in Pids \ excused : ~PassOn(p) => OneHolder(p)
    /\ (writerPc \in {"ending", "publishEnd"} /\ item.pid \notin excused) =>
          \A s \in Sessions \ {item.sess} : Claims(proj[s], item.pid) =>
              \E v \in victims : v.sess = s /\ v.row = proj[s]

-----------------------------------------------------------------------------
(* The log after an append.                                                *)
LEMMA Grows ==
    ASSUME TypeInv, NEW e, events' = Append(events, e)
    PROVE  /\ Len(events) \in Nat /\ Len(events') = Len(events) + 1
           /\ events'[Len(events) + 1] = e
           /\ \A i \in 1..Len(events) : events'[i] = events[i]
  BY DEF TypeInv, TypeOK

(* Every step leaves log and table alone, or is one of the writes.         *)
LEMMA TableSteps ==
    ASSUME TypeInv, [Next]_vars
    PROVE  \/ UNCHANGED <<events, proj>>
           \/ WriterCommit
           \/ \E v \in victims : SupersedeEnd(v)
           \/ ProbeEnd
           \/ RebuildCommit
           \/ \E s \in Sessions : RowDeleted(s)
           \/ \E k \in SentinelKinds : events' = Append(events, Sentinel(k)) /\ proj' = proj
<1>1. CASE \/ ClockStep \/ (\E p \in Pids : ProcessExits(p))
           \/ (\E s \in Sessions : RowDeleted(s)) \/ (\E in \in Inputs : Submit(in))
  BY <1>1 DEF ClockStep, ProcessExits, Submit
<1>2. CASE Writer
  BY <1>2 DEF Writer, WriterRecv, WriterWriteFails, WriterPublish, SupersedeSelect,
              SupersedeSelectFails, SupersedeSkip, SupersedeEndFails, SupersedePublish,
              SupersedeDone, WriterExit
<1>3. CASE Probe
  BY <1>3 DEF Probe, ProbeSelect, ProbeSelectFails, ProbeSpare, ProbeCondemn, ProbeSkip,
              ProbeEndFails, ProbePublish, ProbeDone, ProbeExit
<1>4. CASE Startup
  BY <1>4 DEF Startup, RebuildOpen, RebuildFold, RebuildUpsert, RebuildFails,
              StartRecording, StartRecordingFails, SentinelKinds
<1>5. CASE Boot \/ RequestShutdown \/ EndRecording \/ EndRecordingFails \/ Exit \/ Crash
  BY <1>5 DEF Boot, RequestShutdown, EndRecording, EndRecordingFails, Exit, Crash,
              SentinelKinds
<1>6. CASE UNCHANGED vars
  BY <1>6 DEF vars
<1>7. QED
  BY <1>1, <1>2, <1>3, <1>4, <1>5, <1>6 DEF Next

(* Only the writer moves its own control state, except that it is started  *)
(* and that it vanishes with the process.                                  *)
LEMMA WriterSteps ==
    ASSUME [Next]_vars
    PROVE  Writer \/ UNCHANGED wtask \/ writerPc' \in {"idle", "exited"}
<1>1. CASE \/ ClockStep \/ (\E p \in Pids : ProcessExits(p))
           \/ (\E s \in Sessions : RowDeleted(s)) \/ (\E in \in Inputs : Submit(in))
  BY <1>1 DEF ClockStep, ProcessExits, RowDeleted, Submit
<1>2. CASE Probe
  BY <1>2 DEF Probe, ProbeSelect, ProbeSelectFails, ProbeSpare, ProbeCondemn, ProbeEnd,
              ProbeSkip, ProbeEndFails, ProbePublish, ProbeDone, ProbeExit
<1>3. CASE Startup
  BY <1>3 DEF Startup, RebuildOpen, RebuildFold, RebuildUpsert, RebuildCommit, RebuildFails,
              StartRecording, StartRecordingFails, Vanish
<1>4. CASE Boot \/ RequestShutdown \/ EndRecording \/ EndRecordingFails \/ Exit \/ Crash
  BY <1>4 DEF Boot, RequestShutdown, EndRecording, EndRecordingFails, Exit, Crash, Vanish
<1>5. CASE UNCHANGED vars
  BY <1>5 DEF vars
<1>6. QED
  BY <1>1, <1>2, <1>3, <1>4, <1>5 DEF Next

(* The rows the tasks hold are live rows they selected.                    *)
LEMMA ScanKeeps == ASSUME TypeInv, ScanInv, [Next]_vars PROVE ScanInv'
<1>1. CASE Writer
  <2>1. CASE SupersedeSelect
    BY <2>1 DEF SupersedeSelect, Predecessors, Claims, ScanInv
  <2>2. CASE ~SupersedeSelect
    BY <1>1, <2>2 DEF ScanInv, Writer, WriterRecv, WriterCommit, WriterWriteFails,
           WriterPublish, SupersedeSelectFails, SupersedeEnd, SupersedeSkip,
           SupersedeEndFails, SupersedePublish, SupersedeDone, WriterExit
  <2>3. QED
    BY <2>1, <2>2
<1>2. CASE Probe
  <2>1. CASE ProbeSelect
    BY <2>1 DEF ProbeSelect, Unended, ScanInv
  <2>2. CASE ~ProbeSelect
    BY <1>2, <2>2 DEF ScanInv, Probe, ProbeSelectFails, ProbeSpare, ProbeCondemn, ProbeEnd,
           ProbeSkip, ProbeEndFails, ProbePublish, ProbeDone, ProbeExit, ProbeReturns
  <2>3. QED
    BY <2>1, <2>2
<1>3. CASE \/ ClockStep \/ (\E p \in Pids : ProcessExits(p))
           \/ (\E s \in Sessions : RowDeleted(s)) \/ (\E in \in Inputs : Submit(in))
  BY <1>3 DEF ScanInv, ClockStep, ProcessExits, RowDeleted, Submit
<1>4. CASE Startup
  BY <1>4 DEF ScanInv, Startup, RebuildOpen, RebuildFold, RebuildUpsert, RebuildCommit,
              RebuildFails, StartRecording, StartRecordingFails, Vanish
<1>5. CASE Boot \/ RequestShutdown \/ EndRecording \/ EndRecordingFails \/ Exit \/ Crash
  BY <1>5 DEF ScanInv, Boot, RequestShutdown, EndRecording, EndRecordingFails, Exit, Crash,
              Vanish
<1>6. CASE UNCHANGED vars
  BY <1>6 DEF ScanInv, vars
<1>7. QED
  BY <1>1, <1>2, <1>3, <1>4, <1>5, <1>6 DEF Next

-----------------------------------------------------------------------------
(* A row that reads the log and is not Ended has an event after every      *)
(* SessionEnded.                                                           *)
LEMMA ReadsLive ==
    ASSUME NEW log, NEW n \in Nat, NEW s, NEW row, ReadsState(row, s, log, n),
           row.current_state # "Ended",
           NEW i \in Of(s, log, n), log[i].kind = "SessionEnded"
    PROVE  \E j \in Of(s, log, n) : j > i
<1> SUFFICES ASSUME \A j \in Of(s, log, n) : ~(j > i) PROVE FALSE
  OBVIOUS
<1> DEFINE decisive == {k \in Of(s, log, n) : Decisive(log[k])}
<1>1. i \in decisive /\ Of(s, log, n) \subseteq Nat
  BY DEF Decisive, Of
<1>2. \A k \in decisive : IsLast(k, decisive) => k = i
  BY <1>1 DEF IsLast
<1>3. NextCurrent("Absent", log[i]) = "Ended"
  BY DEF NextCurrent
<1>4. {j \in Of(s, log, n) : j > i} = {}
  OBVIOUS
<1>5. row.current_state = "Ended"
  BY <1>1, <1>2, <1>3, <1>4 DEF ReadsState
<1> QED
  BY <1>5

(* The events of a session other than the appended one's are the same.     *)
LEMMA OfAppend ==
    ASSUME TypeInv, NEW e, events' = Append(events, e), NEW s
    PROVE  Of(s, events', Len(events')) =
             Of(s, events, Len(events)) \cup (IF s = e.sess THEN {Len(events) + 1} ELSE {})
<1>1. 1..Len(events') = 1..Len(events) \cup {Len(events) + 1}
  BY Grows
<1>2. QED
  BY <1>1, Grows DEF Of

(* A commit revives a session by an event that is no SessionEnded.         *)
LEMMA CommitGoesOn ==
    ASSUME TypeInv, LiveGoesOn, NEW t \in Tasks, NEW e \in Event, e.sess \in Sessions,
           Commit(t, e)
    PROVE  LiveGoesOn'
<1> SUFFICES ASSUME NEW s \in Sessions, proj'[s] # NoRow, proj'[s].current_state # "Ended",
                    NEW i \in Of(s, events', Len(events')), events'[i].kind = "SessionEnded"
             PROVE  \E j \in Of(s, events', Len(events')) : j > i
  BY DEF LiveGoesOn
<1>1. events' = Append(events, e) /\ proj' = [proj EXCEPT ![e.sess] = Transition(proj[e.sess], e, now)]
  BY DEF Commit
<1>2. CASE s = e.sess
  <2>1. e.kind # "SessionEnded"
    BY <1>1, <1>2 DEF Transition, NextCurrent, TypeInv, TypeOK
  <2>2. i \in 1..Len(events)
    BY <1>1, <2>1, Grows DEF Of
  <2>3. QED
    BY <1>1, <1>2, <2>2, OfAppend, Grows
<1>3. CASE s # e.sess
  <2>1. Of(s, events', Len(events')) = Of(s, events, Len(events))
    BY ZenonT(60), <1>1, <1>3, OfAppend
  <2>2. proj'[s] = proj[s]
    BY <1>1, <1>3 DEF TypeInv, TypeOK
  <2>3. events'[i] = events[i]
    BY <1>1, <2>1, Grows DEF Of
  <2>4. QED
    BY <2>1, <2>2, <2>3 DEF LiveGoesOn
<1>4. QED
  BY <1>2, <1>3

(* What the three writes of sessions append.                               *)
LEMMA WriteShape ==
    ASSUME TypeInv
    PROVE  /\ WriterCommit =>
                 /\ HookEvent(item) \in Event /\ HookEvent(item).sess \in Sessions
                 /\ Commit("writer", HookEvent(item)) /\ "writer" \in Tasks
           /\ \A v \in victims : SupersedeEnd(v) =>
                 /\ v \in Scan /\ EndEvent(v, "PidSuperseded") \in Event
                 /\ Commit("writer", EndEvent(v, "PidSuperseded")) /\ "writer" \in Tasks
           /\ ProbeEnd =>
                 /\ suspect \in Scan /\ ReasonFor(suspect) \in EndedReasons \ {"PidSuperseded"}
                 /\ EndEvent(suspect, ReasonFor(suspect)) \in Event
                 /\ Commit("probe", EndEvent(suspect, ReasonFor(suspect))) /\ "probe" \in Tasks
<1>1. WriterCommit => item \in Item
  BY DEF WriterCommit, TypeInv, ControlInv
<1>2. WriterCommit =>
                 /\ HookEvent(item) \in Event /\ HookEvent(item).sess \in Sessions
                 /\ Commit("writer", HookEvent(item)) /\ "writer" \in Tasks
  BY <1>1, EventTypes DEF WriterCommit, Tasks, HookEvent, Item
<1>3. ASSUME NEW v \in victims, SupersedeEnd(v)
      PROVE  /\ v \in Scan /\ EndEvent(v, "PidSuperseded") \in Event
             /\ Commit("writer", EndEvent(v, "PidSuperseded")) /\ "writer" \in Tasks
  BY <1>3, EventTypes DEF SupersedeEnd, Tasks, EndedReasons, TypeInv, TypeOK
<1>4. ProbeEnd => suspect \in Scan /\ ReasonFor(suspect) \in EndedReasons \ {"PidSuperseded"}
  BY DEF ProbeEnd, ReasonFor, EndedReasons, TypeInv, ControlInv
<1>5. ProbeEnd =>
                 /\ EndEvent(suspect, ReasonFor(suspect)) \in Event
                 /\ Commit("probe", EndEvent(suspect, ReasonFor(suspect))) /\ "probe" \in Tasks
  BY <1>4, EventTypes DEF ProbeEnd, Tasks
<1>6. QED
  BY <1>2, <1>3, <1>4, <1>5

(* A live row goes on in the log after every end of its session.           *)
LEMMA GoesOnKeeps == ASSUME ReflectionInv, LiveGoesOn, [Next]_vars PROVE LiveGoesOn'
<1> USE DEF ReflectionInv
<1>1. CASE UNCHANGED <<events, proj>>
  BY <1>1 DEF LiveGoesOn
<1>2. CASE WriterCommit
  BY <1>2, WriteShape, CommitGoesOn
<1>3. ASSUME NEW v \in victims, SupersedeEnd(v) PROVE LiveGoesOn'
  <2>1. EndEvent(v, "PidSuperseded").sess \in Sessions
    BY <1>3, WriteShape DEF EndEvent, Scan
  <2>2. QED
    BY <1>3, <2>1, WriteShape, CommitGoesOn
<1>4. CASE ProbeEnd
  <2>1. EndEvent(suspect, ReasonFor(suspect)).sess \in Sessions
    BY <1>4, WriteShape DEF EndEvent, Scan
  <2>2. QED
    BY <1>4, <2>1, WriteShape, CommitGoesOn
<1>5. CASE RebuildCommit
  <2> SUFFICES ASSUME NEW s \in Sessions, proj'[s] # NoRow, proj'[s].current_state # "Ended",
                      NEW i \in Of(s, events, Len(events)), events[i].kind = "SessionEnded"
               PROVE  \E j \in Of(s, events, Len(events)) : j > i
    BY <1>5 DEF RebuildCommit, LiveGoesOn
  <2>1. proj'[s] = rb.out[s] /\ phase = "rebuild" /\ Len(events) \in Nat
    BY <1>5 DEF RebuildCommit, TypeInv, TypeOK
  <2>2. CASE proj[s] # NoRow
    BY <2>1, <2>2 DEF RebuildInv, LiveGoesOn
  <2>3. CASE proj[s] = NoRow
    <3>1. Agrees(rb.out[s], s, events, Len(events))
      BY <2>1, <2>3 DEF RebuildInv
    <3>2. ReadsState(rb.out[s], s, events, Len(events))
      BY <2>1, <3>1 DEF Agrees, ReadsAs
    <3>3. QED
      BY <2>1, <3>2, ReadsLive
  <2>4. QED
    BY <2>2, <2>3
<1>6. ASSUME NEW s \in Sessions, RowDeleted(s) PROVE LiveGoesOn'
  BY <1>6 DEF RowDeleted, LiveGoesOn, TypeInv, TypeOK
<1>7. ASSUME NEW k \in SentinelKinds, events' = Append(events, Sentinel(k)), proj' = proj
      PROVE  LiveGoesOn'
  <2>1. \A s \in Sessions : s # Sentinel(k).sess
    BY DEF Sentinel
  <2>2. \A s \in Sessions : Of(s, events', Len(events')) = Of(s, events, Len(events))
    BY ZenonT(60), <1>7, <2>1, OfAppend
  <2>3. \A s \in Sessions : \A i \in Of(s, events, Len(events)) : events'[i] = events[i]
    BY <1>7, Grows DEF Of
  <2>4. QED
    BY <1>7, <2>2, <2>3 DEF LiveGoesOn
<1>8. QED
  BY <1>1, <1>2, <1>3, <1>4, <1>5, <1>6, <1>7, TableSteps

-----------------------------------------------------------------------------
(* An append that is no hook keeps the emitter.                            *)
LEMMA EmitterStays ==
    ASSUME TypeInv, NEW e \in Event, ~ByHook(e), events' = Append(events, e),
           NEW j \in 1..Len(events), IsEmitter(j), item' = item
    PROVE  j \in 1..Len(events') /\ IsEmitter(j)'
<1>1. j \in 1..Len(events') /\ events'[j] = events[j]
  BY Grows
<1>2. ASSUME NEW k \in (j + 1)..Len(events') PROVE ~ByHook(events'[k])
  <2>1. CASE k = Len(events) + 1
    BY <2>1, Grows
  <2>2. CASE k # Len(events) + 1
    <3>1. k \in (j + 1)..Len(events) /\ events'[k] = events[k]
      BY <2>2, Grows
    <3>2. QED
      BY <3>1 DEF IsEmitter
  <2>3. QED
    BY <2>1, <2>2
<1>3. QED
  BY <1>1, <1>2 DEF IsEmitter

(* The commit of an item that supersedes is the emitter of its pass.       *)
LEMMA EmitterBegins ==
    ASSUME TypeInv, WriterCommit, Supersedes(item)
    PROVE  \E j \in 1..Len(events') : IsEmitter(j)'
<1>1. events' = Append(events, HookEvent(item)) /\ item' = item
  BY DEF WriterCommit, Commit
<1>2. PICK j \in Nat : j = Len(events) + 1
  BY <1>1, Grows
<1>3. /\ events'[j] = HookEvent(item) /\ j \in 1..Len(events')
      /\ (j + 1)..Len(events') = {}
  BY <1>1, <1>2, Grows
<1>4. IsEmitter(j)'
  BY <1>1, <1>3 DEF IsEmitter, HookEvent, Supersedes
<1>5. QED
  BY <1>3, <1>4

(* While a pass runs, the event it is about is the last hook of the log.   *)
LEMMA EmitterKeeps == ASSUME TypeInv, EmitterInv, [Next]_vars PROVE EmitterInv'
<1> SUFFICES ASSUME writerPc' \in PassPc, Supersedes(item)'
             PROVE  \E j \in 1..Len(events') : IsEmitter(j)'
  BY DEF EmitterInv
<1>1. CASE WriterCommit
  <2>1. Supersedes(item)
    BY <1>1 DEF WriterCommit, Supersedes
  <2>2. QED
    BY <1>1, <2>1, EmitterBegins
<1>2. CASE ~WriterCommit
  <2>1. writerPc \in PassPc /\ item' = item
    <3>1. CASE Writer
      BY <1>2, <3>1 DEF PassPc, Writer, WriterRecv, WriterWriteFails, WriterPublish,
             SupersedeSelect, SupersedeSelectFails, SupersedeEnd, SupersedeSkip,
             SupersedeEndFails, SupersedePublish, SupersedeDone, WriterExit
    <3>2. CASE UNCHANGED wtask
      BY <3>2
    <3>3. QED
      BY <3>1, <3>2, WriterSteps DEF PassPc
  <2>2. PICK j \in 1..Len(events) : IsEmitter(j)
    BY <2>1 DEF EmitterInv, Supersedes
  <2>3. CASE events' = events
    BY <2>1, <2>2, <2>3 DEF IsEmitter
  <2>4. ASSUME NEW e \in Event, ~ByHook(e), events' = Append(events, e)
        PROVE  \E i \in 1..Len(events') : IsEmitter(i)'
    BY <2>1, <2>2, <2>4, EmitterStays
  <2>5. ASSUME NEW v \in victims, SupersedeEnd(v)
        PROVE  \E i \in 1..Len(events') : IsEmitter(i)'
    <3>1. ~ByHook(EndEvent(v, "PidSuperseded"))
      BY DEF ByHook, EndEvent
    <3>2. QED
      BY <2>4, <2>5, <3>1, WriteShape DEF Commit
  <2>6. CASE ProbeEnd
    <3>1. ~ByHook(EndEvent(suspect, ReasonFor(suspect)))
      BY DEF ByHook, EndEvent, ReasonFor
    <3>2. QED
      BY <2>4, <2>6, <3>1, WriteShape DEF Commit
  <2>7. ASSUME NEW k \in SentinelKinds, events' = Append(events, Sentinel(k))
        PROVE  \E i \in 1..Len(events') : IsEmitter(i)'
    <3>1. Sentinel(k) \in Event /\ ~ByHook(Sentinel(k))
      BY EventTypes DEF ByHook, Sentinel
    <3>2. QED
      BY <2>4, <2>7, <3>1
  <2>8. QED
    BY <1>2, <2>3, <2>5, <2>6, <2>7, TableSteps DEF RebuildCommit, RowDeleted
<1>3. QED
  BY <1>1, <1>2

(* The log of earlier ends stays justified when an event is appended.      *)
LEMMA JustifiedStays ==
    ASSUME TypeInv, EndsAreJustified, NEW e, events' = Append(events, e),
           e.cause = "PidSuperseded" =>
               \E j \in 1..Len(events) :
                   /\ events[j].cause = "live" /\ events[j].pid = e.pid
                   /\ events[j].sess # e.sess
                   /\ \A k \in (j + 1)..Len(events) : events[k].sess = e.sess => ~ByHook(events[k]),
           ByDaemon(e) =>
               \A i \in Of(e.sess, events, Len(events)) : events[i].kind = "SessionEnded" =>
                   \E j \in Of(e.sess, events, Len(events)) : j > i
    PROVE  EndsAreJustified'
<1> DEFINE n == Len(events)
<1>1. /\ n \in Nat /\ Len(events') = n + 1 /\ events'[n + 1] = e
      /\ \A i \in 1..n : events'[i] = events[i]
  BY Grows
<1>2. SupersededByLaterEmitter'
  <2> SUFFICES ASSUME NEW i \in 1..(n + 1), events'[i].cause = "PidSuperseded"
               PROVE  \E j \in 1..(i - 1) :
                        /\ events'[j].cause = "live" /\ events'[j].pid = events'[i].pid
                        /\ events'[j].sess # events'[i].sess
                        /\ \A k \in (j + 1)..(i - 1) :
                              events'[k].sess = events'[i].sess => ~ByHook(events'[k])
    BY <1>1 DEF SupersededByLaterEmitter
  <2>1. CASE i = n + 1
    <3>1. PICK j \in 1..n :
              /\ events[j].cause = "live" /\ events[j].pid = e.pid
              /\ events[j].sess # e.sess
              /\ \A k \in (j + 1)..n : events[k].sess = e.sess => ~ByHook(events[k])
      BY <1>1, <2>1
    <3>2. j \in 1..(i - 1) /\ i - 1 = n
      BY <1>1, <2>1
    <3>3. \A k \in (j + 1)..(i - 1) : k \in (j + 1)..n /\ events'[k] = events[k]
      BY <1>1, <3>2
    <3>4. QED
      BY <1>1, <2>1, <3>1, <3>2, <3>3
  <2>2. CASE i # n + 1
    <3>1. i \in 1..n /\ events'[i] = events[i]
      BY <1>1, <2>2
    <3>2. PICK j \in 1..(i - 1) :
              /\ events[j].cause = "live" /\ events[j].pid = events[i].pid
              /\ events[j].sess # events[i].sess
              /\ \A k \in (j + 1)..(i - 1) : events[k].sess = events[i].sess => ~ByHook(events[k])
      BY <3>1 DEF EndsAreJustified, SupersededByLaterEmitter
    <3>3. events'[j] = events[j] /\ \A k \in (j + 1)..(i - 1) : events'[k] = events[k]
      BY <1>1, <3>1
    <3>4. QED
      BY <3>1, <3>2, <3>3
  <2>3. QED
    BY <2>1, <2>2
<1>3. NoDoubleEnd'
  <2> SUFFICES ASSUME NEW i \in 1..(n + 1), NEW j \in 1..(n + 1), Adjacent(i, j)',
                      ByDaemon(events'[j]), events'[i].kind = "SessionEnded"
               PROVE  FALSE
    BY <1>1 DEF NoDoubleEnd, ByDaemon
  <2>1. i < j /\ i \in 1..n /\ events'[i] = events[i]
    BY <1>1 DEF Adjacent
  <2>2. CASE j = n + 1
    <3>1. i \in Of(e.sess, events, n)
      BY <1>1, <2>1, <2>2 DEF Adjacent, Of
    <3>2. PICK k \in Of(e.sess, events, n) : k > i
      BY <1>1, <2>1, <2>2, <3>1
    <3>3. k \in (i + 1)..(j - 1) /\ events'[k].sess = e.sess
      BY <1>1, <2>2, <3>2 DEF Of
    <3>4. QED
      BY <1>1, <2>2, <3>3 DEF Adjacent
  <2>3. CASE j # n + 1
    <3>1. j \in 1..n /\ events'[j] = events[j]
      BY <1>1, <2>3
    <3>2. \A k \in (i + 1)..(j - 1) : events'[k] = events[k]
      BY <1>1, <3>1
    <3>3. Adjacent(i, j)
      BY <2>1, <3>1, <3>2 DEF Adjacent
    <3>4. QED
      BY <2>1, <3>1, <3>3 DEF EndsAreJustified, NoDoubleEnd, ByDaemon
  <2>4. QED
    BY <2>2, <2>3
<1>4. QED
  BY <1>2, <1>3 DEF EndsAreJustified

(* A row that a task selected and finds unchanged is live, and the log goes *)
(* on after every end of its session.                                      *)
LEMMA StillLive ==
    ASSUME ScanInv, LiveGoesOn, NEW v \in Scan, NEW b \in BOOLEAN, StillMatches(v, b),
           v.row.current_state # "Ended"
    PROVE  \A i \in Of(v.sess, events, Len(events)) : events[i].kind = "SessionEnded" =>
               \E j \in Of(v.sess, events, Len(events)) : j > i
  BY DEF StillMatches, LiveGoesOn, Scan

(* Every step ends a session only with a justification.                    *)
LEMMA JustifiedKeeps == ASSUME EndsInv, [Next]_vars PROVE EndsAreJustified'
<1> USE DEF EndsInv, ReflectionInv
<1>1. CASE events' = events
  BY <1>1 DEF EndsAreJustified, SupersededByLaterEmitter, NoDoubleEnd, Adjacent
<1>2. CASE WriterCommit
  <2>1. item \in Item /\ events' = Append(events, HookEvent(item))
    BY <1>2 DEF WriterCommit, Commit, TypeInv, ControlInv
  <2>2. HookEvent(item).cause \in {"live", "replay"}
    BY <2>1 DEF HookEvent, Item
  <2>3. HookEvent(item).cause # "PidSuperseded" /\ ~ByDaemon(HookEvent(item))
    BY <2>2 DEF ByDaemon, EndedReasons
  <2>4. QED
    BY <2>1, <2>3, JustifiedStays
<1>3. ASSUME NEW v \in victims, SupersedeEnd(v) PROVE EndsAreJustified'
  <2> DEFINE e == EndEvent(v, "PidSuperseded")
  <2>1. v \in Scan /\ events' = Append(events, e) /\ StillMatches(v, TRUE)
    BY <1>3, WriteShape DEF SupersedeEnd, Commit
  <2>2. v.sess # item.sess /\ v.row.last_pid = item.pid /\ Supersedes(item)
    BY <1>3 DEF SupersedeEnd, ScanInv, TypeInv, ControlInv
  <2>3. PICK j \in 1..Len(events) : IsEmitter(j)
    BY <1>3, <2>2 DEF SupersedeEnd, EmitterInv, PassPc
  <2>4. e.sess = v.sess /\ e.pid = item.pid
    BY <2>2 DEF EndEvent
  <2>5. \A i \in Of(e.sess, events, Len(events)) : events[i].kind = "SessionEnded" =>
            \E k \in Of(e.sess, events, Len(events)) : k > i
    BY <2>1, <2>4, StillLive DEF ScanInv
  <2> HIDE DEF e
  <2>6. QED
    BY <2>1, <2>2, <2>3, <2>4, <2>5, JustifiedStays DEF IsEmitter
<1>4. CASE ProbeEnd
  <2> DEFINE e == EndEvent(suspect, ReasonFor(suspect))
  <2>1. suspect \in Scan /\ events' = Append(events, e) /\ StillMatches(suspect, FALSE)
    BY <1>4, WriteShape DEF ProbeEnd, Commit
  <2>2. e.sess = suspect.sess /\ e.cause # "PidSuperseded"
    BY DEF EndEvent, ReasonFor
  <2>3. \A i \in Of(e.sess, events, Len(events)) : events[i].kind = "SessionEnded" =>
            \E k \in Of(e.sess, events, Len(events)) : k > i
    BY <1>4, <2>1, <2>2, StillLive DEF ScanInv, ProbeEnd
  <2> HIDE DEF e
  <2>4. QED
    BY <2>1, <2>2, <2>3, JustifiedStays
<1>5. ASSUME NEW k \in SentinelKinds, events' = Append(events, Sentinel(k))
      PROVE  EndsAreJustified'
  <2>1. Sentinel(k).cause # "PidSuperseded" /\ ~ByDaemon(Sentinel(k))
    BY DEF Sentinel, ByDaemon, EndedReasons
  <2>2. QED
    BY <1>5, <2>1, JustifiedStays
<1>6. QED
  BY <1>1, <1>2, <1>3, <1>4, <1>5, TableSteps DEF RebuildCommit, RowDeleted

(* The invariant that carries the argument.                                *)
THEOREM EndsInvariance == Spec => []EndsInv
<1>1. Init /\ ReflectionInv => EndsInv
  BY DEF Init, EndsInv, ScanInv, LiveGoesOn, EmitterInv, PassPc, EndsAreJustified,
         SupersededByLaterEmitter, NoDoubleEnd
<1>2. EndsInv /\ ReflectionInv' /\ [Next]_vars => EndsInv'
  BY ScanKeeps, GoesOnKeeps, EmitterKeeps, JustifiedKeeps DEF EndsInv, ReflectionInv
<1>3. QED
  BY <1>1, <1>2, ReflectionInvariance, PTL DEF Spec

(* The probe and the supersession pass end only a session that is not      *)
(* already ended, and a superseded session has a later emitter on its PID. *)
THEOREM EndsCorrect == Spec => []EndsAreJustified
<1>1. EndsInv => EndsAreJustified
  BY DEF EndsInv
<1>2. QED
  BY <1>1, EndsInvariance, PTL

(* A daemon-made SessionEnded names the PID its session is bound to when   *)
(* it is written.                                                          *)
THEOREM EndNamesBindingCorrect == Spec => EndNamesBinding
<1> DEFINE last == events'[Len(events')]
           Named == (events' # events /\ ByDaemon(last) /\ last.sess \notin torn) =>
                       ReadsPid([last_pid |-> last.pid], last.sess, events, Len(events))
<1>1. ASSUME ReflectionInv, [Next]_vars PROVE Named
  <2> USE <1>1 DEF ReflectionInv
  <2>1. ASSUME NEW v \in Scan, NEW r, NEW b \in BOOLEAN, StillMatches(v, b),
               events' = Append(events, EndEvent(v, r))
        PROVE  Named
    <3>1. last = EndEvent(v, r)
      BY <2>1, Grows
    <3>2. last.pid = v.row.last_pid /\ last.sess = v.sess /\ v.sess \in Sessions
      BY <3>1 DEF EndEvent, Scan
    <3>3. proj[v.sess] # NoRow /\ proj[v.sess].last_pid = v.row.last_pid
      BY <2>1 DEF StillMatches
    <3>4. v.sess \notin torn => ReadsPid(proj[v.sess], v.sess, events, Len(events))
      BY <3>2, <3>3 DEF RowsReflectLog, Agrees, ReadsAs
    <3>5. QED
      BY <3>2, <3>3, <3>4 DEF ReadsPid
  <2>2. CASE WriterCommit
    <3>1. item \in Item /\ events' = Append(events, HookEvent(item))
      BY <2>2 DEF WriterCommit, Commit, TypeInv, ControlInv
    <3>2. last = HookEvent(item)
      BY <3>1, Grows
    <3>3. last.cause \in {"live", "replay"}
      BY <3>1, <3>2 DEF HookEvent, Item
    <3>4. QED
      BY <3>3 DEF ByDaemon, EndedReasons
  <2>3. ASSUME NEW v \in victims, SupersedeEnd(v) PROVE Named
    BY <2>1, <2>3, WriteShape DEF SupersedeEnd, Commit
  <2>4. CASE ProbeEnd
    BY <2>1, <2>4, WriteShape DEF ProbeEnd, Commit
  <2>5. ASSUME NEW k \in SentinelKinds, events' = Append(events, Sentinel(k)) PROVE Named
    <3>1. last = Sentinel(k)
      BY <2>5, Grows
    <3>2. QED
      BY <3>1 DEF Sentinel, ByDaemon, EndedReasons
  <2>6. CASE events' = events
    BY <2>6
  <2>7. QED
    BY <2>2, <2>3, <2>4, <2>5, <2>6, TableSteps DEF RebuildCommit, RowDeleted
<1>2. ReflectionInv /\ [Next]_vars => [Named]_vars
  BY <1>1
<1>3. QED
  BY <1>2, ReflectionInvariance, PTL DEF Spec, EndNamesBinding

-----------------------------------------------------------------------------
(* A row that a SessionEnded was applied to claims nothing.                *)
LEMMA EndedClaimsNothing ==
    ASSUME TypeInv, NEW v \in Scan, NEW r, NEW t, Commit(t, EndEvent(v, r))
    PROVE  /\ \A p : ~Claims(proj'[v.sess], p)
           /\ \A s \in Sessions \ {v.sess} : proj'[s] = proj[s]
<1>1. v.sess \in Sessions /\ proj \in [Sessions -> Row \cup {NoRow}]
  BY DEF Scan, TypeInv, TypeOK
<1>2. EndEvent(v, r).sess = v.sess /\ EndEvent(v, r).kind = "SessionEnded"
  BY DEF EndEvent
<1>3. proj' = [proj EXCEPT ![v.sess] = Transition(proj[v.sess], EndEvent(v, r), now)]
  BY <1>2 DEF Commit
<1>4. Transition(proj[v.sess], EndEvent(v, r), now).current_state = "Ended"
  BY <1>2 DEF Transition, NextCurrent
<1>5. QED
  BY <1>1, <1>3, <1>4 DEF Claims

(* The PID of a pass is a PID.                                             *)
LEMMA PassPid ==
    ASSUME TypeInv, writerPc \in {"scan", "ending", "publishEnd"}
    PROVE  item.pid \in Pids /\ Supersedes(item)
  BY DEF TypeInv, ControlInv, Supersedes, Item, PidOrNone

(* A step outside the writer that lets no session claim a PID it did not   *)
(* claim before keeps the holders.                                         *)
LEMMA QuietHolders ==
    ASSUME TypeInv, HolderInv, UNCHANGED wtask, excused \subseteq excused',
           \A s \in Sessions : \A p \in Pids \ excused' :
               Claims(proj'[s], p) => proj'[s] = proj[s]
    PROVE  HolderInv'
<1>1. ASSUME NEW p \in Pids \ excused', ~PassOn(p)' PROVE OneHolder(p)'
  BY <1>1 DEF HolderInv, OneHolder, PassOn, Supersedes
<1>2. ASSUME writerPc' \in {"ending", "publishEnd"}, item'.pid \notin excused',
             NEW s \in Sessions \ {item'.sess}, Claims(proj'[s], item'.pid)
      PROVE  \E v \in victims' : v.sess = s /\ v.row = proj'[s]
  <2>1. item.pid \in Pids /\ proj'[s] = proj[s]
    BY <1>2, PassPid
  <2>2. QED
    BY <1>2, <2>1 DEF HolderInv
<1>3. QED
  BY <1>1, <1>2 DEF HolderInv

(* A writer that is not in a pass after the step, and whose pass, if it was *)
(* in one, is done or excused.                                             *)
LEMMA IdleHolders ==
    ASSUME HolderInv, proj' = proj, writerPc' \notin PassPc,
           \A p \in Pids \ excused' : OneHolder(p)
    PROVE  HolderInv'
  BY DEF HolderInv, OneHolder, PassOn, PassPc

(* The commit of an item claims its PID for a pass, or excuses its claims. *)
LEMMA CommitHolders == ASSUME TypeInv, HolderInv, WriterCommit PROVE HolderInv'
<1>1. /\ writerPc = "write" /\ writerPc' = "publish" /\ item' = item /\ item \in Item
      /\ excused' = excused \cup UncheckedClaims(item)
  BY DEF WriterCommit, TypeInv, ControlInv
<1> DEFINE new == Transition(proj[item.sess], HookEvent(item), now)
<1>2. item.sess \in Sessions /\ HookEvent(item).sess = item.sess /\ HookEvent(item).pid = item.pid
  BY <1>1 DEF HookEvent, Item
<1>3. proj' = [proj EXCEPT ![item.sess] = new]
  BY <1>2 DEF WriterCommit, Commit
<1>4. Supersedes(item) => new.last_pid = item.pid
  BY <1>2 DEF Supersedes, Transition
<1>5. ASSUME ~Supersedes(item), NEW p \in Pids \ excused', Claims(new, p)
      PROVE  Claims(proj[item.sess], p)
  BY <1>1, <1>5 DEF UncheckedClaims
<1> HIDE DEF new
<1>6. ASSUME NEW p \in Pids \ excused', ~PassOn(p)' PROVE OneHolder(p)'
  <2>1. p \in Pids \ excused /\ OneHolder(p)
    BY <1>1, <1>6 DEF HolderInv, PassOn, PassPc
  <2>2. Claims(new, p) => Claims(proj[item.sess], p)
    <3>1. CASE Supersedes(item)
      <4>1. item.pid # p
        BY <1>1, <1>6, <3>1 DEF PassOn, PassPc, Supersedes
      <4>2. QED
        BY <1>4, <3>1, <4>1 DEF Claims
    <3>2. CASE ~Supersedes(item)
      BY <1>5, <1>6, <3>2
    <3>3. QED
      BY <3>1, <3>2
  <2>3. \A s \in Sessions : Claims(proj'[s], p) => Claims(proj[s], p)
    BY <1>2, <1>3, <2>2 DEF TypeInv, TypeOK
  <2>4. QED
    BY <2>1, <2>3 DEF OneHolder
<1>7. QED
  BY <1>1, <1>6 DEF HolderInv

(* The steps of the writer keep the holders.                               *)
LEMMA WriterHolders == ASSUME TypeInv, HolderInv, Writer PROVE HolderInv'
<1>1. CASE WriterRecv \/ WriterWriteFails \/ WriterExit
  <2>1. proj' = proj /\ excused' = excused /\ writerPc \notin PassPc /\ writerPc' \notin PassPc
    BY <1>1 DEF WriterRecv, WriterWriteFails, WriterExit, PassPc
  <2>2. \A p \in Pids \ excused' : OneHolder(p)
    BY <2>1 DEF HolderInv, PassOn
  <2>3. QED
    BY <2>1, <2>2, IdleHolders
<1>2. CASE WriterCommit
  BY <1>2, CommitHolders
<1>3. CASE WriterPublish
  <2>1. CASE Supersedes(item)
    BY <1>3, <2>1 DEF WriterPublish, HolderInv, PassOn, PassPc, OneHolder
  <2>2. CASE ~Supersedes(item)
    <3>1. \A p \in Pids \ excused : OneHolder(p)
      BY <2>2 DEF HolderInv, PassOn
    <3>2. QED
      BY <1>3, <2>2, <3>1, IdleHolders DEF WriterPublish, PassPc
  <2>3. QED
    BY <2>1, <2>2
<1>4. CASE SupersedeSelect
  <2>1. /\ writerPc = "scan" /\ writerPc' = "ending" /\ item' = item /\ proj' = proj
        /\ excused' = excused \ {item.pid} /\ victims' = Predecessors(item)
    BY <1>4 DEF SupersedeSelect
  <2>2. ASSUME NEW p \in Pids \ excused', ~PassOn(p)' PROVE OneHolder(p)'
    <3>1. p # item.pid /\ p \notin excused
      BY <2>1, <2>2, PassPid DEF PassOn, PassPc, Supersedes
    <3>2. QED
      BY <2>1, <2>2, <3>1 DEF HolderInv, PassOn, OneHolder
  <2>3. ASSUME NEW s \in Sessions \ {item.sess}, Claims(proj[s], item.pid)
        PROVE  \E v \in victims' : v.sess = s /\ v.row = proj[s]
    <3>1. [sess |-> s, row |-> proj[s], seen |-> Len(events)] \in victims'
      BY <2>1, <2>3 DEF Predecessors
    <3>2. QED
      BY <3>1
  <2>4. QED
    BY <2>1, <2>2, <2>3 DEF HolderInv
<1>5. CASE SupersedeSelectFails
  <2>1. \A p \in Pids \ (excused \cup {item.pid}) : OneHolder(p)
    BY DEF HolderInv, PassOn
  <2>2. QED
    BY <1>5, <2>1, IdleHolders DEF SupersedeSelectFails, PassPc
<1>6. ASSUME NEW v \in victims, SupersedeEnd(v) PROVE HolderInv'
  <2>1. /\ writerPc = "ending" /\ writerPc' = "publishEnd" /\ item' = item
        /\ excused' = excused /\ victims' = victims \ {v} /\ v \in Scan
        /\ Commit("writer", EndEvent(v, "PidSuperseded"))
    BY <1>6 DEF SupersedeEnd, TypeInv, TypeOK
  <2>2. /\ \A p : ~Claims(proj'[v.sess], p)
        /\ \A s \in Sessions \ {v.sess} : proj'[s] = proj[s]
    BY <2>1, EndedClaimsNothing
  <2>3. ASSUME NEW p \in Pids \ excused', ~PassOn(p)' PROVE OneHolder(p)'
    BY <2>1, <2>2, <2>3 DEF HolderInv, PassOn, PassPc, OneHolder, Supersedes
  <2>4. ASSUME item.pid \notin excused, NEW s \in Sessions \ {item.sess},
               Claims(proj'[s], item.pid)
        PROVE  \E u \in victims' : u.sess = s /\ u.row = proj'[s]
    <3>1. s # v.sess /\ proj'[s] = proj[s]
      BY <2>2, <2>4
    <3>2. QED
      BY <2>1, <2>4, <3>1 DEF HolderInv
  <2>5. QED
    BY <2>1, <2>3, <2>4 DEF HolderInv
<1>7. ASSUME NEW v \in victims, SupersedeSkip(v) PROVE HolderInv'
  <2>1. /\ writerPc = "ending" /\ writerPc' = "ending" /\ item' = item /\ proj' = proj
        /\ excused' = excused /\ victims' = victims \ {v} /\ ~StillMatches(v, TRUE)
    BY <1>7 DEF SupersedeSkip
  <2>2. ASSUME NEW u \in victims, NEW s \in Sessions, Claims(proj[s], item.pid),
               u.sess = s, u.row = proj[s]
        PROVE  u # v
    BY <2>1, <2>2 DEF StillMatches, Claims
  <2>3. ASSUME NEW p \in Pids \ excused', ~PassOn(p)' PROVE OneHolder(p)'
    BY <2>1, <2>3 DEF HolderInv, PassOn, PassPc, OneHolder, Supersedes
  <2>4. ASSUME item.pid \notin excused, NEW s \in Sessions \ {item.sess},
               Claims(proj[s], item.pid)
        PROVE  \E u \in victims' : u.sess = s /\ u.row = proj[s]
    <3>1. PICK u \in victims : u.sess = s /\ u.row = proj[s]
      BY <2>1, <2>4 DEF HolderInv
    <3>2. u # v
      BY <2>2, <2>4, <3>1
    <3>3. QED
      BY <2>1, <3>1, <3>2
  <2>5. QED
    BY <2>1, <2>3, <2>4 DEF HolderInv
<1>8. ASSUME NEW v \in victims, SupersedeEndFails(v) PROVE HolderInv'
  BY <1>8 DEF SupersedeEndFails, HolderInv, PassOn, OneHolder, Supersedes
<1>9. CASE SupersedePublish
  BY <1>9 DEF SupersedePublish, HolderInv, PassOn, PassPc, OneHolder, Supersedes
<1>10. CASE SupersedeDone
  <2>1. /\ writerPc = "ending" /\ writerPc' = "idle" /\ victims = {} /\ proj' = proj
        /\ excused' = excused
    BY <1>10 DEF SupersedeDone
  <2>2. ASSUME NEW p \in Pids \ excused PROVE OneHolder(p)
    <3>1. CASE p = item.pid
      BY <2>1, <3>1 DEF HolderInv, OneHolder
    <3>2. CASE p # item.pid
      BY <3>2 DEF HolderInv, PassOn
    <3>3. QED
      BY <3>1, <3>2
  <2>3. QED
    BY <2>1, <2>2, IdleHolders DEF PassPc
<1>11. QED
  BY <1>1, <1>2, <1>3, <1>4, <1>5, <1>6, <1>7, <1>8, <1>9, <1>10 DEF Writer

(* Every other step keeps them: the probe only ends sessions, a rebuild    *)
(* excuses what it claims, and a crash excuses the pass it cuts short.     *)
LEMMA HoldersKeep == ASSUME ReflectionInv, HolderInv, [Next]_vars PROVE HolderInv'
<1> USE DEF ReflectionInv
<1>1. CASE Writer
  BY <1>1, WriterHolders
<1>2. CASE ProbeEnd
  <2>1. /\ \A p : ~Claims(proj'[suspect.sess], p)
        /\ \A s \in Sessions \ {suspect.sess} : proj'[s] = proj[s]
    BY <1>2, WriteShape, EndedClaimsNothing
  <2>2. UNCHANGED wtask /\ excused' = excused
    BY <1>2 DEF ProbeEnd
  <2>3. QED
    BY <2>1, <2>2, QuietHolders
<1>3. CASE RebuildCommit
  <2>1. UNCHANGED wtask /\ excused' = excused \cup RebuiltClaims /\ proj' = rb.out
    BY <1>3 DEF RebuildCommit
  <2>2. \A s \in Sessions : proj[s] # NoRow => rb.out[s] = proj[s]
    BY <1>3 DEF RebuildCommit, RebuildInv
  <2>3. \A s \in Sessions : \A p \in Pids \ excused' :
            Claims(proj'[s], p) => proj'[s] = proj[s]
    BY <2>1, <2>2 DEF RebuiltClaims
  <2>4. QED
    BY <2>1, <2>3, QuietHolders
<1>4. ASSUME NEW s \in Sessions, RowDeleted(s) PROVE HolderInv'
  <2>1. UNCHANGED wtask /\ excused' = excused
    BY <1>4 DEF RowDeleted
  <2>2. \A r \in Sessions : proj'[r] = IF r = s THEN NoRow ELSE proj[r]
    BY <1>4 DEF RowDeleted, TypeInv, TypeOK
  <2>3. QED
    BY <2>1, <2>2, QuietHolders DEF Claims
<1>5. ASSUME UNCHANGED <<wtask, proj, excused>> PROVE HolderInv'
  BY <1>5, QuietHolders
<1>6. CASE ClockStep \/ (\E p \in Pids : ProcessExits(p)) \/ (\E in \in Inputs : Submit(in))
  BY <1>5, <1>6 DEF ClockStep, ProcessExits, Submit
<1>7. CASE Probe /\ ~ProbeEnd
  BY <1>5, <1>7 DEF Probe, ProbeSelect, ProbeSelectFails, ProbeSpare, ProbeCondemn,
                    ProbeSkip, ProbeEndFails, ProbePublish, ProbeDone, ProbeExit
<1>8. CASE (\E s \in Sessions : RebuildOpen(s)) \/ RebuildFold \/ RebuildUpsert \/ RebuildFails
  BY <1>5, <1>8 DEF RebuildOpen, RebuildFold, RebuildUpsert, RebuildFails
<1>9. CASE Boot \/ RequestShutdown \/ EndRecording \/ EndRecordingFails
  BY <1>5, <1>9 DEF Boot, RequestShutdown, EndRecording, EndRecordingFails
<1>10. CASE StartRecording \/ StartRecordingFails \/ Exit
  <2>1. writerPc = "exited" /\ proj' = proj /\ excused' = excused /\ writerPc' \notin PassPc
    BY <1>10 DEF StartRecording, StartRecordingFails, Exit, Vanish, TaskInv, PassPc
  <2>2. \A p \in Pids \ excused' : OneHolder(p)
    BY <2>1 DEF HolderInv, PassOn, PassPc
  <2>3. QED
    BY <2>1, <2>2, IdleHolders
<1>11. CASE Crash
  <2>1. proj' = proj /\ excused' = excused \cup CutShort /\ writerPc' \notin PassPc
    BY <1>11 DEF Crash, Vanish, PassPc
  <2>2. \A p \in Pids \ excused' : OneHolder(p)
    BY <2>1 DEF HolderInv, PassOn, PassPc, CutShort
  <2>3. QED
    BY <2>1, <2>2, IdleHolders
<1>12. CASE UNCHANGED vars
  BY <1>5, <1>12 DEF vars
<1>13. QED
  BY <1>1, <1>2, <1>3, <1>4, <1>6, <1>7, <1>8, <1>9, <1>10, <1>11, <1>12 DEF Next, Startup

(* ADR 0009 for any sessions, processes, crashes and faults: whenever the  *)
(* writer is between two items, a PID whose last pass was complete has one *)
(* live session at most.                                                   *)
THEOREM OneHolderCorrect == Spec => []OneHolderPerPid
<1>1. Init => HolderInv
  BY DEF Init, HolderInv, OneHolder, Claims
<1>2. ReflectionInv /\ HolderInv /\ [Next]_vars => HolderInv'
  BY HoldersKeep
<1>3. HolderInv => OneHolderPerPid
  BY DEF HolderInv, PassOn, PassPc, OneHolder, OneHolderPerPid
<1>4. QED
  BY <1>1, <1>2, <1>3, ReflectionInvariance, PTL DEF Spec

-----------------------------------------------------------------------------
(* What subscribers are told, and what recording_sessions says of the log.  *)

\* A task that owes a publication is at the point where it publishes.
OwedPc ==
    /\ owed["writer"] # NoPub => writerPc \in {"publish", "publishEnd"}
    /\ owed["probe"] # NoPub => probePc = "publish"

\* One publication is owed at most; it is of the newest event, newer than all
\* that is published, and of the state stored with it.
OwedInv ==
    /\ lastEvent <= Len(events)
    /\ \A t, u \in Tasks : owed[t] # NoPub /\ owed[u] # NoPub => t = u
    /\ \A t \in Tasks : owed[t] # NoPub =>
          /\ owed[t].id = Len(events) /\ lastEvent < Len(events)
          /\ owed[t].sess \in Sessions
          /\ proj[owed[t].sess] # NoRow
          /\ owed[t].state = proj[owed[t].sess].current_state

\* A State frame of s is owed.
StateOwed(s) == \E t \in Tasks : owed[t] # NoPub /\ owed[t].sess = s /\ owed[t].changed

ShownInv ==
    /\ phase \in {"down", "rebuild"} => \A s \in Sessions : shown[s] = "None"
    /\ \A s \in Sessions : shown[s] # "None" =>
          proj[s] # NoRow /\ (shown[s] = proj[s].current_state \/ StateOwed(s))

\* Nothing of this recording is unpublished but the event that is owed.
TailInv ==
    phase \in {"serving", "stopping"} =>
        /\ Len(recs) # 0
        /\ \A i \in 1..Len(events) :
              (i > lastEvent /\ i > recs[Len(recs)].started) =>
                  events[i].sess = Daemon \/ (~ConnFree /\ i = Len(events))

HubInv == OwedPc /\ OwedInv /\ ShownInv /\ TailInv

\* The recordings lie one after the other in the log, and the last one is open
\* while the daemon serves.
BracketInv ==
    /\ \A k \in 1..Len(recs) :
          /\ recs[k].started <= Len(events) /\ recs[k].ended <= Len(events)
          /\ recs[k].ended # 0 => recs[k].started < recs[k].ended
    /\ \A k, m \in 1..Len(recs) : k < m =>
          recs[k].started < recs[m].started /\ recs[k].ended < recs[m].started
    /\ phase \in {"serving", "stopping"} => Len(recs) # 0 /\ recs[Len(recs)].ended = 0

\* The oldest event of a session is a hook: the daemon ends only what it knows.
OldestIsHook ==
    /\ \A s \in Sessions : proj[s] # NoRow => SessionEvents # {}
    /\ SessionEvents # {} =>
          \E i \in SessionEvents : ByHook(events[i]) /\ \A j \in SessionEvents : i <= j

GapsInv == BracketInv /\ OldestIsHook /\ HooksInsideRecording

-----------------------------------------------------------------------------
(* Nobody but the two tasks owes a publication.                            *)
LEMMA OwedPcKeeps == ASSUME TypeInv, TaskInv, OwedPc, [Next]_vars PROVE OwedPc'
<1> USE DEF OwedPc
<1>1. owed \in [Tasks -> Pub] /\ Tasks = {"writer", "probe"}
  BY DEF TypeInv, TypeOK, Tasks
<1>2. CASE Writer
  BY <1>1, <1>2
     DEF Writer, WriterRecv, WriterCommit, WriterWriteFails, WriterPublish, SupersedeSelect,
         SupersedeSelectFails, SupersedeEnd, SupersedeSkip, SupersedeEndFails,
         SupersedePublish, SupersedeDone, WriterExit, Commit, Publish
<1>3. CASE Probe
  BY <1>1, <1>3
     DEF Probe, ProbeSelect, ProbeSelectFails, ProbeSpare, ProbeCondemn, ProbeEnd, ProbeSkip,
         ProbeEndFails, ProbePublish, ProbeDone, ProbeExit, ProbeReturns, Commit, Publish
<1>4. CASE \/ ClockStep \/ (\E p \in Pids : ProcessExits(p))
           \/ (\E s \in Sessions : RowDeleted(s)) \/ (\E in \in Inputs : Submit(in))
  BY <1>4 DEF ClockStep, ProcessExits, RowDeleted, Submit
<1>5. CASE Startup
  BY <1>1, <1>5
     DEF Startup, RebuildOpen, RebuildFold, RebuildUpsert, RebuildCommit, RebuildFails,
         StartRecording, StartRecordingFails, Vanish, TaskInv
<1>6. CASE Boot \/ RequestShutdown \/ EndRecording \/ EndRecordingFails \/ Exit \/ Crash
  BY <1>1, <1>6
     DEF Boot, RequestShutdown, EndRecording, EndRecordingFails, Exit, Crash, Vanish
<1>7. CASE UNCHANGED vars
  BY <1>7 DEF vars
<1>8. QED
  BY <1>2, <1>3, <1>4, <1>5, <1>6, <1>7 DEF Next

\* A step that neither writes nor publishes.
Still ==
    /\ UNCHANGED <<events, proj, recs, owed, lastEvent, shown>>
    /\ phase' \in {"down", "rebuild"} => phase \in {"down", "rebuild"}
    /\ phase' \in {"serving", "stopping"} => phase \in {"serving", "stopping"}

\* A commit by task t, of a hook or of a daemon-made end of a live session.
Writes(t, e) ==
    /\ t \in Tasks /\ e \in Event /\ e.sess \in Sessions
    /\ ConnFree /\ Commit(t, e)
    /\ \/ ByHook(e) /\ phase \in {"serving", "stopping"}
       \/ ~ByHook(e) /\ proj[e.sess] # NoRow
    /\ phase \notin {"down", "rebuild"}
    /\ UNCHANGED <<recs, lastEvent, shown, phase>>

Publishes(t) ==
    t \in Tasks /\ Publish(t) /\ phase \notin {"down", "rebuild"}
    /\ UNCHANGED <<events, proj, recs, phase>>

\* The process ends.
Vanishes == Vanish /\ UNCHANGED <<events, proj, recs>>

(* The steps as the hub and the tables see them.                           *)
LEMMA HubSteps ==
    ASSUME TypeInv, TaskInv, [Next]_vars
    PROVE  \/ Still
           \/ \E t, e : Writes(t, e)
           \/ \E t : Publishes(t)
           \/ RebuildCommit \/ (\E s \in Sessions : RowDeleted(s))
           \/ StartRecording \/ EndRecording \/ Vanishes
<1>1. CASE WriterCommit
  <2>1. item \in Item
    BY <1>1 DEF WriterCommit, TypeInv, ControlInv
  <2>2. ByHook(HookEvent(item))
    BY <2>1 DEF ByHook, HookEvent, Item
  <2>3. phase \in {"serving", "stopping"}
    BY <1>1 DEF WriterCommit, TaskInv
  <2>4. Writes("writer", HookEvent(item))
    BY <1>1, <2>2, <2>3, WriteShape DEF Writes, WriterCommit
  <2>5. QED
    BY <2>4
<1>2. ASSUME NEW v \in victims, SupersedeEnd(v) PROVE \E t, e : Writes(t, e)
  <2>1. v \in Scan /\ EndEvent(v, "PidSuperseded").sess = v.sess /\ v.sess \in Sessions
    BY <1>2, WriteShape DEF EndEvent, Scan
  <2>2. ~ByHook(EndEvent(v, "PidSuperseded")) /\ proj[v.sess] # NoRow
    BY <1>2 DEF ByHook, EndEvent, SupersedeEnd, StillMatches
  <2>3. phase \notin {"down", "rebuild"}
    BY <1>2 DEF SupersedeEnd, TaskInv
  <2>4. Writes("writer", EndEvent(v, "PidSuperseded"))
    BY <1>2, <2>1, <2>2, <2>3, WriteShape DEF Writes, SupersedeEnd
  <2>5. QED
    BY <2>4
<1>3. CASE ProbeEnd
  <2> DEFINE e == EndEvent(suspect, ReasonFor(suspect))
  <2>1. suspect \in Scan /\ e.sess = suspect.sess /\ suspect.sess \in Sessions
    BY <1>3, WriteShape DEF EndEvent, Scan
  <2>2. ~ByHook(e) /\ proj[suspect.sess] # NoRow
    BY <1>3 DEF ByHook, EndEvent, ReasonFor, ProbeEnd, StillMatches
  <2>3. phase \notin {"down", "rebuild"}
    BY <1>3 DEF ProbeEnd, TaskInv
  <2>4. Writes("probe", e)
    BY <1>3, <2>1, <2>2, <2>3, WriteShape DEF Writes, ProbeEnd
  <2>5. QED
    BY <2>4
<1>4. CASE WriterPublish \/ SupersedePublish
  <2>1. Publishes("writer")
    BY <1>4 DEF WriterPublish, SupersedePublish, Publishes, Tasks, TaskInv
  <2>2. QED
    BY <2>1
<1>5. CASE ProbePublish
  <2>1. Publishes("probe")
    BY <1>5 DEF ProbePublish, Publishes, Tasks, TaskInv
  <2>2. QED
    BY <2>1
<1>6. CASE \/ WriterRecv \/ WriterWriteFails \/ SupersedeSelect \/ SupersedeSelectFails
           \/ (\E v \in victims : SupersedeSkip(v) \/ SupersedeEndFails(v))
           \/ SupersedeDone \/ WriterExit
  BY <1>6 DEF WriterRecv, WriterWriteFails, SupersedeSelect, SupersedeSelectFails,
              SupersedeSkip, SupersedeEndFails, SupersedeDone, WriterExit, Still
<1>7. CASE \/ ProbeSelect \/ ProbeSelectFails \/ (\E r \in scanned : ProbeSpare(r) \/ ProbeCondemn(r))
           \/ ProbeSkip \/ ProbeEndFails \/ ProbeDone \/ ProbeExit
  BY <1>7 DEF ProbeSelect, ProbeSelectFails, ProbeSpare, ProbeCondemn, ProbeSkip,
              ProbeEndFails, ProbeDone, ProbeExit, ProbeReturns, Still
<1>8. CASE \/ ClockStep \/ (\E p \in Pids : ProcessExits(p)) \/ (\E in \in Inputs : Submit(in))
  BY <1>8 DEF ClockStep, ProcessExits, Submit, Still
<1>9. CASE (\E s \in Sessions : RebuildOpen(s)) \/ RebuildFold \/ RebuildUpsert \/ RebuildFails
  BY <1>9 DEF RebuildOpen, RebuildFold, RebuildUpsert, RebuildFails, Still
<1>10. CASE Boot \/ RequestShutdown \/ EndRecordingFails
  BY <1>10 DEF Boot, RequestShutdown, EndRecordingFails, Still
<1>11. CASE StartRecordingFails \/ Exit \/ Crash
  BY <1>11 DEF StartRecordingFails, Exit, Crash, Vanishes
<1>12. CASE UNCHANGED vars
  BY <1>12 DEF vars, Still
<1>13. QED
  BY <1>1, <1>2, <1>3, <1>4, <1>5, <1>6, <1>7, <1>8, <1>9, <1>10, <1>11, <1>12
     DEF Next, Writer, Probe, Startup

-----------------------------------------------------------------------------
(* What a commit leaves: the one publication that is owed is of its event. *)
LEMMA WritesShape ==
    ASSUME TypeInv, NEW t, NEW e, Writes(t, e)
    PROVE  /\ events' = Append(events, e)
           /\ proj'[e.sess] \in Row
           /\ \A s \in Sessions \ {e.sess} : proj'[s] = proj[s]
           /\ owed'[t] # NoPub /\ owed'[t].id = Len(events) + 1 /\ owed'[t].sess = e.sess
           /\ owed'[t].state = proj'[e.sess].current_state
           /\ owed'[t].changed =
                 StateChanged(proj[e.sess], proj'[e.sess])
           /\ \A u \in Tasks \ {t} : owed'[u] = NoPub
<1> USE DEF Writes
<1>1. /\ t \in Tasks /\ e \in Event /\ e.sess \in Sessions /\ owed \in [Tasks -> Pub]
      /\ proj \in [Sessions -> Row \cup {NoRow}] /\ now \in Int /\ Len(events) \in Nat
  BY DEF TypeInv, TypeOK
<1> DEFINE new == Transition(proj[e.sess], e, now)
           pub == [id |-> Len(events) + 1, sess |-> e.sess, state |-> new.current_state,
                   changed |-> StateChanged(proj[e.sess], new)]
<1>2. new \in Row
  BY <1>1, TransitionType DEF Event
<1>3. /\ events' = Append(events, e) /\ proj' = [proj EXCEPT ![e.sess] = new]
      /\ owed' = [owed EXCEPT ![t] = pub]
  BY DEF Commit
<1>4. pub.id = Len(events) + 1 /\ pub.id # 0 /\ pub # NoPub
  BY <1>1 DEF NoPub
<1>5. pub.sess = e.sess /\ pub.state = new.current_state
      /\ pub.changed = StateChanged(proj[e.sess], new)
  OBVIOUS
<1> HIDE DEF new, pub
<1>6. \A u \in Tasks : owed[u] = NoPub
  BY DEF ConnFree
<1>7. proj'[e.sess] = new /\ \A s \in Sessions \ {e.sess} : proj'[s] = proj[s]
  BY <1>1, <1>3
<1>8. owed'[t] = pub /\ \A u \in Tasks \ {t} : owed'[u] = NoPub
  BY <1>1, <1>3, <1>6
<1>9. QED
  BY <1>2, <1>3, <1>4, <1>5, <1>7, <1>8

(* What a publication leaves: nothing is owed, and the newest event is out. *)
LEMMA PublishesShape ==
    ASSUME TypeInv, OwedInv, NEW t, Publishes(t)
    PROVE  /\ \A u \in Tasks : owed'[u] = NoPub
           /\ lastEvent' = Len(events) /\ lastEvent < lastEvent'
           /\ owed[t].sess \in Sessions /\ proj[owed[t].sess] # NoRow
           /\ \A s \in Sessions :
                 shown'[s] = IF owed[t].changed /\ s = owed[t].sess
                             THEN proj[s].current_state ELSE shown[s]
<1>1. /\ t \in Tasks /\ owed[t] # NoPub /\ lastEvent' = owed[t].id
      /\ owed' = [owed EXCEPT ![t] = NoPub]
      /\ shown' = IF owed[t].changed THEN [shown EXCEPT ![owed[t].sess] = owed[t].state] ELSE shown
  BY DEF Publishes, Publish
<1>2. owed \in [Tasks -> Pub] /\ shown \in [Sessions -> States \cup {"None"}]
  BY DEF TypeInv, TypeOK
<1>3. /\ owed[t].id = Len(events) /\ lastEvent < Len(events) /\ owed[t].sess \in Sessions
      /\ proj[owed[t].sess] # NoRow /\ owed[t].state = proj[owed[t].sess].current_state
  BY <1>1 DEF OwedInv
<1>4. \A u \in Tasks : owed'[u] = NoPub
  BY <1>1, <1>2 DEF OwedInv
<1>5. \A s \in Sessions :
         shown'[s] = IF owed[t].changed /\ s = owed[t].sess
                     THEN proj[s].current_state ELSE shown[s]
  BY <1>1, <1>2, <1>3
<1>6. QED
  BY <1>1, <1>3, <1>4, <1>5

(* A process that starts or has vanished owes nothing.                     *)
LEMMA VanishesShape ==
    ASSUME Vanishes
    PROVE  /\ \A u \in Tasks : owed'[u] = NoPub
           /\ \A s \in Sessions : shown'[s] = "None"
           /\ lastEvent' = 0 /\ phase' = "down"
           /\ UNCHANGED <<events, proj, recs>>
  BY DEF Vanishes, Vanish

(* Nobody owes anything while main closes or opens a recording, or rebuilds. *)
LEMMA QuietMain ==
    ASSUME TypeInv, TaskInv, OwedPc
    PROVE  /\ phase \in {"down", "rebuild", "startRecording"} => \A u \in Tasks : owed[u] = NoPub
           /\ TasksJoined => \A u \in Tasks : owed[u] = NoPub
  BY DEF TaskInv, OwedPc, Tasks, TasksJoined

(* The one publication that is owed is of the newest event.                *)
LEMMA OwedKeeps == ASSUME ReflectionInv, OwedPc, OwedInv, [Next]_vars PROVE OwedInv'
<1> USE DEF ReflectionInv
<1>1. CASE Still
  BY <1>1 DEF Still, OwedInv
<1>2. ASSUME NEW t, NEW e, Writes(t, e) PROVE OwedInv'
  <2>1. /\ Len(events) \in Nat /\ Len(events') = Len(events) + 1 /\ lastEvent' = lastEvent
        /\ lastEvent \in Nat /\ t \in Tasks /\ e.sess \in Sessions /\ lastEvent <= Len(events)
    BY <1>2, WritesShape, Grows DEF Writes, OwedInv, TypeInv, TypeOK
  <2>2. \A u \in Tasks : owed'[u] # NoPub => u = t
    BY <1>2, WritesShape
  <2>3. proj'[e.sess] # NoRow
    BY <1>2, WritesShape
  <2>4. QED
    BY <1>2, <2>1, <2>2, <2>3, WritesShape DEF OwedInv
<1>3. ASSUME NEW t, Publishes(t) PROVE OwedInv'
  <2>1. events' = events /\ Len(events) \in Nat
    BY <1>3 DEF Publishes, TypeInv, TypeOK
  <2>2. QED
    BY <1>3, <2>1, PublishesShape DEF OwedInv
<1>4. CASE RebuildCommit
  BY <1>4, QuietMain DEF RebuildCommit, OwedInv
<1>5. ASSUME NEW s \in Sessions, RowDeleted(s) PROVE OwedInv'
  BY <1>5, QuietMain DEF RowDeleted, OwedInv
<1>6. CASE StartRecording
  <2>1. Len(events') = Len(events) + 1 /\ Len(events) \in Nat /\ lastEvent' = lastEvent
        /\ lastEvent \in Nat /\ owed' = owed
    BY <1>6, Grows DEF StartRecording, TypeInv, TypeOK
  <2>2. QED
    BY <1>6, <2>1, QuietMain DEF StartRecording, OwedInv
<1>7. CASE EndRecording
  <2>1. Len(events') = Len(events) + 1 /\ Len(events) \in Nat /\ lastEvent' = lastEvent
        /\ lastEvent \in Nat /\ owed' = owed
    BY <1>7, Grows DEF EndRecording, TypeInv, TypeOK
  <2>2. QED
    BY <1>7, <2>1, QuietMain DEF EndRecording, OwedInv
<1>8. CASE Vanishes
  <2>1. Len(events) \in Nat
    BY DEF TypeInv, TypeOK
  <2>2. QED
    BY <1>8, <2>1, VanishesShape DEF OwedInv
<1>9. QED
  BY <1>1, <1>2, <1>3, <1>4, <1>5, <1>6, <1>7, <1>8, HubSteps

(* What was shown of a session is stored, or its State frame is owed.      *)
LEMMA ShownKeeps == ASSUME ReflectionInv, OwedPc, OwedInv, ShownInv, [Next]_vars PROVE ShownInv'
<1> USE DEF ReflectionInv
<1>1. CASE Still
  BY <1>1 DEF Still, ShownInv, StateOwed
<1>2. ASSUME NEW t, NEW e, Writes(t, e) PROVE ShownInv'
  <2>1. shown' = shown /\ phase' \notin {"down", "rebuild"} /\ t \in Tasks /\ ConnFree
    BY <1>2 DEF Writes
  <2>2. ASSUME NEW s \in Sessions, shown[s] # "None"
        PROVE  proj'[s] # NoRow /\ (shown[s] = proj'[s].current_state \/ StateOwed(s)')
    <3>1. proj[s] # NoRow /\ shown[s] = proj[s].current_state
      BY <2>1, <2>2 DEF ShownInv, StateOwed, ConnFree
    <3>2. CASE s # e.sess
      BY <1>2, <3>1, <3>2, WritesShape
    <3>3. CASE s = e.sess
      <4>1. proj'[s] # NoRow
        BY <1>2, <3>3, WritesShape
      <4>2. CASE owed'[t].changed
        BY <1>2, <2>1, <3>3, <4>1, <4>2, WritesShape DEF StateOwed
      <4>3. CASE ~owed'[t].changed
        BY <1>2, <3>1, <3>3, <4>1, <4>3, WritesShape DEF StateChanged
      <4>4. QED
        BY <4>2, <4>3
    <3>4. QED
      BY <3>2, <3>3
  <2>3. QED
    BY <2>1, <2>2 DEF ShownInv
<1>3. ASSUME NEW t, Publishes(t) PROVE ShownInv'
  <2>1. proj' = proj /\ phase' \notin {"down", "rebuild"} /\ owed[t] # NoPub /\ t \in Tasks
    BY <1>3 DEF Publishes, Publish
  <2>2. ASSUME NEW s \in Sessions, shown'[s] # "None"
        PROVE  proj[s] # NoRow /\ shown'[s] = proj[s].current_state
    <3>1. CASE owed[t].changed /\ s = owed[t].sess
      BY <1>3, <3>1, PublishesShape
    <3>2. CASE ~(owed[t].changed /\ s = owed[t].sess)
      <4>1. shown'[s] = shown[s]
        BY <1>3, <3>2, PublishesShape
      <4>2. ~StateOwed(s)
        BY <2>1, <3>2 DEF StateOwed, OwedInv
      <4>3. QED
        BY <2>2, <4>1, <4>2 DEF ShownInv
    <3>3. QED
      BY <3>1, <3>2
  <2>3. QED
    BY <2>1, <2>2 DEF ShownInv
<1>4. CASE RebuildCommit
  BY <1>4 DEF RebuildCommit, ShownInv
<1>5. ASSUME NEW s \in Sessions, RowDeleted(s) PROVE ShownInv'
  BY <1>5 DEF RowDeleted, ShownInv
<1>6. CASE StartRecording \/ EndRecording
  BY <1>6 DEF StartRecording, EndRecording, ShownInv, StateOwed
<1>7. CASE Vanishes
  BY <1>7, VanishesShape DEF ShownInv
<1>8. QED
  BY <1>1, <1>2, <1>3, <1>4, <1>5, <1>6, <1>7, HubSteps

(* Only the owed event of the running recording is unpublished.            *)
LEMMA TailKeeps == ASSUME ReflectionInv, OwedPc, OwedInv, TailInv, [Next]_vars PROVE TailInv'
<1> USE DEF ReflectionInv
<1>1. CASE Still
  BY <1>1 DEF Still, TailInv, ConnFree
<1>2. ASSUME NEW t, NEW e, Writes(t, e) PROVE TailInv'
  <2>1. /\ Len(events') = Len(events) + 1 /\ Len(events) \in Nat
        /\ \A i \in 1..Len(events) : events'[i] = events[i]
        /\ UNCHANGED <<recs, lastEvent, phase>> /\ ConnFree /\ t \in Tasks
    BY <1>2, WritesShape, Grows DEF Writes
  <2>2. ~ConnFree'
    BY <1>2, <2>1, WritesShape DEF ConnFree
  <2>3. ASSUME NEW i \in 1..Len(events'), i # Len(events')
        PROVE  i \in 1..Len(events) /\ events'[i] = events[i]
    BY <2>1, <2>3
  <2>4. QED
    BY <2>1, <2>2, <2>3 DEF TailInv
<1>3. ASSUME NEW t, Publishes(t) PROVE TailInv'
  <2>1. events' = events /\ recs' = recs /\ phase' = phase /\ Len(events) \in Nat
    BY <1>3 DEF Publishes, TypeInv, TypeOK
  <2>2. QED
    BY <1>3, <2>1, PublishesShape DEF TailInv
<1>4. CASE RebuildCommit \/ (\E s \in Sessions : RowDeleted(s)) \/ EndRecording \/ Vanishes
  BY <1>4, VanishesShape DEF RebuildCommit, RowDeleted, EndRecording, TailInv
<1>5. CASE StartRecording
  <2> DEFINE r == [started |-> Len(events) + 1, ended |-> 0]
  <2>1. Len(events') = Len(events) + 1 /\ Len(events) \in Nat
    BY <1>5, Grows DEF StartRecording
  <2>2. Len(recs') = Len(recs) + 1 /\ Len(recs) \in Nat /\ recs'[Len(recs')] = r
    BY <1>5 DEF StartRecording, TypeInv, TypeOK
  <2>3. \A i \in 1..Len(events') : ~(i > recs'[Len(recs')].started)
    BY <2>1, <2>2
  <2>4. QED
    BY <2>2, <2>3 DEF TailInv
<1>6. QED
  BY <1>1, <1>2, <1>3, <1>4, <1>5, HubSteps

(* The invariant that carries the argument.                                *)
THEOREM HubInvariance == Spec => []HubInv
<1>1. Init => HubInv
  BY DEF Init, HubInv, OwedPc, OwedInv, ShownInv, TailInv, Tasks
<1>2. ReflectionInv /\ HubInv /\ [Next]_vars => HubInv'
  BY OwedPcKeeps, OwedKeeps, ShownKeeps, TailKeeps DEF HubInv, ReflectionInv
<1>3. QED
  BY <1>1, <1>2, ReflectionInvariance, PTL DEF Spec

(* Whatever two tasks commit and in which order they publish, a subscriber *)
(* that was told a state was told the stored one, once nothing is owed.    *)
THEOREM PublishedCorrect == Spec => []PublishedStateIsStored
<1>1. HubInv => PublishedStateIsStored
  BY DEF HubInv, ShownInv, StateOwed, ConnFree, PublishedStateIsStored
<1>2. QED
  BY <1>1, HubInvariance, PTL

(* Every commit is published before the connection is free again, and the  *)
(* event frames leave in the order of event_id.                            *)
THEOREM PublicationCorrect == Spec => PublicationFollowsLog
<1> DEFINE Forward == lastEvent' # lastEvent => lastEvent' = 0 \/ lastEvent' > lastEvent
<1>1. HubInv => EveryCommitPublished
  BY DEF HubInv, TailInv, EveryCommitPublished
<1>2. ASSUME ReflectionInv, HubInv, [Next]_vars PROVE Forward
  <2>1. TypeInv /\ TaskInv /\ OwedInv
    BY <1>2 DEF ReflectionInv, HubInv
  <2>2. ASSUME NEW t, Publishes(t) PROVE Forward
    BY <2>1, <2>2, PublishesShape DEF TypeInv, TypeOK
  <2>3. CASE Still \/ (\E t, e : Writes(t, e)) \/ RebuildCommit \/ (\E s \in Sessions : RowDeleted(s))
             \/ StartRecording \/ EndRecording \/ Vanishes
    BY <2>3, VanishesShape
       DEF Still, Writes, RebuildCommit, RowDeleted, StartRecording, EndRecording
  <2>4. QED
    BY <1>2, <2>1, <2>2, <2>3, HubSteps
<1>3. EveryCommitPublished' /\ ReflectionInv /\ HubInv /\ [Next]_vars =>
        [EveryCommitPublished' /\ Forward]_vars
  BY <1>2
<1>4. QED
  BY <1>1, <1>3, HubInvariance, ReflectionInvariance, PTL DEF Spec, PublicationFollowsLog

-----------------------------------------------------------------------------
(* The recordings.                                                         *)

Recording == [started : Nat \ {0}, ended : Nat]

(* recording_sessions is a sequence of pairs of numbers.                   *)
LEMMA RecsType ==
    ASSUME TypeInv
    PROVE  /\ Len(recs) \in Nat /\ Len(events) \in Nat
           /\ recs \in Seq(Recording) /\ DOMAIN recs = 1..Len(recs)
           /\ \A k \in 1..Len(recs) :
                 recs[k] \in Recording /\ recs[k].started \in Nat \ {0} /\ recs[k].ended \in Nat
<1>1. recs \in Seq(Recording) /\ events \in Seq(Event)
  BY DEF TypeInv, TypeOK, Recording
<1>2. DOMAIN recs = 1..Len(recs) /\ \A k \in 1..Len(recs) : recs[k] \in Recording
  BY <1>1
<1>3. \A r \in Recording : r.started \in Nat \ {0} /\ r.ended \in Nat
  BY DEF Recording
<1>4. Len(recs) \in Nat /\ Len(events) \in Nat
  BY <1>1
<1>5. QED
  BY <1>1, <1>2, <1>3, <1>4

(* Opening a recording, entry by entry.                                    *)
LEMMA StartShape ==
    ASSUME TypeInv, StartRecording
    PROVE  /\ Len(recs') = Len(recs) + 1
           /\ recs'[Len(recs) + 1].started = Len(events) + 1
           /\ recs'[Len(recs) + 1].ended = 0
           /\ \A k \in 1..Len(recs) : recs'[k] = recs[k]
<1>1. recs' = Append(recs, [started |-> Len(events) + 1, ended |-> 0])
  BY DEF StartRecording
<1>2. QED
  BY <1>1, RecsType

(* Closing a recording, entry by entry.                                    *)
LEMMA EndShape ==
    ASSUME TypeInv, EndRecording
    PROVE  /\ Len(recs') = Len(recs)
           /\ \A k \in 1..Len(recs) :
                 /\ recs'[k].started = recs[k].started
                 /\ recs'[k].ended = IF k = Len(recs) THEN Len(events) + 1 ELSE recs[k].ended
<1>1. recs' = [recs EXCEPT ![Len(recs)] = [@ EXCEPT !.ended = Len(events) + 1]]
  BY DEF EndRecording
<1>2. Len(recs') = Len(recs)
  BY <1>1, RecsType
<1>3. ASSUME NEW k \in 1..Len(recs), k # Len(recs) PROVE recs'[k] = recs[k]
  BY <1>1, <1>3, RecsType
<1>4. ASSUME NEW k \in 1..Len(recs), k = Len(recs)
      PROVE  recs'[k].started = recs[k].started /\ recs'[k].ended = Len(events) + 1
  <2>1. recs[k] \in Recording
    BY RecsType
  <2>2. recs'[k] = [recs[k] EXCEPT !.ended = Len(events) + 1]
    BY <1>1, <1>4, RecsType
  <2>3. QED
    BY <2>1, <2>2 DEF Recording
<1>5. QED
  BY <1>2, <1>3, <1>4

(* The recordings stay one after the other.                                *)
LEMMA BracketKeeps == ASSUME TypeInv, TaskInv, BracketInv, [Next]_vars PROVE BracketInv'
<1>1. CASE Still
  BY <1>1 DEF Still, BracketInv
<1>2. ASSUME NEW t, NEW e, Writes(t, e) PROVE BracketInv'
  <2>1. Len(events') = Len(events) + 1 /\ UNCHANGED <<recs, phase>>
    BY <1>2, WritesShape, Grows DEF Writes
  <2>2. \A k \in 1..Len(recs) :
            recs[k].started <= Len(events) + 1 /\ recs[k].ended <= Len(events) + 1
    BY RecsType DEF BracketInv
  <2>3. QED
    BY <2>1, <2>2 DEF BracketInv
<1>3. CASE (\E t : Publishes(t)) \/ RebuildCommit \/ (\E s \in Sessions : RowDeleted(s)) \/ Vanishes
  BY <1>3, VanishesShape DEF Publishes, RebuildCommit, RowDeleted, BracketInv
<1>4. CASE StartRecording
  <2>1. Len(events') = Len(events) + 1
    BY <1>4, Grows DEF StartRecording
  <2> DEFINE n == Len(recs)
  <2>0. /\ n \in Nat /\ Len(recs') = n + 1 /\ recs'[n + 1].started = Len(events) + 1
        /\ recs'[n + 1].ended = 0 /\ Len(events) \in Nat
    BY <1>4, StartShape, RecsType
  <2>2. ASSUME NEW k \in 1..Len(recs'), k # n + 1
        PROVE  k \in 1..n /\ recs'[k] = recs[k]
    <3>1. k \in 1..n
      BY <2>0, <2>2
    <3>2. QED
      BY <1>4, <3>1, StartShape
  <2>3. \A k \in 1..Len(recs') :
            /\ recs'[k].started <= Len(events') /\ recs'[k].ended <= Len(events')
            /\ recs'[k].ended # 0 => recs'[k].started < recs'[k].ended
    <3>1. ASSUME NEW k \in 1..Len(recs)
          PROVE  /\ recs[k].started <= Len(events) + 1 /\ recs[k].ended <= Len(events) + 1
                 /\ recs[k].ended # 0 => recs[k].started < recs[k].ended
      BY RecsType DEF BracketInv
    <3>2. QED
      BY <2>0, <2>1, <2>2, <3>1
  <2>4. ASSUME NEW k \in 1..Len(recs'), NEW m \in 1..Len(recs'), k < m
        PROVE  recs'[k].started < recs'[m].started /\ recs'[k].ended < recs'[m].started
    <3>1. k \in 1..Len(recs) /\ recs'[k] = recs[k]
      BY <2>0, <2>2, <2>4
    <3>2. CASE m = n + 1
      <4>1. recs[k].started <= Len(events) /\ recs[k].ended <= Len(events)
        BY <3>1 DEF BracketInv
      <4>2. QED
        BY <2>0, <3>1, <3>2, <4>1, RecsType
    <3>3. CASE m # n + 1
      BY <2>2, <2>4, <3>1, <3>3 DEF BracketInv
    <3>4. QED
      BY <3>2, <3>3
  <2>5. QED
    BY <2>0, <2>3, <2>4 DEF BracketInv
<1>5. CASE EndRecording
  <2>1. Len(events') = Len(events) + 1 /\ phase = "stopping" /\ phase' = "closing"
    BY <1>5, Grows DEF EndRecording
  <2>2. \A k \in 1..Len(recs') :
            /\ recs'[k].started <= Len(events') /\ recs'[k].ended <= Len(events')
            /\ recs'[k].ended # 0 => recs'[k].started < recs'[k].ended
    BY <1>5, <2>1, EndShape, RecsType DEF BracketInv
  <2>3. \A k, m \in 1..Len(recs') : k < m =>
            recs'[k].started < recs'[m].started /\ recs'[k].ended < recs'[m].started
    BY <1>5, <2>1, EndShape, RecsType DEF BracketInv
  <2>4. QED
    BY <2>1, <2>2, <2>3 DEF BracketInv
<1>6. QED
  BY <1>1, <1>2, <1>3, <1>4, <1>5, HubSteps

(* Hooks lie inside a recording: they are written only while one is open.  *)
LEMMA InsideKeeps ==
    ASSUME TypeInv, TaskInv, BracketInv, HooksInsideRecording, [Next]_vars
    PROVE  HooksInsideRecording'
<1>1. ASSUME events' = events, recs' = recs PROVE HooksInsideRecording'
  BY <1>1 DEF HooksInsideRecording
<1>2. ASSUME NEW t, NEW e, Writes(t, e) PROVE HooksInsideRecording'
  <2>1. /\ Len(events') = Len(events) + 1 /\ events'[Len(events) + 1] = e /\ recs' = recs
        /\ \A i \in 1..Len(events) : events'[i] = events[i]
    BY <1>2, WritesShape, Grows DEF Writes
  <2>2. ASSUME ByHook(e)
        PROVE  \E k \in 1..Len(recs) :
                   /\ recs[k].started < Len(events) + 1
                   /\ recs[k].ended # 0 => Len(events) + 1 < recs[k].ended
                   /\ k < Len(recs) => Len(events) + 1 < recs[k + 1].started
    <3>1. Len(recs) # 0 /\ recs[Len(recs)].ended = 0 /\ Len(recs) \in 1..Len(recs)
      BY <1>2, <2>2, RecsType DEF Writes, BracketInv
    <3>2. recs[Len(recs)].started < Len(events) + 1
      BY <3>1, RecsType DEF BracketInv
    <3>3. QED
      BY <3>1, <3>2, RecsType
  <2>3. ASSUME NEW i \in 1..Len(events'), ByHook(events'[i])
        PROVE  \E k \in 1..Len(recs) :
                   /\ recs[k].started < i
                   /\ recs[k].ended # 0 => i < recs[k].ended
                   /\ k < Len(recs) => i < recs[k + 1].started
    <3>1. CASE i = Len(events) + 1
      BY <2>1, <2>2, <2>3, <3>1
    <3>2. CASE i # Len(events) + 1
      <4>1. i \in 1..Len(events) /\ events'[i] = events[i]
        BY <2>1, <3>2, RecsType
      <4>2. QED
        BY <2>3, <4>1 DEF HooksInsideRecording
    <3>3. QED
      BY <3>1, <3>2
  <2>4. QED
    BY <2>1, <2>3 DEF HooksInsideRecording
<1>3. ASSUME NEW k0 \in SentinelKinds, events' = Append(events, Sentinel(k0)),
             NEW i \in 1..Len(events'), ByHook(events'[i])
      PROVE  i \in 1..Len(events) /\ ByHook(events[i])
  <2>1. ~ByHook(Sentinel(k0))
    BY DEF ByHook, Sentinel
  <2>2. QED
    BY <1>3, <2>1, Grows DEF ByHook
<1>4. CASE StartRecording
  <2> SUFFICES ASSUME NEW i \in 1..Len(events'), ByHook(events'[i])
               PROVE  \E k \in 1..Len(recs') :
                   /\ recs'[k].started < i
                   /\ recs'[k].ended # 0 => i < recs'[k].ended
                   /\ k < Len(recs') => i < recs'[k + 1].started
    BY DEF HooksInsideRecording
  <2>1. i \in 1..Len(events) /\ ByHook(events[i])
    BY <1>3, <1>4 DEF StartRecording, SentinelKinds
  <2>2. PICK k \in 1..Len(recs) :
                   /\ recs[k].started < i
                   /\ recs[k].ended # 0 => i < recs[k].ended
                   /\ k < Len(recs) => i < recs[k + 1].started
    BY <2>1 DEF HooksInsideRecording
  <2>3. k \in 1..Len(recs') /\ recs'[k] = recs[k] /\ Len(recs') = Len(recs) + 1
    <3>1. recs'[k] = recs[k] /\ Len(recs') = Len(recs) + 1
      BY <1>4, StartShape
    <3>2. QED
      BY <3>1, RecsType
  <2>4. i < recs'[k + 1].started
    <3>1. CASE k = Len(recs)
      <4>1. recs'[k + 1].started = Len(events) + 1
        BY <1>4, <3>1, StartShape
      <4>2. QED
        BY <2>1, <4>1, RecsType
    <3>2. CASE k # Len(recs)
      <4> DEFINE n == Len(recs)
      <4>0. n \in Nat /\ k \in 1..n /\ k # n
        BY <3>2, RecsType
      <4> HIDE DEF n
      <4>1. k + 1 \in 1..n /\ k < n
        BY <4>0
      <4>2. QED
        BY <1>4, <2>2, <4>1, StartShape DEF n
    <3>3. QED
      BY <3>1, <3>2
  <2>5. QED
    BY <2>2, <2>3, <2>4
<1>5. CASE EndRecording
  <2> SUFFICES ASSUME NEW i \in 1..Len(events'), ByHook(events'[i])
               PROVE  \E k \in 1..Len(recs') :
                   /\ recs'[k].started < i
                   /\ recs'[k].ended # 0 => i < recs'[k].ended
                   /\ k < Len(recs') => i < recs'[k + 1].started
    BY DEF HooksInsideRecording
  <2>1. i \in 1..Len(events) /\ ByHook(events[i])
    BY <1>3, <1>5 DEF EndRecording, SentinelKinds
  <2>2. PICK k \in 1..Len(recs) :
                   /\ recs[k].started < i
                   /\ recs[k].ended # 0 => i < recs[k].ended
                   /\ k < Len(recs) => i < recs[k + 1].started
    BY <2>1 DEF HooksInsideRecording
  <2>3. k \in 1..Len(recs') /\ Len(recs') = Len(recs) /\ recs'[k].started = recs[k].started
    BY <1>5, EndShape, RecsType
  <2>4. recs'[k].ended # 0 => i < recs'[k].ended
    BY <1>5, <2>1, <2>2, EndShape, RecsType
  <2>5. k < Len(recs) => recs'[k + 1].started = recs[k + 1].started
    <3>1. k < Len(recs) => k + 1 \in 1..Len(recs)
      BY RecsType
    <3>2. QED
      BY <1>5, <3>1, EndShape
  <2>6. QED
    BY <2>2, <2>3, <2>4, <2>5
<1>6. CASE \/ Still \/ (\E t : Publishes(t)) \/ RebuildCommit
           \/ (\E s \in Sessions : RowDeleted(s)) \/ Vanishes
  BY <1>1, <1>6, VanishesShape DEF Still, Publishes, RebuildCommit, RowDeleted
<1>7. QED
  BY <1>2, <1>4, <1>5, <1>6, HubSteps

(* The events of sessions after an append.                                 *)
LEMMA SessionEventsAppend ==
    ASSUME TypeInv, NEW e, events' = Append(events, e)
    PROVE  /\ SessionEvents' = SessionEvents \cup
                 (IF e.sess # Daemon THEN {Len(events) + 1} ELSE {})
           /\ \A i \in SessionEvents : i \in 1..Len(events) /\ events'[i] = events[i]
<1>1. 1..Len(events') = 1..Len(events) \cup {Len(events) + 1}
  BY Grows
<1>2. QED
  BY <1>1, Grows DEF SessionEvents

(* The first event of the log that is no sentinel stays a hook.            *)
LEMMA OldestKeeps == ASSUME ReflectionInv, OldestIsHook, [Next]_vars PROVE OldestIsHook'
<1> USE DEF ReflectionInv
<1>1. ASSUME events' = events, \A s \in Sessions : proj'[s] # NoRow => SessionEvents # {}
      PROVE  OldestIsHook'
  BY <1>1 DEF OldestIsHook, SessionEvents
<1>2. ASSUME NEW t, NEW e, Writes(t, e) PROVE OldestIsHook'
  <2> DEFINE n == Len(events) + 1
  <2>1. events' = Append(events, e) /\ e.sess # Daemon
    BY <1>2, WritesShape DEF Writes
  <2>2. SessionEvents' = SessionEvents \cup {n} /\ events'[n] = e
    BY <2>1, SessionEventsAppend, Grows
  <2>3. \A i \in SessionEvents : i <= n /\ events'[i] = events[i]
    BY <2>1, SessionEventsAppend, Grows
  <2>4. \E i \in SessionEvents' : ByHook(events'[i]) /\ \A j \in SessionEvents' : i <= j
    <3>1. CASE SessionEvents = {}
      <4>1. ByHook(e)
        BY <1>2, <3>1 DEF Writes, OldestIsHook
      <4>2. QED
        BY <2>1, <2>2, <3>1, <4>1, Grows
    <3>2. CASE SessionEvents # {}
      <4>1. PICK i \in SessionEvents : ByHook(events[i]) /\ \A j \in SessionEvents : i <= j
        BY <3>2 DEF OldestIsHook
      <4>2. QED
        BY <2>2, <2>3, <4>1
    <3>3. QED
      BY <3>1, <3>2
  <2>5. QED
    BY <2>2, <2>4 DEF OldestIsHook
<1>3. ASSUME NEW k \in SentinelKinds, events' = Append(events, Sentinel(k)), proj' = proj
      PROVE  OldestIsHook'
  <2>1. Sentinel(k).sess = Daemon
    BY DEF Sentinel
  <2>2. SessionEvents' = SessionEvents /\ \A i \in SessionEvents : events'[i] = events[i]
    BY <1>3, <2>1, SessionEventsAppend
  <2>3. QED
    BY <1>3, <2>2 DEF OldestIsHook
<1>4. CASE RebuildCommit
  <2>1. events' = events /\ proj' = rb.out /\ phase = "rebuild"
    BY <1>4 DEF RebuildCommit
  <2>2. ASSUME NEW s \in Sessions, rb.out[s] # NoRow PROVE SessionEvents # {}
    <3>1. CASE proj[s] # NoRow
      BY <3>1 DEF OldestIsHook
    <3>2. CASE proj[s] = NoRow
      <4>1. ReadsLast(rb.out[s], s, events, Len(events))
        BY <2>1, <2>2, <3>2 DEF RebuildInv, Agrees, ReadsAs
      <4>2. Of(s, events, Len(events)) # {}
        BY <4>1 DEF ReadsLast
      <4>3. QED
        BY <4>2 DEF Of, SessionEvents
    <3>3. QED
      BY <3>1, <3>2
  <2>3. QED
    BY <1>1, <2>1, <2>2
<1>5. ASSUME NEW s \in Sessions, RowDeleted(s) PROVE OldestIsHook'
  <2>1. \A r \in Sessions : proj'[r] # NoRow => proj[r] # NoRow
    BY <1>5 DEF RowDeleted, TypeInv, TypeOK
  <2>2. QED
    BY <1>1, <1>5, <2>1 DEF RowDeleted, OldestIsHook
<1>6. CASE Still \/ (\E t : Publishes(t)) \/ Vanishes
  BY <1>1, <1>6, VanishesShape DEF Still, Publishes, OldestIsHook
<1>7. CASE StartRecording \/ EndRecording
  BY <1>3, <1>7 DEF StartRecording, EndRecording, SentinelKinds
<1>8. QED
  BY <1>2, <1>4, <1>5, <1>6, <1>7, HubSteps

(* The invariant that carries the argument.                                *)
THEOREM GapsInvariance == Spec => []GapsInv
<1>1. Init => GapsInv
  BY DEF Init, GapsInv, BracketInv, OldestIsHook, HooksInsideRecording, SessionEvents
<1>2. ReflectionInv /\ GapsInv /\ [Next]_vars => GapsInv'
  BY BracketKeeps, OldestKeeps, InsideKeeps DEF GapsInv, ReflectionInv
<1>3. QED
  BY <1>1, <1>2, ReflectionInvariance, PTL DEF Spec

(* The recording of the oldest event is the only one that can vouch for it. *)
LEMMA FirstGap == ASSUME TypeInv, GapsInv PROVE FirstGapIsFlagged
<1> SUFFICES ASSUME NEW k \in 1..Len(recs), SessionEvents # {}, InRecording(OldestEvent, k)
             PROVE  HistoryBeginsCleanly <=> recs[k].ended # 0
  BY DEF FirstGapIsFlagged
<1> USE DEF GapsInv
<1> DEFINE o == OldestEvent
<1>1. o \in SessionEvents /\ \A j \in SessionEvents : o <= j
  BY DEF OldestIsHook, OldestEvent
<1>2. PICK i \in SessionEvents : ByHook(events[i]) /\ \A j \in SessionEvents : i <= j
  BY DEF OldestIsHook
<1>3. o = i /\ ByHook(events[o]) /\ o \in 1..Len(events) /\ Len(events) \in Nat
  BY <1>1, <1>2, RecsType DEF SessionEvents
<1> HIDE DEF o
<1>4. PICK h \in 1..Len(recs) :
          /\ recs[h].started < o
          /\ recs[h].ended # 0 => o < recs[h].ended
          /\ h < Len(recs) => o < recs[h + 1].started
  BY <1>3 DEF HooksInsideRecording
<1>5. recs[k].started < o /\ (k < Len(recs) => o < recs[k + 1].started)
  BY DEF InRecording, o
<1>6. ASSUME NEW m \in 1..Len(recs), NEW n \in 1..Len(recs), m < n,
             m < Len(recs) => o < recs[m + 1].started
      PROVE  o < recs[n].started
  <2>1. m < Len(recs) /\ m + 1 \in 1..Len(recs) /\ m + 1 <= n
    BY <1>6, RecsType
  <2>2. m + 1 = n \/ recs[m + 1].started < recs[n].started
    BY <2>1 DEF BracketInv
  <2>3. QED
    BY <1>3, <1>6, <2>1, <2>2, RecsType
<1>7. h = k
  <2>1. ~(h < k) /\ ~(k < h)
    BY <1>3, <1>4, <1>5, <1>6, RecsType
  <2>2. QED
    BY <2>1, RecsType
<1>8. ASSUME recs[k].ended # 0 PROVE HistoryBeginsCleanly
  BY <1>3, <1>4, <1>7, <1>8, RecsType DEF HistoryBeginsCleanly, o
<1>9. ASSUME HistoryBeginsCleanly PROVE recs[k].ended # 0
  <2>1. PICK m \in 1..Len(recs) : recs[m].started <= o /\ recs[m].ended # 0 /\ recs[m].ended >= o
    BY <1>9 DEF HistoryBeginsCleanly, o
  <2>2. ~(m < k)
    <3>1. m < k => recs[m].ended < recs[k].started
      BY DEF BracketInv
    <3>2. QED
      BY <1>3, <1>5, <2>1, <3>1, RecsType
  <2>3. ~(k < m)
    BY <1>3, <1>5, <1>6, <2>1, RecsType
  <2>4. m = k
    BY <2>2, <2>3, RecsType
  <2>5. QED
    BY <2>1, <2>4
<1>10. QED
  BY <1>8, <1>9

(* The recordings bracket the hooks, and the Hello frame's                 *)
(* history_begins_cleanly is true exactly when the recording of the oldest *)
(* event was closed, however many crashes, restarts and probe passes       *)
(* before the first hook of a recording there were.                        *)
THEOREM RecordingsCorrect == Spec => []RecordingsTellGaps
<1>1. ReflectionInv /\ GapsInv => RecordingsTellGaps
  BY FirstGap DEF ReflectionInv, GapsInv, RecordingsTellGaps
<1>2. QED
  BY <1>1, GapsInvariance, ReflectionInvariance, PTL
=============================================================================
