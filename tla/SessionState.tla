---------------------------- MODULE SessionState ----------------------------
(***************************************************************************)
(* The per-session projection: what one row of session_projections holds,  *)
(* how one event changes it (projection/state.rs), and what the row says   *)
(* about the event log it was computed from.  Pure operators, no state.    *)
(*                                                                         *)
(* An event kind is the Rust enum variant's name.  A session's source is   *)
(* folded into its identity (the code always keys by both).  cwd follows   *)
(* the rule of last_pid word for word and is left out; so is the           *)
(* reaction, which no state depends on.                                    *)
(***************************************************************************)
EXTENDS Integers, Sequences

CONSTANTS
    Sessions,          \* (source, session_id) pairs
    Daemon,            \* the __daemon__/__daemon__ pair of the sentinel rows
    Pids,              \* process ids
    NoPid,             \* pid: None
    NoRow,             \* no row in session_projections
    StaleWorkingMs     \* STALE_WORKING_MS, in clock units

ASSUME ConstantsAssumption ==
    /\ Daemon \notin Sessions
    /\ NoPid \notin Pids
    /\ StaleWorkingMs \in Nat

HookKinds == {"UserPromptSubmit", "PreToolUse", "PostToolUse", "Stop", "Notification"}
SentinelKinds == {"RecordingStarted", "RecordingEnded"}
Kinds == HookKinds \cup SentinelKinds \cup {"SessionEnded"}

\* NotificationType; "None" is a missing field or a kind that is no Notification.
NotificationTypes ==
    {"PermissionPrompt", "IdlePrompt", "AuthSuccess", "ElicitationDialog",
     "ElicitationResponse", "ElicitationComplete", "Unknown", "None"}

States == {"Idle", "Working", "WaitingInput", "Ended"}
PidOrNone == Pids \cup {NoPid}

\* SessionState, the JSON blob of a row.
Row == [current_state    : States,
        last_event_kind  : Kinds,
        last_event_at_ms : Int,
        last_pid         : PidOrNone,
        started_at       : Int]

ASSUME NoRowAssumption == NoRow \notin Row

-----------------------------------------------------------------------------
(* transition(prev, event, now).  Its defensive arm for sentinels and      *)
(* Unknown is unreachable: write_inner rejects the first, the adapter and  *)
(* /replay the second.                                                     *)

BlocksOnUser(e) ==
    e.kind = "Notification" /\ e.ntype \in {"PermissionPrompt", "ElicitationDialog"}

IsIdlePrompt(e) == e.kind = "Notification" /\ e.ntype = "IdlePrompt"

\* The state after e, given the state before it ("Absent" for no row).
NextCurrent(was, e) ==
    IF e.kind \in {"UserPromptSubmit", "PreToolUse", "PostToolUse"} THEN "Working"
    ELSE IF e.kind = "Stop" THEN "Idle"
    ELSE IF e.kind = "SessionEnded" THEN "Ended"
    ELSE IF BlocksOnUser(e) THEN "WaitingInput"
    ELSE IF IsIdlePrompt(e) THEN (IF was = "WaitingInput" THEN was ELSE "Idle")
    ELSE IF was \in {"Ended", "Absent"} THEN "Idle" ELSE was

CurrentOf(prev) == IF prev = NoRow THEN "Absent" ELSE prev.current_state

\* Mutant: an event without a PID clears last_pid.
TransitionForgetsPid(prev, e, now) ==
    [current_state    |-> NextCurrent(CurrentOf(prev), e),
     last_event_kind  |-> e.kind,
     last_event_at_ms |-> now,
     last_pid         |-> e.pid,
     started_at       |-> IF prev = NoRow THEN now ELSE prev.started_at]

\* last_pid is overwritten by a pid and carried forward otherwise;
\* started_at is set by the first event and kept.
Transition(prev, e, now) ==
    [current_state    |-> NextCurrent(CurrentOf(prev), e),
     last_event_kind  |-> e.kind,
     last_event_at_ms |-> now,
     last_pid         |-> IF e.pid # NoPid THEN e.pid
                          ELSE IF prev = NoRow THEN NoPid ELSE prev.last_pid,
     started_at       |-> IF prev = NoRow THEN now ELSE prev.started_at]

\* current_state_for_read: a Working row older than the threshold reads Idle.
CurrentStateForRead(row, now) ==
    IF row.current_state = "Working" /\ now - row.last_event_at_ms > StaleWorkingMs
    THEN "Idle" ELSE row.current_state

-----------------------------------------------------------------------------
(* What a row owes the log, without recursion: ReadsAs(row, s, log, n)     *)
(* says that row is what the first n events of log tell about session s.   *)
(* It determines every field of the row.                                   *)

\* The positions of s among the first n events.
Of(s, log, n) == {i \in 1..n : log[i].sess = s}

\* The event fixes the state whatever came before it.
Decisive(e) ==
    \/ e.kind \in {"UserPromptSubmit", "PreToolUse", "PostToolUse", "Stop", "SessionEnded"}
    \/ BlocksOnUser(e)

\* i is the last (the first) position in the set S.
IsLast(i, S) == i \in S /\ \A j \in S : j <= i
IsFirst(i, S) == i \in S /\ \A j \in S : i <= j

ReadsLast(row, s, log, n) ==
    \E i \in Of(s, log, n) :
        /\ IsLast(i, Of(s, log, n))
        /\ row.last_event_kind = log[i].kind
        /\ row.last_event_at_ms = log[i].at

ReadsFirst(row, s, log, n) ==
    \E i \in Of(s, log, n) : IsFirst(i, Of(s, log, n)) /\ row.started_at = log[i].at

ReadsPid(row, s, log, n) ==
    LET bound == {i \in Of(s, log, n) : log[i].pid # NoPid}
    IN  \/ bound = {} /\ row.last_pid = NoPid
        \/ \E i \in bound : IsLast(i, bound) /\ row.last_pid = log[i].pid

\* The last decisive event, corrected by the notifications that followed it:
\* an idle prompt ends a Working turn, any hook at all revives an Ended
\* session, and nothing but a decisive event leaves WaitingInput.
ReadsState(row, s, log, n) ==
    LET decisive == {i \in Of(s, log, n) : Decisive(log[i])}
    IN  \/ decisive = {} /\ row.current_state = "Idle"
        \/ \E i \in decisive :
              LET base  == NextCurrent("Absent", log[i])
                  after == {j \in Of(s, log, n) : j > i}
              IN  /\ IsLast(i, decisive)
                  /\ row.current_state =
                       IF base = "Working" /\ (\E j \in after : IsIdlePrompt(log[j]))
                       THEN "Idle"
                       ELSE IF base = "Ended" /\ after # {} THEN "Idle" ELSE base

ReadsAs(row, s, log, n) ==
    /\ ReadsLast(row, s, log, n)
    /\ ReadsFirst(row, s, log, n)
    /\ ReadsPid(row, s, log, n)
    /\ ReadsState(row, s, log, n)

\* ReadsAs, or no row because the log has no event of s.
Agrees(prev, s, log, n) ==
    IF prev = NoRow THEN Of(s, log, n) = {} ELSE ReadsAs(prev, s, log, n)
=============================================================================
