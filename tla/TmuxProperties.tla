--------------------------- MODULE TmuxProperties ---------------------------
(* What the tmux sessions of the story automator promise their orchestrator. *)
EXTENDS TmuxSession

Monitors == Observers \ Beats

\* Type invariant: the state file and every copy of it a process holds are
\* well-formed states, the pane one tmux can report.
TypeOK ==
    /\ mode \in {"runner", "legacy"} /\ agent \in {"claude", "codex"}
    /\ file \in States /\ ssnap \in States /\ rsnap \in States
    /\ pane \in Panes
    /\ child \in {"none", "alive", "exited", "killed"}
    /\ exitCode \in ExitCodes \cup {NoCode}
    /\ prompted \in BOOLEAN
    /\ polls \in [Observers -> 0..MaxPolls]
    /\ osnap \in [Observers -> States]
    /\ opane \in [Observers -> Panes]
    /\ oalive \in [Observers -> [child : BOOLEAN, runner : BOOLEAN]]

\* No race between spawner, runner and pollers makes up a success: in runner
\* mode nobody is told "completed" (nor, of a heartbeat, "completed") unless the
\* agent's command exited with 0 or claude stood at its prompt with its work
\* done (session_status, heartbeat_check).
CompletedIsEarned ==
    \A o \in Observers :
        mode = "runner" /\ verdict[o] \in {"completed", "incomplete"}
            => exitCode = 0 \/ prompted

\* Whoever finishes the state file - the runner, or a poller reconciling from
\* the dead pane - records the same result for the same exit: a recorded
\* failure, spawn error or success is the agent's own, although two pieces of
\* code map exit codes and either may overwrite the other's record.
RecordedResultIsTrue ==
    Terminal(file) /\ file.result \in {"success", "failure", "spawn_error"} =>
        \/ child = "exited" /\ file.result = RunnerResult(exitCode)
        \/ file.result = "success" /\ prompted
        \/ file.result = "spawn_error" /\ child = "none"

\* A poll that begins after the runner has exited decides the session, even when
\* the spawner's late save has put an unfinished state back over the final one:
\* the pane that remain-on-exit keeps tells the result.  (A kill in the middle
\* of the poll excuses it.)
LatePollDecides ==
    \A o \in Monitors : opc[o] = "idle" /\ late[o] => killer # "idle"

\* "stuck" (launch never succeeded) is said in runner mode only of a session
\* that is gone, never of one whose runner is slow to start or to report.
StuckMeansGone ==
    \A o \in Observers : mode = "runner" /\ verdict[o] = "stuck" => ~HasSession

\* A lone legacy monitor is patient: it calls a claude session stuck only after
\* its whole grace of polls, those whose capture failed included.
StuckIsPatient ==
    mode = "legacy" /\ agent = "claude" /\ Cardinality(Monitors) = 1 =>
        \A o \in Monitors : verdict[o] = "stuck" => polls[o] > GracePolls

\* Every monitor of a spawned session returns: no poll waits for a process that
\* is gone, and polls that decide nothing are bounded.
MonitorsReturn == \A o \in Monitors : spc = "done" ~> opc[o] = "done"

(* Whatever is said or recorded of a session is true of it, whoever of      *)
(* spawner, runner, pollers and killer wrote the unlocked state file last   *)
(* and whatever each had read before.                                       *)
VerdictsAreTrue ==
    /\ TypeOK
    /\ CompletedIsEarned
    /\ RecordedResultIsTrue
    /\ LatePollDecides
    /\ StuckMeansGone
    /\ StuckIsPatient
=============================================================================
