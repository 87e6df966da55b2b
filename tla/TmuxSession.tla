---------------------------- MODULE TmuxSession ----------------------------
(* One tmux session of the story automator (the bmad-story-automator skill, Python): *)
(* the spawner that creates it, the runner script inside its pane, the      *)
(* agent the runner starts, the observers that poll it (`monitor-session`,  *)
(* `heartbeat-check`) and whoever kills it.  Spawner, runner and observers  *)
(* are separate processes that read, change and rewrite ONE state file      *)
(* without a lock; a write replaces the file atomically, the read before it *)
(* is a step of its own.                                                    *)
EXTENDS Integers, FiniteSets

CONSTANTS
    Observers,     \* processes that poll the session
    Beats,         \* those of them that are heartbeat checks (one poll each)
    ExitCodes,     \* exit codes the agent's command may end with
    MaxPolls,      \* --max-polls of the monitors
    GracePolls,    \* legacy polls before a silent session may be "stuck" (10)
    Times          \* what the statusline clock may show

ASSUME TmuxAssumption ==
    /\ IsFiniteSet(Observers) /\ Beats \subseteq Observers
    /\ ExitCodes \subseteq 0..255
    /\ MaxPolls \in Nat \ {0}
    /\ GracePolls \in Nat
    /\ "none" \notin Times

VARIABLES
    mode,       \* SA_TMUX_RUNTIME: "runner" (also for auto) or "legacy"
    agent,      \* "claude" or "codex"
    file,       \* the session's state file
    command,    \* the command file exists
    output,     \* the exported output file exists
    pane,       \* tmux's view: [life, code]
    spc, ssnap, \* the spawner's step and the state it loaded
    rpc, rsnap, \* the runner's step and the state it loaded
    child,      \* the agent process: "none", "alive", "exited" or "killed"
    exitCode,   \* the code the agent exited with
    prompted,   \* the agent shows its completion marker and an input prompt
    killer,     \* tmux_kill_session: "idle", "killed" (session gone), "done"
    lstate,     \* the legacy state file
    opc, polls, osnap, opane, oalive, verdict, \* the observers
    late        \* the monitor's poll began after the runner had exited

spawnVars == <<spc, ssnap>>
runVars == <<rpc, rsnap, child, exitCode, prompted>>
obsVars == <<opc, polls, osnap, opane, oalive, verdict, late>>
envVars == <<mode, agent>>
vars == <<envVars, file, command, output, pane, spawnVars, runVars, killer,
          lstate, obsVars>>

-----------------------------------------------------------------------------
(* The state file.  `life` is "absent" when there is no file and "" when    *)
(* the file has no lifecycle; a pid field records whether the pid is known. *)

Lifecycles == {"absent", "", "created", "launching", "running", "finished"}
Results == {"", "success", "failure", "interrupted", "spawn_error", "unknown",
            "never_launched"}
States == [life : Lifecycles, result : Results, runner : BOOLEAN,
           child : BOOLEAN, agent : BOOLEAN]

Blank(life) == [life |-> life, result |-> "", runner |-> FALSE,
                child |-> FALSE, agent |-> FALSE]
Absent == Blank("absent")

Terminal(s) == s.life = "finished"
Finish(s, r) == [s EXCEPT !.life = "finished", !.result = r]

\* update_session_state: what was loaded, with panePid; the file is created
\* without a lifecycle when there was none.
WithPanePid(s) == IF s.life = "absent" THEN Blank("") ELSE s

\* The runner's write_state: merged into what was loaded.
Merge(s, life, r, knowsChild) ==
    [s EXCEPT !.life = life, !.result = r, !.runner = TRUE,
              !.child = @ \/ knowsChild]

NoCode == -1

\* The runner script's mapping of the command's exit code.
RunnerResult(code) ==
    CASE code = 0 -> "success"
      [] code \in {126, 127} -> "spawn_error"
      [] code \in {130, 131, 143} -> "interrupted"
      [] OTHER -> "failure"

\* _result_from_exit_code, of the code tmux reports for a dead pane; tmux has
\* none for a pane ended by a signal.
ResultFromExitCode(code) ==
    CASE code = NoCode -> "unknown"
      [] code = 0 -> "success"
      [] code \in {130, 131, 143} -> "interrupted"
      [] code \in {126, 127} -> "spawn_error"
      [] OTHER -> "failure"

NoPane == [life |-> "absent", code |-> NoCode]
LivePane(life) == [life |-> life, code |-> NoCode]
DeadPane(code) == [life |-> "dead", code |-> code]
Panes == [life : {"absent", "placeholder", "live", "dead"},
          code : ExitCodes \cup {NoCode, 127}]

HasSession == pane.life # "absent"
ChildAlive == child = "alive"
RunnerAlive == rpc \notin {"none", "gone"}

\* The hangup that ends the runner and the agent with their pane.
PaneProcessesEnd ==
    /\ rpc' = IF RunnerAlive THEN "gone" ELSE rpc
    /\ child' = IF ChildAlive THEN "killed" ELSE child
    /\ UNCHANGED <<rsnap, exitCode, prompted>>

-----------------------------------------------------------------------------
(* Spawning                                                                 *)

\* Up to here only this process knows the session's name.  Artifacts of an
\* earlier session of that name are removed, command and runner files written.
SpawnPrepare ==
    /\ spc = "start"
    /\ spc' = "prepared"
    /\ file' = Absent /\ output' = FALSE
    /\ command' = (mode = "runner")
    /\ UNCHANGED <<envVars, pane, ssnap, runVars, killer, lstate, obsVars>>

\* `tmux new-session`; on failure the artifacts are removed.
SpawnCreate ==
    /\ spc = "prepared"
    /\ \/ /\ pane' = LivePane(IF mode = "runner" THEN "placeholder" ELSE "live")
          /\ spc' = IF mode = "runner" THEN "session" ELSE "legacy"
          /\ UNCHANGED command
       \/ spc' = "failed" /\ command' = FALSE /\ UNCHANGED pane
    /\ UNCHANGED <<envVars, file, output, ssnap, runVars, killer, lstate,
                   obsVars>>

\* tmux_kill_session by the spawner itself.
SpawnAbort ==
    /\ spc' = "failed"
    /\ pane' = NoPane /\ file' = Absent /\ command' = FALSE /\ output' = FALSE
    /\ PaneProcessesEnd
    /\ UNCHANGED <<envVars, ssnap, killer, lstate, obsVars>>

\* Pane id, remain-on-exit and pane pid, then the first state.
SpawnConfigure ==
    /\ spc = "session"
    /\ \/ /\ HasSession
          /\ spc' = "configured"
          /\ file' = [Blank("created") EXCEPT !.agent = TRUE]
          /\ UNCHANGED <<envVars, command, output, pane, ssnap, runVars,
                         killer, lstate, obsVars>>
       \/ SpawnAbort

\* `tmux respawn-pane` starts the runner in place of the placeholder.
SpawnRespawn ==
    /\ spc = "configured"
    /\ \/ /\ HasSession
          /\ spc' = "respawned"
          /\ pane' = LivePane("live")
          /\ rpc' = "start"
          /\ UNCHANGED <<envVars, file, command, output, ssnap, rsnap, child,
                         exitCode, prompted, killer, lstate, obsVars>>
       \/ SpawnAbort

\* The respawned pane's pid is polled; then update_session_state loads ...
SpawnLoad ==
    /\ spc = "respawned"
    /\ \/ /\ HasSession
          /\ spc' = "loaded" /\ ssnap' = file
          /\ UNCHANGED <<envVars, file, command, output, pane, runVars,
                         killer, lstate, obsVars>>
       \/ SpawnAbort

\* ... and saves; only then is the name printed for others to monitor.
SpawnSave ==
    /\ spc = "loaded"
    /\ spc' = "done"
    /\ file' = WithPanePid(ssnap) /\ ssnap' = Absent
    /\ UNCHANGED <<envVars, command, output, pane, runVars, killer, lstate,
                   obsVars>>

\* _spawn_legacy types the command into the session's shell.
SpawnLegacy ==
    /\ spc = "legacy"
    /\ spc' = "done"
    /\ child' = IF HasSession THEN "alive" ELSE child
    /\ UNCHANGED <<envVars, file, command, output, pane, ssnap, rpc, rsnap,
                   exitCode, prompted, killer, lstate, obsVars>>

-----------------------------------------------------------------------------
(* The runner script.  Each write_state is a load and a save.               *)

RunnerLoad(from, to) ==
    /\ rpc = from /\ rpc' = to
    /\ rsnap' = IF file.life = "absent" THEN Blank("") ELSE file
    /\ UNCHANGED <<envVars, file, command, output, pane, spawnVars, child,
                   exitCode, prompted, killer, lstate, obsVars>>

RunnerSave(from, to, s) ==
    /\ rpc = from /\ rpc' = to
    /\ file' = s /\ rsnap' = Absent
    /\ UNCHANGED <<envVars, command, output, pane, spawnVars, child, exitCode,
                   prompted, killer, lstate, obsVars>>

RunnerLaunching ==
    \/ RunnerLoad("start", "launching")
    \/ RunnerSave("launching", "launched", Merge(rsnap, "launching", "", FALSE))

\* The command file is looked for, and the agent started in the background.
RunnerStart ==
    /\ rpc = "launched"
    /\ IF command THEN rpc' = "started" /\ child' = "alive"
                  ELSE rpc' = "missing" /\ UNCHANGED child
    /\ UNCHANGED <<envVars, file, command, output, pane, spawnVars, rsnap,
                   exitCode, prompted, killer, lstate, obsVars>>

RunnerRunning ==
    \/ RunnerLoad("started", "marking")
    \/ RunnerSave("marking", "waiting", Merge(rsnap, "running", "", TRUE))

\* `wait` returns the agent's exit code; then the final write.
RunnerFinishing ==
    \/ child = "exited" /\ RunnerLoad("waiting", "finishing")
    \/ RunnerSave("finishing", "finished",
                  Merge(rsnap, "finished", RunnerResult(exitCode), TRUE))

RunnerMissing ==
    \/ RunnerLoad("missing", "unlaunched")
    \/ RunnerSave("unlaunched", "finished",
                  Merge(rsnap, "finished", "spawn_error", FALSE))

\* The script exits with the command's code (127 without one); the pane stays,
\* dead, because remain-on-exit is on.
RunnerExit ==
    /\ rpc = "finished"
    /\ rpc' = "gone"
    /\ pane' = DeadPane(IF child = "exited" THEN exitCode ELSE 127)
    /\ UNCHANGED <<envVars, file, command, output, spawnVars, rsnap, child,
                   exitCode, prompted, killer, lstate, obsVars>>

\* Fault: a signal ends the runner's shell while it waits; the agent survives
\* it or not.
RunnerKilled ==
    /\ rpc = "waiting"
    /\ rpc' = "gone"
    /\ pane' = DeadPane(NoCode)
    /\ child' \in {child, IF ChildAlive THEN "killed" ELSE child}
    /\ UNCHANGED <<envVars, file, command, output, spawnVars, rsnap, exitCode,
                   prompted, killer, lstate, obsVars>>

\* Fault the script handles: the temporary directory loses the command file.
CommandLost ==
    /\ command /\ rpc \in {"start", "launching", "launched"}
    /\ command' = FALSE
    /\ UNCHANGED <<envVars, file, output, pane, spawnVars, runVars, killer,
                   lstate, obsVars>>

\* The agent: an interactive claude ends its turn at a prompt and stays.
AgentPrompts ==
    /\ ChildAlive /\ agent = "claude" /\ ~prompted
    /\ prompted' = TRUE
    /\ UNCHANGED <<envVars, file, command, output, pane, spawnVars, rpc, rsnap,
                   child, exitCode, killer, lstate, obsVars>>

AgentExits ==
    /\ ChildAlive
    /\ child' = "exited" /\ exitCode' \in ExitCodes
    /\ UNCHANGED <<envVars, file, command, output, pane, spawnVars, rpc, rsnap,
                   prompted, killer, lstate, obsVars>>

-----------------------------------------------------------------------------
(* Killing: tmux ends the pane's processes, then the artifacts go.          *)

KillSession ==
    /\ killer = "idle" /\ spc \notin {"start", "prepared"}
    /\ killer' = "killed"
    /\ pane' = NoPane
    /\ PaneProcessesEnd
    /\ UNCHANGED <<envVars, file, command, output, spawnVars, lstate, obsVars>>

KillCleanup ==
    /\ killer = "killed"
    /\ killer' = "done"
    /\ file' = Absent /\ command' = FALSE /\ output' = FALSE
    /\ UNCHANGED <<envVars, pane, spawnVars, runVars, lstate, obsVars>>

\* cleanup_stale_terminal_artifacts of a later spawn, once the time to live is
\* over (24 h, far beyond any monitor's timeout): a state that is not finished
\* protects the session's other files.
StaleCleanup ==
    /\ \A o \in Observers : opc[o] = "done"
    /\ spc \in {"done", "failed"} /\ file.life \in {"finished", "absent"}
    /\ \/ command \/ output \/ file.life = "finished"
    /\ file' = Absent /\ command' = FALSE /\ output' = FALSE
    /\ UNCHANGED <<envVars, pane, spawnVars, runVars, killer, lstate, obsVars>>

-----------------------------------------------------------------------------
(* Status.  An observer's poll is one call of session_status; its result is  *)
(* the session_state it returns.                                            *)

NoneAlive == [child |-> FALSE, runner |-> FALSE]

Decided == {"completed", "crashed", "stuck", "not_found"}

\* Fault: only a failure counts as a crash.
TerminalStatus_OnlyFailureCrashes(s) ==
    CASE s.result \in {"success", "unknown"} -> "completed"
      [] s.result = "never_launched" -> "stuck"
      [] OTHER -> "crashed"

TerminalStatus(s) ==
    CASE s.result = "success" -> "completed"
      [] s.result = "never_launched" -> "stuck"
      [] OTHER -> "crashed"

\* What heartbeat_check says of the status it asked for.
BeatOf(res) ==
    CASE res = "completed" -> "completed"
      [] res \in {"crashed", "stuck", "not_found"} -> "dead"
      [] OTHER -> "idle"

\* The poll returns `res`, and with it its locals go: a heartbeat is over; a
\* monitor reports what is decided and sleeps on anything else.
PollReturns(o, res) ==
    /\ opc' = [opc EXCEPT ![o] = IF o \in Beats THEN "done"
                                 ELSE IF res \in Decided THEN "report" ELSE "idle"]
    /\ verdict' = [verdict EXCEPT ![o] =
                     IF o \in Beats THEN BeatOf(res)
                     ELSE IF res \in Decided THEN res ELSE "none"]
    /\ polls' = [polls EXCEPT ![o] = @ + 1]
    /\ osnap' = [osnap EXCEPT ![o] = Absent]
    /\ opane' = [opane EXCEPT ![o] = NoPane]
    /\ oalive' = [oalive EXCEPT ![o] = NoneAlive]

PollContinues(o, to) ==
    /\ opc' = [opc EXCEPT ![o] = to]
    /\ UNCHANGED <<polls, verdict>>

\* What no step of a poll changes.
PollFrame == UNCHANGED <<envVars, command, pane, spawnVars, runVars, killer>>

RunnerExited == mode = "runner" /\ rpc = "gone" /\ killer = "idle"

\* _status_mode: without the environment's word, a state file with a schema
\* version means runner mode.
StatusMode == IF mode = "legacy" \/ file.life \in {"absent", ""}
              THEN "legacy" ELSE "load"

PollStart(o) ==
    /\ opc[o] = "idle" /\ spc = "done"
    /\ o \notin Beats /\ polls[o] < MaxPolls
    /\ PollContinues(o, StatusMode)
    /\ late' = [late EXCEPT ![o] = RunnerExited]
    /\ UNCHANGED <<file, output, osnap, opane, oalive, lstate>> /\ PollFrame

\* _legacy_heartbeat_check: a prompt on the last line, the agent below the pane's
\* process, and the load it causes.
LegacyBeat(prompt, busy) ==
    IF ~HasSession THEN "error"
    ELSE IF prompt THEN "completed"
    ELSE IF ~ChildAlive THEN "dead"
    ELSE IF busy THEN "alive" ELSE "idle"

\* heartbeat_check, up to the session_status it calls for a dead child.
HeartbeatStart(o) ==
    /\ opc[o] = "idle" /\ spc = "done" /\ o \in Beats
    /\ \/ /\ StatusMode = "legacy"
          /\ \E prompt \in BOOLEAN, busy \in BOOLEAN :
                /\ verdict' = [verdict EXCEPT ![o] = LegacyBeat(prompt, busy)]
                /\ opc' = [opc EXCEPT ![o] = "done"]
          /\ UNCHANGED polls
       \/ /\ StatusMode = "load"
          /\ IF Terminal(file) THEN
                /\ verdict' = [verdict EXCEPT ![o] =
                     IF file.result = "success" THEN "completed" ELSE "dead"]
                /\ opc' = [opc EXCEPT ![o] = "done"] /\ UNCHANGED polls
             ELSE IF file.child /\ ~ChildAlive THEN PollContinues(o, "load")
             ELSE
                /\ verdict' \in {[verdict EXCEPT ![o] = v] :
                     v \in IF file.child THEN {"alive", "idle"} ELSE {"idle"}}
                /\ opc' = [opc EXCEPT ![o] = "done"] /\ UNCHANGED polls
    /\ UNCHANGED <<file, output, osnap, opane, oalive, late, lstate>> /\ PollFrame

PollLoad(o) ==
    /\ opc[o] = "load"
    /\ CASE file.life = "absent" /\ HasSession ->
                PollContinues(o, "legacy") /\ UNCHANGED <<osnap, opane, oalive>>
         [] file.life = "absent" /\ ~HasSession -> PollReturns(o, "not_found")
         [] Terminal(file) -> PollReturns(o, TerminalStatus(file))
         [] OTHER -> /\ PollContinues(o, "pane")
                     /\ osnap' = [osnap EXCEPT ![o] = file]
                     /\ UNCHANGED <<opane, oalive>>
    /\ UNCHANGED <<file, output, late, lstate>> /\ PollFrame

PollPane(o) ==
    /\ opc[o] = "pane"
    /\ opane' = [opane EXCEPT ![o] = pane]
    /\ PollContinues(o, "pids")
    /\ UNCHANGED <<file, output, osnap, oalive, late, lstate>> /\ PollFrame

\* Which of the recorded processes are alive now.
Alive(s) == [child |-> s.child /\ ChildAlive, runner |-> s.runner /\ RunnerAlive]

PollPids(o) ==
    /\ opc[o] = "pids"
    /\ oalive' = [oalive EXCEPT ![o] = Alive(osnap[o])]
    /\ PollContinues(o, IF osnap[o].life = "running" /\ ~Alive(osnap[o]).child
                        THEN "wait" ELSE "reconcile")
    /\ UNCHANGED <<file, output, osnap, opane, late, lstate>> /\ PollFrame

\* Fault: the wait for the runner's final state has no deadline.
PollWait_NoDeadline(o) ==
    /\ opc[o] = "wait" /\ Terminal(file)
    /\ PollReturns(o, TerminalStatus(file))
    /\ UNCHANGED <<file, output, late, lstate>> /\ PollFrame

\* _wait_for_terminal_state: the last state read before the deadline; what was
\* loaded first stands in for a file that is gone.
PollWait(o) ==
    /\ opc[o] = "wait"
    /\ IF Terminal(file)
       THEN PollReturns(o, TerminalStatus(file))
       ELSE /\ PollContinues(o, "recheck")
            /\ osnap' = [osnap EXCEPT ![o] =
                            IF file.life = "absent" THEN @ ELSE file]
            /\ UNCHANGED <<opane, oalive>>
    /\ UNCHANGED <<file, output, late, lstate>> /\ PollFrame

\* _reconcile_runner_state: the pane as it was seen, the processes as they are.
\* `aged`: the state is older than the grace period.
Reconciled(s, seen, aged) ==
    IF seen.life = "dead" THEN Finish(s, ResultFromExitCode(seen.code))
    ELSE IF s.life = "running" /\ ~Alive(s).child /\ ~Alive(s).runner
         THEN Finish(s, "interrupted")
    ELSE IF s.life \in {"created", "launching"} /\ seen.life = "absent" /\ aged
         THEN Finish(s, "never_launched")
    ELSE s

PollReconcile(o) ==
    /\ opc[o] \in {"reconcile", "recheck"}
    /\ \E aged \in BOOLEAN :
         LET s == Reconciled(osnap[o], opane[o], aged) IN
         IF Terminal(s) THEN file' = s /\ PollContinues(o, "reread")
                        ELSE UNCHANGED file /\ PollContinues(o, "screen")
    /\ oalive' = [oalive EXCEPT ![o] =
                    IF opc[o] = "recheck" THEN Alive(osnap[o]) ELSE @]
    /\ UNCHANGED <<output, osnap, opane, late, lstate>> /\ PollFrame

PollReread(o) ==
    /\ opc[o] = "reread"
    /\ IF Terminal(file)
       THEN PollReturns(o, TerminalStatus(file))
       ELSE /\ PollContinues(o, "screen")
            /\ osnap' = [osnap EXCEPT ![o] = file]
            /\ UNCHANGED <<opane, oalive>>
    /\ UNCHANGED <<file, output, late, lstate>> /\ PollFrame

\* _runner_claude_prompt_completed.
PromptCompleted(s) ==
    /\ s.agent /\ agent = "claude"
    /\ s.life = "running"
    /\ prompted /\ HasSession

PollScreen(o) ==
    /\ opc[o] = "screen"
    /\ IF PromptCompleted(osnap[o])
       THEN /\ file' = Finish(osnap[o], "success")
            /\ PollContinues(o, "confirm") /\ UNCHANGED <<osnap, opane, oalive>>
       ELSE /\ UNCHANGED file
            /\ PollReturns(o,
                 IF osnap[o].life = "running" /\ oalive[o].child THEN "in_progress"
                 ELSE IF \/ osnap[o].life \in {"created", "launching"}
                         \/ oalive[o].runner
                         \/ opane[o].life # "absent"
                      THEN "just_started" ELSE "stuck")
    /\ UNCHANGED <<output, late, lstate>> /\ PollFrame

\* The state is read once more after the prompt completed it.
PollConfirm(o) ==
    /\ opc[o] = "confirm"
    /\ PollReturns(o, TerminalStatus(file))
    /\ UNCHANGED <<file, output, late, lstate>> /\ PollFrame

-----------------------------------------------------------------------------
(* Legacy status: judged from the screen.                                   *)

NoLegacyState == [polls |-> 0, active |-> FALSE, time |-> "none"]

\* What a capture of the pane shows: text at all, the completion line, signs of
\* activity, a prompt, todo boxes, the statusline's clock.
Screens == [text : BOOLEAN, done : BOOLEAN, activity : BOOLEAN,
            prompt : BOOLEAN, todos : BOOLEAN, time : Times \cup {"none"}]

CodexStatus(scr) ==
    IF scr.done THEN "completed"
    ELSE IF ChildAlive /\ scr.activity /\ ~scr.prompt THEN "in_progress"
    ELSE IF scr.prompt \/ scr.todos THEN "completed" ELSE "stuck"

\* The verdict on a silent claude: it was active once, or is still within its
\* grace, or its statusline clock has moved since the last poll.
SilentStatus(ls, scr) ==
    IF ls.active THEN "completed"
    ELSE IF ls.polls + 1 <= GracePolls THEN "just_started"
    ELSE IF scr.time \in {"none", ls.time} THEN "stuck" ELSE "just_started"

ClaudeStatus(ls, scr) ==
    IF scr.done THEN "completed"
    ELSE IF scr.activity \/ ChildAlive THEN "in_progress"
    ELSE SilentStatus(ls, scr)

\* _save_legacy_state, as the three paths of the claude status call it.
LegacySave(ls, scr) ==
    [polls |-> ls.polls + 1, time |-> scr.time,
     active |-> ls.active \/ scr.done \/ scr.activity \/ ChildAlive]

PollLegacy(o) ==
    /\ opc[o] = "legacy"
    /\ \E scr \in Screens :
         CASE ~HasSession ->
                PollReturns(o, "not_found") /\ UNCHANGED output
                /\ lstate' = IF agent = "claude" THEN NoLegacyState ELSE lstate
           [] HasSession /\ agent = "codex" ->
                /\ PollReturns(o, CodexStatus(scr))
                /\ output' = (output \/ CodexStatus(scr) # "in_progress")
                /\ UNCHANGED lstate
           [] HasSession /\ agent = "claude" /\ pane.life = "dead" /\ pane.code # 0 ->
                PollReturns(o, "crashed") /\ output' = TRUE
                /\ lstate' = NoLegacyState
           [] HasSession /\ agent = "claude" /\ ~(pane.life = "dead" /\ pane.code # 0) ->
                /\ UNCHANGED output
                /\ IF ~scr.text THEN PollReturns(o, "error") /\ UNCHANGED lstate
                   ELSE /\ PollReturns(o, ClaudeStatus(lstate, scr))
                        /\ lstate' = LegacySave(lstate, scr)
    /\ UNCHANGED <<file, late>> /\ PollFrame

-----------------------------------------------------------------------------
(* cmd_monitor_session around the polls.                                    *)

\* verify_or_create_output: the file that is there, or a capture of the pane.
Exported == output \/ HasSession

\* A decided session: its output is exported, a completed one's workflow is
\* verified, and the monitor returns.
MonitorReport(o) ==
    /\ opc[o] = "report"
    /\ opc' = [opc EXCEPT ![o] = "done"]
    /\ verdict' \in {[verdict EXCEPT ![o] = v] :
          v \in IF verdict[o] = "completed" THEN {"completed", "incomplete"}
                                            ELSE {verdict[o]}}
    /\ output' = IF verdict[o] = "not_found" THEN output ELSE Exported
    /\ UNCHANGED <<file, polls, osnap, opane, oalive, late, lstate>> /\ PollFrame

\* The polls are used up, or the clock has passed --timeout.
MonitorTimeout(o) ==
    /\ opc[o] = "idle" /\ spc = "done" /\ o \notin Beats
    /\ opc' = [opc EXCEPT ![o] = "done"]
    /\ verdict' = [verdict EXCEPT ![o] = "timeout"]
    /\ output' = IF polls[o] = MaxPolls THEN Exported ELSE output
    /\ UNCHANGED <<file, polls, osnap, opane, oalive, late, lstate>> /\ PollFrame

-----------------------------------------------------------------------------
Init ==
    /\ mode \in {"runner", "legacy"} /\ agent \in {"claude", "codex"}
    /\ file = Absent /\ command = FALSE /\ output = FALSE
    /\ pane = NoPane
    /\ spc = "start" /\ ssnap = Absent
    /\ rpc = "none" /\ rsnap = Absent
    /\ child = "none" /\ exitCode = NoCode /\ prompted = FALSE
    /\ killer = "idle" /\ lstate = NoLegacyState
    /\ opc = [o \in Observers |-> "idle"]
    /\ polls = [o \in Observers |-> 0]
    /\ osnap = [o \in Observers |-> Absent]
    /\ opane = [o \in Observers |-> NoPane]
    /\ oalive = [o \in Observers |-> NoneAlive]
    /\ verdict = [o \in Observers |-> "none"]
    /\ late = [o \in Observers |-> FALSE]

Spawn == SpawnPrepare \/ SpawnCreate \/ SpawnConfigure \/ SpawnRespawn
         \/ SpawnLoad \/ SpawnSave \/ SpawnLegacy
Run == RunnerLaunching \/ RunnerStart \/ RunnerRunning \/ RunnerFinishing
       \/ RunnerMissing \/ RunnerExit
Poll(o) == PollStart(o) \/ HeartbeatStart(o) \/ PollLoad(o) \/ PollPane(o)
           \/ PollPids(o) \/ PollWait(o) \/ PollReconcile(o) \/ PollReread(o)
           \/ PollScreen(o) \/ PollConfirm(o) \/ PollLegacy(o)
           \/ MonitorReport(o) \/ MonitorTimeout(o)
Environment == RunnerKilled \/ CommandLost \/ AgentPrompts \/ AgentExits
               \/ KillSession \/ KillCleanup \/ StaleCleanup

Next == Spawn \/ Run \/ (\E o \in Observers : Poll(o)) \/ Environment

\* The processes of the tool are scheduled; the agent, the user who kills the
\* session and faults owe nothing.
Fairness == /\ WF_vars(Spawn) /\ WF_vars(Run)
            /\ \A o \in Observers : WF_vars(Poll(o))

Spec == Init /\ [][Next]_vars /\ Fairness
=============================================================================
