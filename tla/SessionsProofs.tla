--------------------------- MODULE SessionsProofs ---------------------------
(***************************************************************************)
(* The programs that drive an agent's session, for any processes that      *)
(* observe it, exit codes, evals and threads: what is said or recorded of  *)
(* a tmux session is true of it, and evals are graded on their own files.  *)
(***************************************************************************)
EXTENDS TmuxProperties, EvalRun, FiniteSetTheorems, TLAPS

-----------------------------------------------------------------------------
(* A tmux session: the inductive invariant.                                *)

SpawnSteps == {"start", "prepared", "session", "configured", "respawned", "loaded",
               "legacy", "done", "failed"}
RunSteps == {"none", "start", "launching", "launched", "started", "marking", "waiting",
             "finishing", "missing", "unlaunched", "finished", "gone"}
PollSteps == {"load", "pane", "pids", "wait", "reconcile", "recheck", "reread", "screen",
              "confirm", "legacy"}
Verdicts == {"none", "completed", "incomplete", "crashed", "stuck", "not_found", "timeout",
             "dead", "idle", "alive", "error"}

TmuxTypes ==
    /\ TypeOK
    /\ spc \in SpawnSteps /\ rpc \in RunSteps /\ killer \in {"idle", "killed", "done"}
    /\ opc \in [Observers -> PollSteps \cup {"idle", "report", "done"}]
    /\ verdict \in [Observers -> Verdicts] /\ late \in [Observers -> BOOLEAN]
    /\ lstate.polls \in Nat

\* Where spawner and runner are, and with them the agent and the pane.
PhaseInv ==
    /\ mode = "runner" => spc # "legacy"
    /\ spc \in {"start", "prepared"} => pane = NoPane /\ killer = "idle"
    /\ spc \in {"start", "prepared", "session", "configured"} => rpc = "none"
    /\ (rpc = "none" /\ mode = "runner") \/ spc \in {"start", "prepared", "legacy"}
         \/ rpc \in {"start", "launching", "launched", "missing", "unlaunched"} => child = "none"
    /\ rpc = "finishing" => child = "exited"
    /\ rpc = "finished" => child \in {"none", "exited"}
    /\ (child = "exited") <=> (exitCode # NoCode)
    /\ RunnerAlive => pane.life = "live"
    /\ killer # "idle" => ~HasSession
    /\ spc \in {"respawned", "loaded", "done"} /\ rpc = "gone" /\ killer = "idle" =>
         pane.life = "dead"

\* A session in legacy mode has no state file.
LegacyInv ==
    mode = "legacy" =>
        /\ spc \in {"start", "prepared", "legacy", "done", "failed"}
        /\ rpc = "none" /\ file = Absent
        /\ \A o \in Observers : opc[o] \in {"idle", "legacy", "report", "done"}

\* What a dead pane tells.
PaneTrue(p) ==
    p.life = "dead" =>
        /\ rpc = "gone"
        /\ \/ p.code = NoCode
           \/ child = "exited" /\ p.code = exitCode
           \/ child = "none" /\ p.code = 127

\* What a state says, wherever it is held, is true.
ResultTrue(r) ==
    \/ child = "exited" /\ r = RunnerResult(exitCode)
    \/ r = "success" /\ prompted
    \/ r = "spawn_error" /\ child = "none" /\ rpc \in {"finished", "gone"}
Honest(s) ==
    /\ s.life # "finished" => s.result = ""
    /\ s.result \in {"success", "failure", "spawn_error"} => ResultTrue(s.result)
    /\ s.result = "never_launched" => ~HasSession /\ spc = "done"

HonestInv ==
    /\ Honest(file) /\ Honest(ssnap) /\ Honest(rsnap)
    /\ PaneTrue(pane)
    /\ \A o \in Observers : Honest(osnap[o]) /\ PaneTrue(opane[o])

\* While there is a session to observe, its state file has a lifecycle.
FileInv ==
    /\ spc = "loaded" => ssnap.life \notin {"absent", ""}
    /\ HasSession /\ mode = "runner" /\ spc \in {"configured", "respawned", "loaded"} =>
         file.life \notin {"absent", ""}
    /\ HasSession /\ mode = "runner" /\ spc = "done" =>
         file.life \notin {"absent", ""} \/ \A o \in Observers : opc[o] = "done"

\* A poll that began after the runner had exited, unless the session was killed.
LateOK(o) ==
    late[o] /\ killer = "idle" =>
        /\ mode = "runner" /\ rpc = "gone" /\ spc = "done" /\ o \notin Beats
        /\ opc[o] \in {"load", "pane", "pids", "wait", "reconcile", "recheck", "reread",
                       "report", "done"}
        /\ opc[o] \in {"pids", "wait", "reconcile", "recheck"} => opane[o].life = "dead"
        /\ opc[o] = "reread" => Terminal(file)

PollOK(o) ==
    /\ opc[o] # "idle" \/ verdict[o] # "none" => spc = "done"
    /\ opc[o] \in PollSteps => polls[o] < MaxPolls
    /\ opc[o] = "idle" /\ o \in Beats => polls[o] = 0
    /\ opc[o] = "legacy" => IF mode = "runner" THEN ~HasSession ELSE o \notin Beats
    /\ opc[o] \in PollSteps \ {"load", "pane", "legacy"} /\ opane[o].life = "absent" =>
         ~HasSession

VerdictOK(o) ==
    /\ mode = "runner" /\ verdict[o] \in {"completed", "incomplete"} => exitCode = 0 \/ prompted
    /\ mode = "runner" /\ verdict[o] = "stuck" => ~HasSession

PatientOK(o) ==
    mode = "legacy" /\ agent = "claude" /\ Monitors = {o} =>
        /\ lstate.polls <= polls[o]
        /\ verdict[o] = "stuck" => polls[o] > GracePolls

ObserverOK(o) == PollOK(o) /\ VerdictOK(o) /\ LateOK(o) /\ PatientOK(o)
ObserversInv == \A o \in Observers : ObserverOK(o)

TmuxInv ==
    TmuxTypes /\ PhaseInv /\ LegacyInv /\ HonestInv /\ FileInv /\ ObserversInv

-----------------------------------------------------------------------------
(* What no step takes back.                                                *)
Forward ==
    /\ UNCHANGED <<mode, agent>>
    /\ child = "exited" => UNCHANGED <<child, exitCode>>
    /\ prompted => prompted'
    /\ child = "none" /\ rpc \in {"finished", "gone"} =>
         child' = "none" /\ rpc' \in {"finished", "gone"}
    /\ rpc = "gone" => rpc' = "gone"
    /\ spc = "done" => spc' = "done"
    /\ spc = "done" /\ ~HasSession => ~HasSession'
    /\ killer # "idle" => killer' # "idle"
    /\ rpc = "gone" /\ spc = "done" /\ killer' = "idle" /\ Terminal(file) =>
         Terminal(file') \/ \A o \in Observers : opc[o] = "done"

\* finish_session_state makes a terminal state of any other.
LEMMA FinishShape ==
    ASSUME NEW s \in States, NEW r \in Results
    PROVE  /\ Finish(s, r) \in States /\ Terminal(Finish(s, r))
           /\ Finish(s, r).life = "finished" /\ Finish(s, r).result = r
  BY DEF Finish, States, Lifecycles, Terminal

\* No step of the spawner takes back what has happened.
LEMMA SpawnForward == ASSUME TmuxTypes, PhaseInv, LegacyInv, Spawn PROVE Forward
<1>1. CASE SpawnPrepare \/ SpawnCreate \/ SpawnSave
  <2>1. /\ UNCHANGED <<mode, agent, rpc, child, exitCode, prompted, killer>>
        /\ spc \in {"start", "prepared", "loaded"}
    BY <1>1 DEF SpawnPrepare, SpawnCreate, SpawnSave, envVars, runVars
  <2> QED  BY <2>1 DEF Forward
<1>2. ASSUME SpawnAbort, spc \in {"session", "configured", "respawned"} PROVE Forward
  BY <1>2 DEF PhaseInv, SpawnAbort, PaneProcessesEnd, Forward, RunnerAlive, ChildAlive,
              HasSession, NoPane, envVars
<1>3. CASE SpawnConfigure \/ SpawnRespawn \/ SpawnLoad
  BY <1>2, <1>3 DEF PhaseInv, SpawnConfigure, SpawnRespawn, SpawnLoad, Forward, HasSession,
                    envVars, runVars, obsVars
<1>4. CASE SpawnLegacy
  <2>1. /\ spc = "legacy" /\ UNCHANGED <<mode, agent, pane, rpc, exitCode, prompted, killer>>
    BY <1>4 DEF SpawnLegacy, envVars
  <2>2. mode = "legacy"
    BY <2>1 DEF TmuxTypes, TypeOK, PhaseInv
  <2>3. rpc = "none" /\ child = "none"
    BY <2>1, <2>2 DEF PhaseInv, LegacyInv
  <2> QED  BY <2>1, <2>3 DEF Forward
<1> QED  BY <1>1, <1>3, <1>4, Zenon DEF Spawn

\* Nor does a step of the runner,
LEMMA RunForward == ASSUME PhaseInv, Run PROVE Forward
<1>3. CASE RunnerLaunching \/ RunnerRunning \/ RunnerFinishing \/ RunnerMissing
  <2>1. /\ UNCHANGED <<mode, agent, pane, spc, child, exitCode, prompted, killer>>
        /\ rpc \notin {"gone", "finished"}
    BY <1>3 DEF RunnerLaunching, RunnerRunning, RunnerFinishing, RunnerMissing, RunnerLoad,
                RunnerSave, envVars, spawnVars
  <2> QED  BY <2>1 DEF Forward, HasSession
<1>4. CASE RunnerStart \/ RunnerExit
  BY <1>4 DEF PhaseInv, RunnerStart, RunnerExit, Forward, HasSession, RunnerAlive, DeadPane,
              envVars, spawnVars, obsVars
<1> QED  BY <1>3, <1>4 DEF Run

\* nor one of the agent, the pane or the killer,
LEMMA EnvironmentForward == ASSUME PhaseInv, Environment PROVE Forward
<1>1. CASE RunnerKilled
  BY <1>1 DEF PhaseInv, RunnerKilled, Forward, HasSession, RunnerAlive, ChildAlive, DeadPane,
              envVars, spawnVars, obsVars
<1>2. CASE CommandLost \/ AgentPrompts \/ AgentExits
  BY <1>2 DEF CommandLost, AgentPrompts, AgentExits, ChildAlive, Forward, HasSession,
              envVars, spawnVars, runVars, obsVars
<1>3. CASE KillSession
  BY <1>3 DEF KillSession, PaneProcessesEnd, ChildAlive, RunnerAlive, Forward, HasSession,
              NoPane, envVars, spawnVars, obsVars
<1>4. CASE KillCleanup \/ StaleCleanup
  BY <1>4 DEF KillCleanup, StaleCleanup, Forward, HasSession, envVars, spawnVars, runVars,
              obsVars
<1> QED  BY <1>1, <1>2, <1>3, <1>4 DEF Environment

(* An observer changes the state file, and only to finish it.              *)
LEMMA PollForward ==
    ASSUME TmuxTypes, NEW o \in Observers, Poll(o)
    PROVE  /\ Forward /\ PollFrame
           /\ file' = file \/ Terminal(file')
<1>1. CASE PollStart(o) \/ HeartbeatStart(o) \/ PollLoad(o) \/ PollPane(o) \/ PollPids(o)
           \/ PollWait(o) \/ PollReread(o) \/ PollConfirm(o) \/ PollLegacy(o)
           \/ MonitorReport(o) \/ MonitorTimeout(o)
  <2>1. PollFrame /\ UNCHANGED file
    BY <1>1 DEF PollStart, HeartbeatStart, PollLoad, PollPane, PollPids, PollWait, PollReread,
                PollConfirm, PollLegacy, MonitorReport, MonitorTimeout
  <2> QED  BY <2>1 DEF PollFrame, Forward, HasSession, envVars, spawnVars, runVars
<1>2. CASE PollReconcile(o)
  <2>1. PollFrame /\ (file' = file \/ Terminal(file'))
    BY <1>2 DEF PollReconcile
  <2> QED  BY <2>1 DEF PollFrame, Forward, HasSession, envVars, spawnVars, runVars
<1>3. CASE PollScreen(o)
  <2>1. PollFrame /\ (file' = file \/ file' = Finish(osnap[o], "success"))
    BY <1>3 DEF PollScreen
  <2>2. osnap[o] \in States
    BY DEF TmuxTypes, TypeOK
  <2>3. file' = file \/ Terminal(file')
    <3>1. "success" \in Results
      BY DEF Results
    <3>2. Terminal(Finish(osnap[o], "success"))
      BY <2>2, <3>1, FinishShape
    <3>3. file' = Finish(osnap[o], "success") => Terminal(file')
      BY <3>2 DEF Terminal
    <3> QED  BY <2>1, <3>3
  <2> QED  BY <2>1, <2>3 DEF PollFrame, Forward, HasSession, envVars, spawnVars, runVars
<1> QED  BY <1>1, <1>2, <1>3 DEF Poll

\* so no step of the system does.
LEMMA TmuxForward == ASSUME TmuxInv, [Next]_vars PROVE Forward
<1>1. CASE UNCHANGED vars
  BY <1>1 DEF Forward, HasSession, vars, envVars, spawnVars, runVars
<1> QED  BY <1>1, SpawnForward, RunForward, EnvironmentForward, PollForward DEF Next, TmuxInv

(* So what is true of the agent stays true.                                *)
LEMMA HonestStays ==
    ASSUME PhaseInv, Forward, NEW s, Honest(s) PROVE Honest(s)'
  BY DEF PhaseInv, Forward, Honest, ResultTrue

\* A pane that tells the truth goes on telling it.
LEMMA PaneTrueStays ==
    ASSUME PhaseInv, Forward, NEW p, PaneTrue(p) PROVE PaneTrue(p)'
  BY DEF PhaseInv, Forward, PaneTrue

-----------------------------------------------------------------------------
(* States and panes.                                                       *)

\* A state just created claims nothing.
LEMMA BlankShape ==
    ASSUME NEW life \in Lifecycles \ {"finished"}
    PROVE  /\ Blank(life) \in States /\ Blank(life).life = life /\ Blank(life).result = ""
           /\ Honest(Blank(life)) /\ Honest(Blank(life))'
  BY DEF Blank, States, Lifecycles, Results, Honest

\* Nor does a missing file or pane.
LEMMA AbsentShape ==
    /\ Absent \in States /\ Absent.life = "absent" /\ Absent.result = ""
    /\ Honest(Absent) /\ Honest(Absent)'
    /\ NoPane \in Panes /\ NoPane.life = "absent" /\ PaneTrue(NoPane) /\ PaneTrue(NoPane)'
<1>1. "absent" \in Lifecycles \ {"finished"}
  BY DEF Lifecycles
<1>2. /\ Absent \in States /\ Absent.life = "absent" /\ Absent.result = ""
      /\ Honest(Absent) /\ Honest(Absent)'
  BY <1>1, BlankShape DEF Absent
<1> QED  BY <1>2 DEF NoPane, Panes, PaneTrue

\* What the runner and a reader of the pane make of an exit code agrees.
LEMMA Codes ==
    /\ NoCode \notin ExitCodes /\ NoCode # 127 /\ NoCode # 0
    /\ \A c : c # NoCode => ResultFromExitCode(c) = RunnerResult(c)
    /\ ResultFromExitCode(NoCode) = "unknown"
    /\ \A c : RunnerResult(c) \in Results \ {"", "unknown", "never_launched"}
    /\ \A c : RunnerResult(c) = "success" => c = 0
    /\ RunnerResult(127) = "spawn_error"
<1>1. NoCode \notin ExitCodes /\ NoCode # 127 /\ NoCode # 0
  BY TmuxAssumption DEF NoCode
<1>2. \A c : c # NoCode => ResultFromExitCode(c) = RunnerResult(c)
  BY DEF ResultFromExitCode, RunnerResult
<1>3. ResultFromExitCode(NoCode) = "unknown"
  BY DEF ResultFromExitCode, NoCode
<1>4. \A c : RunnerResult(c) \in Results \ {"", "unknown", "never_launched"}
  BY DEF RunnerResult, Results
<1>5. \A c : RunnerResult(c) = "success" => c = 0
  BY DEF RunnerResult
<1>6. RunnerResult(127) = "spawn_error"
  BY DEF RunnerResult
<1> QED  BY <1>1, <1>2, <1>3, <1>4, <1>5, <1>6

-----------------------------------------------------------------------------
(* Who copies a state or a pane copies what is true of it.                 *)
LEMMA HonestKeeps ==
    ASSUME PhaseInv, Forward, HonestInv,
           file' = file \/ Honest(file)',
           ssnap' \in {ssnap, file, Absent}, rsnap' \in {rsnap, file, Blank(""), Absent},
           PaneTrue(pane)',
           \A o \in Observers : /\ osnap'[o] \in {osnap[o], file, Absent}
                                /\ opane'[o] \in {opane[o], pane, NoPane}
    PROVE  HonestInv'
<1>1. \A s : Honest(s) => Honest(s)'
  BY HonestStays
<1>2. \A p : PaneTrue(p) => PaneTrue(p)'
  BY PaneTrueStays
<1>3. Honest(Blank("")) /\ Honest(Absent)
  BY BlankShape, AbsentShape DEF Lifecycles
<1>4. Honest(file)' /\ Honest(ssnap)' /\ Honest(rsnap)'
  <2>1. ASSUME NEW s, Honest(s), s = file' PROVE Honest(file)'
    <3>1. Honest(s)'
      BY <2>1, <1>1
    <3> QED  BY <2>1, <3>1 DEF Honest, ResultTrue
  <2>2. ASSUME NEW s, Honest(s), s = ssnap' PROVE Honest(ssnap)'
    <3>1. Honest(s)'
      BY <2>2, <1>1
    <3> QED  BY <2>2, <3>1 DEF Honest, ResultTrue
  <2>3. ASSUME NEW s, Honest(s), s = rsnap' PROVE Honest(rsnap)'
    <3>1. Honest(s)'
      BY <2>3, <1>1
    <3> QED  BY <2>3, <3>1 DEF Honest, ResultTrue
  <2>4. Honest(file) /\ Honest(ssnap) /\ Honest(rsnap)
    BY DEF HonestInv
  <2> QED  BY <1>3, <2>1, <2>2, <2>3, <2>4
<1>6. ASSUME NEW o \in Observers PROVE Honest(osnap[o])' /\ PaneTrue(opane[o])'
  <2>1. ASSUME NEW s, Honest(s), s = osnap'[o] PROVE Honest(osnap[o])'
    <3>1. Honest(s)'
      BY <2>1, <1>1
    <3> QED  BY <2>1, <3>1 DEF Honest, ResultTrue
  <2>2. ASSUME NEW p, PaneTrue(p), p = opane'[o] PROVE PaneTrue(opane[o])'
    <3>1. PaneTrue(p)'
      BY <2>2, <1>2
    <3> QED  BY <2>2, <3>1 DEF PaneTrue
  <2>3. Honest(file) /\ Honest(osnap[o]) /\ PaneTrue(pane) /\ PaneTrue(opane[o])
    BY DEF HonestInv
  <2> QED  BY <1>3, <2>1, <2>2, <2>3, AbsentShape
<1> QED  BY <1>4, <1>6 DEF HonestInv

(* What an observer holds and has said stays true while it does nothing.   *)
LEMMA ObserverStays ==
    ASSUME PhaseInv, Forward, NEW q \in Observers, ObserverOK(q),
           UNCHANGED <<opc[q], polls[q], opane[q], verdict[q], late[q]>>,
           lstate' = lstate \/ mode = "runner" \/ Monitors # {q}
    PROVE  ObserverOK(q)'
<1>1. PollOK(q)'
  BY DEF ObserverOK, PollOK, PollSteps, Forward
<1>2. VerdictOK(q)'
  BY ZenonT(60), Codes DEF ObserverOK, PollOK, VerdictOK, Forward, PhaseInv
<1>3. LateOK(q)'
  BY DEF ObserverOK, LateOK, Forward
<1>4. PatientOK(q)'
  BY DEF ObserverOK, PatientOK, Forward, Monitors
<1> QED  BY <1>1, <1>2, <1>3, <1>4 DEF ObserverOK

(* A step of the spawner, the runner or the environment.                   *)
LEMMA DriverStep ==
    ASSUME TmuxInv, Forward, UNCHANGED <<obsVars, lstate>>,
           file' \in States, pane' \in Panes,
           child' \in {"none", "alive", "exited", "killed"},
           exitCode' \in ExitCodes \cup {NoCode}, prompted' \in BOOLEAN,
           spc' \in SpawnSteps, rpc' \in RunSteps, killer' \in {"idle", "killed", "done"},
           file' = file \/ Honest(file)',
           ssnap' \in {ssnap, file, Absent}, rsnap' \in {rsnap, file, Blank(""), Absent},
           PaneTrue(pane)', PhaseInv', LegacyInv', FileInv'
    PROVE  TmuxInv'
<1>1. UNCHANGED <<opc, polls, osnap, opane, oalive, verdict, late, lstate, mode, agent>>
  BY DEF obsVars, Forward
<1>2. TmuxTypes'
  <2>1. ssnap' \in States /\ rsnap' \in States
    BY BlankShape, AbsentShape DEF TmuxInv, TmuxTypes, TypeOK, Lifecycles
  <2> QED  BY <1>1, <2>1 DEF TmuxInv, TmuxTypes, TypeOK
<1>3. HonestInv'
  BY <1>1, HonestKeeps DEF TmuxInv
<1>4. ObserversInv'
  BY <1>1, ObserverStays DEF TmuxInv, ObserversInv
<1> QED  BY <1>2, <1>3, <1>4 DEF TmuxInv

-----------------------------------------------------------------------------
(* The initial states and the spawner.                                     *)
LEMMA InitTmux == ASSUME Init PROVE TmuxInv
<1>1. TmuxTypes
  <2>1. NoneAlive \in [child : BOOLEAN, runner : BOOLEAN]
    BY DEF NoneAlive
  <2>2. 0 \in 0..MaxPolls
    BY TmuxAssumption
  <2> QED  BY <2>1, <2>2, AbsentShape
           DEF Init, TmuxTypes, TypeOK, SpawnSteps, RunSteps, PollSteps, Verdicts, NoLegacyState
<1>2. PhaseInv
  BY AbsentShape DEF Init, PhaseInv, RunnerAlive, HasSession
<1>3. LegacyInv /\ FileInv
  BY DEF Init, LegacyInv, FileInv
<1>4. HonestInv
  BY AbsentShape DEF Init, HonestInv
<1>5. ObserversInv
  BY TmuxAssumption
     DEF Init, ObserversInv, ObserverOK, PollOK, VerdictOK, LateOK, PatientOK, PollSteps,
         NoLegacyState
<1> QED  BY <1>1, <1>2, <1>3, <1>4, <1>5 DEF TmuxInv

\* A spawn that gives up leaves no file and no pane.
LEMMA AbortKeeps ==
    ASSUME TmuxInv, mode # "legacy",
           spc \in {"session", "configured", "respawned"}, SpawnAbort, Forward
    PROVE  TmuxInv'
<1>1. /\ spc' = "failed" /\ pane' = NoPane /\ file' = Absent
      /\ rpc' = IF RunnerAlive THEN "gone" ELSE rpc
      /\ child' = IF ChildAlive THEN "killed" ELSE child
      /\ UNCHANGED <<mode, agent, ssnap, rsnap, exitCode, prompted, killer, lstate, obsVars>>
  BY DEF SpawnAbort, PaneProcessesEnd, envVars
<1>2. /\ rpc' \in RunSteps /\ child' \in {"none", "alive", "exited", "killed"}
      /\ spc' \in SpawnSteps /\ ~RunnerAlive' /\ ~HasSession'
      /\ rpc' \in {"none", "gone"} /\ (rpc' = "none" => rpc = "none")
  BY <1>1, AbsentShape DEF TmuxInv, TmuxTypes, TypeOK, RunSteps, SpawnSteps, RunnerAlive, HasSession
<1>3. PhaseInv'
  BY <1>1, <1>2, AbsentShape DEF TmuxInv, PhaseInv, ChildAlive
<1>4. LegacyInv' /\ FileInv'
  BY <1>1, <1>2 DEF TmuxInv, LegacyInv, FileInv
<1>5. Honest(file)' /\ PaneTrue(pane)'
  BY <1>1, AbsentShape DEF Honest, PaneTrue
<1>6. file' \in States /\ pane' \in Panes /\ UNCHANGED <<obsVars, lstate>>
      /\ exitCode' \in ExitCodes \cup {NoCode} /\ prompted' \in BOOLEAN
      /\ killer' \in {"idle", "killed", "done"}
  BY <1>1, AbsentShape DEF TmuxInv, TmuxTypes, TypeOK
<1> QED  BY <1>1, <1>2, <1>3, <1>4, <1>5, <1>6, DriverStep

\* Every step of the spawner keeps the invariant.
LEMMA SpawnKeeps == ASSUME TmuxInv, Spawn, Forward PROVE TmuxInv'
<1>0. /\ TmuxTypes /\ TypeOK /\ PhaseInv /\ LegacyInv /\ FileInv /\ PaneTrue(pane)
      /\ file \in States /\ ssnap \in States /\ pane \in Panes
  BY DEF TmuxInv, TmuxTypes, TypeOK, HonestInv
<1>1. CASE SpawnPrepare
  <2>1. /\ spc = "start" /\ spc' = "prepared" /\ file' = Absent
        /\ UNCHANGED <<mode, agent, pane, ssnap, rpc, rsnap, child, exitCode, prompted, killer,
                       lstate, obsVars>>
    BY <1>1 DEF SpawnPrepare, envVars, runVars
  <2>2. PhaseInv' /\ LegacyInv' /\ FileInv'
    BY <1>0, <2>1 DEF PhaseInv, LegacyInv, FileInv, RunnerAlive, HasSession, obsVars
  <2>3. Honest(file)' /\ PaneTrue(pane)' /\ file' \in States
    BY <1>0, <2>1, AbsentShape DEF Honest, PaneTrue
  <2> QED  BY <1>0, <2>1, <2>2, <2>3, DriverStep DEF TmuxTypes, TypeOK, SpawnSteps
<1>2. CASE SpawnCreate
  <2>1. /\ spc = "prepared"
        /\ \/ /\ pane' = LivePane(IF mode = "runner" THEN "placeholder" ELSE "live")
              /\ spc' = IF mode = "runner" THEN "session" ELSE "legacy"
           \/ spc' = "failed" /\ UNCHANGED pane
        /\ UNCHANGED <<mode, agent, file, ssnap, rpc, rsnap, child, exitCode, prompted, killer,
                       lstate, obsVars>>
    BY <1>2 DEF SpawnCreate, envVars, runVars
  <2>2. pane' \in Panes /\ pane'.life # "dead"
    <3>1. pane = NoPane
      BY <1>0, <2>1 DEF PhaseInv
    <3>2. \A l \in {"placeholder", "live"} : LivePane(l) \in Panes /\ LivePane(l).life = l
      BY DEF LivePane, Panes
    <3> QED  BY <1>0, <2>1, <3>1, <3>2, AbsentShape
  <2>3. PhaseInv' /\ LegacyInv' /\ FileInv'
    BY <1>0, <2>1 DEF PhaseInv, LegacyInv, FileInv, RunnerAlive, HasSession, obsVars
  <2>4. PaneTrue(pane)'
    BY <2>2 DEF PaneTrue
  <2>5. spc' \in SpawnSteps
    BY <2>1 DEF SpawnSteps
  <2> QED  BY <1>0, <2>1, <2>2, <2>3, <2>4, <2>5, DriverStep DEF TmuxTypes, TypeOK
<1>3. CASE SpawnConfigure
  <2>0. mode # "legacy" /\ spc = "session"
    BY <1>0, <1>3 DEF LegacyInv, SpawnConfigure
  <2>1. CASE SpawnAbort
    BY <2>0, <2>1, AbortKeeps
  <2>2. CASE /\ spc' = "configured" /\ file' = [Blank("created") EXCEPT !.agent = TRUE]
             /\ UNCHANGED <<mode, agent, pane, ssnap, rpc, rsnap, child, exitCode, prompted,
                            killer, lstate, obsVars>>
    <3>1. file' \in States /\ file'.life = "created" /\ file'.result = ""
      BY <2>2 DEF Blank, States, Lifecycles, Results
    <3>2. PhaseInv' /\ LegacyInv' /\ FileInv'
      BY <1>0, <2>0, <2>2, <3>1 DEF PhaseInv, LegacyInv, FileInv, RunnerAlive, HasSession, obsVars
    <3>3. Honest(file)' /\ PaneTrue(pane)'
      BY <1>0, <2>2, <3>1 DEF Honest, PaneTrue
    <3> QED  BY <1>0, <2>2, <3>1, <3>2, <3>3, DriverStep DEF TmuxTypes, TypeOK, SpawnSteps
  <2> QED  BY <1>3, <2>1, <2>2 DEF SpawnConfigure, envVars, runVars
<1>4. CASE SpawnRespawn
  <2>0. mode # "legacy" /\ spc = "configured"
    BY <1>0, <1>4 DEF LegacyInv, SpawnRespawn
  <2>1. CASE SpawnAbort
    BY <2>0, <2>1, AbortKeeps
  <2>2. CASE /\ HasSession /\ spc' = "respawned" /\ pane' = LivePane("live") /\ rpc' = "start"
             /\ UNCHANGED <<mode, agent, file, ssnap, rsnap, child, exitCode, prompted,
                            killer, lstate, obsVars>>
    <3>1. pane' \in Panes /\ pane'.life = "live"
      BY <2>2 DEF LivePane, Panes
    <3>2. killer = "idle" /\ child = "none" /\ rpc = "none"
      BY <1>0, <2>0, <2>2 DEF PhaseInv, TypeOK
    <3>3. PhaseInv'
      BY <1>0, <2>2, <3>1, <3>2 DEF PhaseInv, RunnerAlive, HasSession
    <3>4. LegacyInv' /\ FileInv'
      BY <1>0, <2>0, <2>2 DEF LegacyInv, FileInv, HasSession, obsVars
    <3>5. PaneTrue(pane)'
      BY <3>1 DEF PaneTrue
    <3> QED  BY <1>0, <2>2, <3>1, <3>3, <3>4, <3>5, DriverStep
             DEF TmuxTypes, TypeOK, SpawnSteps, RunSteps
  <2> QED  BY <1>4, <2>1, <2>2 DEF SpawnRespawn, envVars, runVars
<1>5. CASE SpawnLoad
  <2>0. mode # "legacy" /\ spc = "respawned"
    BY <1>0, <1>5 DEF LegacyInv, SpawnLoad
  <2>1. CASE SpawnAbort
    BY <2>0, <2>1, AbortKeeps
  <2>2. CASE /\ HasSession /\ spc' = "loaded" /\ ssnap' = file
             /\ UNCHANGED <<mode, agent, file, pane, rpc, rsnap, child, exitCode, prompted,
                            killer, lstate, obsVars>>
    <3>1. file.life \notin {"absent", ""}
      BY <1>0, <2>0, <2>2 DEF FileInv, TypeOK
    <3>2. PhaseInv'
      BY <1>0, <2>0, <2>2 DEF PhaseInv, RunnerAlive, HasSession
    <3>3. LegacyInv' /\ FileInv'
      BY <1>0, <2>0, <2>2, <3>1 DEF LegacyInv, FileInv, HasSession, obsVars
    <3>4. PaneTrue(pane)'
      BY <1>0, <2>2 DEF PaneTrue
    <3> QED  BY <1>0, <2>2, <3>2, <3>3, <3>4, DriverStep DEF TmuxTypes, TypeOK, SpawnSteps
  <2> QED  BY <1>5, <2>1, <2>2 DEF SpawnLoad, envVars, runVars
<1>6. CASE SpawnSave
  <2>1. /\ spc = "loaded" /\ spc' = "done" /\ file' = WithPanePid(ssnap) /\ ssnap' = Absent
        /\ UNCHANGED <<mode, agent, pane, rpc, rsnap, child, exitCode, prompted,
                       killer, lstate, obsVars>>
    BY <1>6 DEF SpawnSave, envVars, runVars
  <2>2. file' = ssnap /\ ssnap.life \notin {"absent", ""}
    BY <1>0, <2>1 DEF FileInv, WithPanePid
  <2>3. PhaseInv'
    BY <1>0, <2>1 DEF PhaseInv, RunnerAlive, HasSession
  <2>4. LegacyInv' /\ FileInv'
    BY <1>0, <2>1, <2>2 DEF LegacyInv, FileInv, HasSession, obsVars
  <2>5. Honest(file)' /\ PaneTrue(pane)'
    BY <2>1, <2>2, <1>0 DEF TmuxInv, HonestInv, Honest, ResultTrue, PaneTrue, HasSession
  <2> QED  BY <1>0, <2>1, <2>2, <2>3, <2>4, <2>5, DriverStep DEF TmuxTypes, TypeOK, SpawnSteps
<1>7. CASE SpawnLegacy
  <2>1. /\ spc = "legacy" /\ spc' = "done" /\ child' = IF HasSession THEN "alive" ELSE child
        /\ UNCHANGED <<mode, agent, file, pane, ssnap, rpc, rsnap, exitCode, prompted,
                       killer, lstate, obsVars>>
    BY <1>7 DEF SpawnLegacy, envVars
  <2>2. mode = "legacy" /\ rpc = "none" /\ child = "none" /\ exitCode = NoCode
    BY <1>0, <2>1 DEF TypeOK, PhaseInv, LegacyInv
  <2>3. PhaseInv'
    BY <1>0, <2>1, <2>2 DEF PhaseInv, RunnerAlive, HasSession
  <2>4. LegacyInv' /\ FileInv'
    BY <1>0, <2>1, <2>2 DEF LegacyInv, FileInv, HasSession, obsVars
  <2>5. PaneTrue(pane)'
    BY <1>0, <2>1, <2>2 DEF PaneTrue
  <2> QED  BY <1>0, <2>1, <2>3, <2>4, <2>5, DriverStep DEF TmuxTypes, TypeOK, SpawnSteps
<1> QED  BY <1>1, <1>2, <1>3, <1>4, <1>5, <1>6, <1>7, Zenon DEF Spawn

-----------------------------------------------------------------------------
(* The runner and the environment.                                         *)

\* The runner reads the state file before it rewrites it,
LEMMA LoadKeeps ==
    ASSUME TmuxInv, Forward, NEW from \in RunSteps, NEW to \in RunSteps, RunnerLoad(from, to),
           mode # "legacy", from \notin {"none", "gone", "finished"},
           to \notin {"none", "gone", "finished"},
           to \in {"start", "launching", "launched", "missing", "unlaunched"} =>
             from \in {"start", "launching", "launched", "missing", "unlaunched"},
           to = "finishing" => child = "exited"
    PROVE  TmuxInv'
<1>1. /\ rpc = from /\ rpc' = to /\ rsnap' \in {file, Blank("")}
      /\ UNCHANGED <<mode, agent, file, pane, spc, ssnap, child, exitCode, prompted, killer,
                     lstate, obsVars>>
  BY DEF RunnerLoad, envVars, spawnVars
<1>2. PhaseInv'
  BY <1>1 DEF TmuxInv, TmuxTypes, TypeOK, PhaseInv, RunnerAlive, HasSession
<1>3. LegacyInv' /\ FileInv'
  BY <1>1 DEF TmuxInv, LegacyInv, FileInv, HasSession, obsVars
<1>4. PaneTrue(pane)'
  BY <1>1 DEF TmuxInv, HonestInv, PaneTrue
<1>5. /\ file' \in States /\ pane' \in Panes /\ child' \in {"none", "alive", "exited", "killed"}
      /\ exitCode' \in ExitCodes \cup {NoCode} /\ prompted' \in BOOLEAN
      /\ spc' \in SpawnSteps /\ rpc' \in RunSteps /\ killer' \in {"idle", "killed", "done"}
  BY <1>1 DEF TmuxInv, TmuxTypes, TypeOK
<1> QED  BY <1>1, <1>2, <1>3, <1>4, <1>5, DriverStep

\* and writes what it read, with one field changed.
LEMMA SaveKeeps ==
    ASSUME TmuxInv, Forward, NEW from \in RunSteps, NEW to \in RunSteps,
           NEW s \in States, s.life \notin {"absent", ""}, RunnerSave(from, to, s),
           mode # "legacy", from \notin {"none", "gone"}, to \notin {"none", "gone"},
           to \in {"start", "launching", "launched", "missing", "unlaunched"} =>
             from \in {"start", "launching", "launched", "missing", "unlaunched"},
           to = "finishing" => child = "exited",
           to = "finished" => child \in {"none", "exited"},
           s.result = "" \/ (s.life = "finished" /\ s.result # "never_launched"),
           s.result \in {"success", "failure", "spawn_error"} =>
             \/ child = "exited" /\ s.result = RunnerResult(exitCode)
             \/ s.result = "spawn_error" /\ child = "none" /\ to = "finished"
    PROVE  TmuxInv'
<1>1. /\ rpc = from /\ rpc' = to /\ file' = s /\ rsnap' = Absent
      /\ UNCHANGED <<mode, agent, pane, spc, ssnap, child, exitCode, prompted, killer,
                     lstate, obsVars>>
  BY DEF RunnerSave, envVars, spawnVars
<1>2. PhaseInv'
  BY <1>1 DEF TmuxInv, TmuxTypes, TypeOK, PhaseInv, RunnerAlive, HasSession
<1>3. LegacyInv' /\ FileInv'
  BY <1>1 DEF TmuxInv, LegacyInv, FileInv, HasSession, obsVars
<1>4. Honest(file)'
  BY <1>1 DEF Honest, ResultTrue
<1>5. PaneTrue(pane)'
  BY <1>1 DEF TmuxInv, HonestInv, PaneTrue
<1>6. /\ pane' \in Panes /\ child' \in {"none", "alive", "exited", "killed"}
      /\ exitCode' \in ExitCodes \cup {NoCode} /\ prompted' \in BOOLEAN
      /\ spc' \in SpawnSteps /\ rpc' \in RunSteps /\ killer' \in {"idle", "killed", "done"}
  BY <1>1 DEF TmuxInv, TmuxTypes, TypeOK
<1> QED  BY <1>1, <1>2, <1>3, <1>4, <1>5, <1>6, DriverStep

\* Every step of the runner keeps the invariant.
LEMMA RunKeeps == ASSUME TmuxInv, Run, Forward PROVE TmuxInv'
<1>0. /\ TmuxTypes /\ TypeOK /\ PhaseInv /\ LegacyInv /\ FileInv /\ PaneTrue(pane)
  BY DEF TmuxInv, TmuxTypes, HonestInv
<1>1. mode # "legacy"
  BY <1>0 DEF LegacyInv, Run, RunnerLaunching, RunnerStart, RunnerRunning, RunnerFinishing,
              RunnerMissing, RunnerExit, RunnerLoad, RunnerSave
<1>2. CASE RunnerLaunching
  <2>1. CASE RunnerLoad("start", "launching")
    BY <1>1, <2>1, LoadKeeps DEF RunSteps
  <2>2. CASE RunnerSave("launching", "launched", Merge(rsnap, "launching", "", FALSE))
    <3>0. rsnap \in States /\ rsnap.child \in BOOLEAN /\ "" \in Results
      BY <1>0, Codes DEF TypeOK, States, Results
    <3>1. PICK c \in BOOLEAN : c = (rsnap.child \/ FALSE)
      OBVIOUS
    <3>2. PICK s : s = [rsnap EXCEPT !.life = "launching", !.result = "",
                                    !.runner = TRUE, !.child = c]
      OBVIOUS
    <3>3. s \in States /\ s.life = "launching" /\ s.result = ""
      BY <3>0, <3>2 DEF States, Lifecycles
    <3>4. RunnerSave("launching", "launched", s)
      BY <2>2, <3>0, <3>1, <3>2 DEF RunnerSave, Merge
    <3> QED  BY <1>1, <3>3, <3>4, SaveKeeps DEF RunSteps
  <2> QED  BY <1>2, <2>1, <2>2 DEF RunnerLaunching
<1>3. CASE RunnerRunning
  <2>1. CASE RunnerLoad("started", "marking")
    BY <1>1, <2>1, LoadKeeps DEF RunSteps
  <2>2. CASE RunnerSave("marking", "waiting", Merge(rsnap, "running", "", TRUE))
    <3>0. rsnap \in States /\ rsnap.child \in BOOLEAN /\ "" \in Results
      BY <1>0, Codes DEF TypeOK, States, Results
    <3>1. PICK c \in BOOLEAN : c = (rsnap.child \/ TRUE)
      OBVIOUS
    <3>2. PICK s : s = [rsnap EXCEPT !.life = "running", !.result = "",
                                    !.runner = TRUE, !.child = c]
      OBVIOUS
    <3>3. s \in States /\ s.life = "running" /\ s.result = ""
      BY <3>0, <3>2 DEF States, Lifecycles
    <3>4. RunnerSave("marking", "waiting", s)
      BY <2>2, <3>0, <3>1, <3>2 DEF RunnerSave, Merge
    <3> QED  BY <1>1, <3>3, <3>4, SaveKeeps DEF RunSteps
  <2> QED  BY <1>3, <2>1, <2>2 DEF RunnerRunning
<1>4. CASE RunnerFinishing
  <2>1. CASE child = "exited" /\ RunnerLoad("waiting", "finishing")
    BY <1>1, <2>1, LoadKeeps DEF RunSteps
  <2>2. CASE RunnerSave("finishing", "finished",
                        Merge(rsnap, "finished", RunnerResult(exitCode), TRUE))
    <3>0. rsnap \in States /\ rsnap.child \in BOOLEAN /\ RunnerResult(exitCode) \in Results
      BY <1>0, Codes DEF TypeOK, States, Results
    <3>1. PICK c \in BOOLEAN : c = (rsnap.child \/ TRUE)
      OBVIOUS
    <3>2. PICK s : s = [rsnap EXCEPT !.life = "finished", !.result = RunnerResult(exitCode),
                                    !.runner = TRUE, !.child = c]
      OBVIOUS
    <3>3. s \in States /\ s.life = "finished" /\ s.result = RunnerResult(exitCode)
      BY <3>0, <3>2 DEF States, Lifecycles
    <3>4. RunnerSave("finishing", "finished", s)
      BY <2>2, <3>0, <3>1, <3>2 DEF RunnerSave, Merge
    <3>5. rpc = "finishing" /\ child = "exited" /\ s.result # "never_launched"
      BY <1>0, <2>2, <3>3, Codes DEF RunnerSave, PhaseInv
    <3> QED  BY <1>1, <3>3, <3>4, <3>5, SaveKeeps DEF RunSteps
  <2> QED  BY <1>4, <2>1, <2>2 DEF RunnerFinishing
<1>5. CASE RunnerMissing
  <2>1. CASE RunnerLoad("missing", "unlaunched")
    BY <1>1, <2>1, LoadKeeps DEF RunSteps
  <2>2. CASE RunnerSave("unlaunched", "finished",
                        Merge(rsnap, "finished", "spawn_error", FALSE))
    <3>0. rsnap \in States /\ rsnap.child \in BOOLEAN /\ "spawn_error" \in Results
      BY <1>0, Codes DEF TypeOK, States, Results
    <3>1. PICK c \in BOOLEAN : c = (rsnap.child \/ FALSE)
      OBVIOUS
    <3>2. PICK s : s = [rsnap EXCEPT !.life = "finished", !.result = "spawn_error",
                                    !.runner = TRUE, !.child = c]
      OBVIOUS
    <3>3. s \in States /\ s.life = "finished" /\ s.result = "spawn_error"
      BY <3>0, <3>2 DEF States, Lifecycles
    <3>4. RunnerSave("unlaunched", "finished", s)
      BY <2>2, <3>0, <3>1, <3>2 DEF RunnerSave, Merge
    <3>5. rpc = "unlaunched" /\ child = "none"
      BY <1>0, <2>2 DEF RunnerSave, PhaseInv
    <3> QED  BY <1>1, <3>3, <3>4, <3>5, SaveKeeps DEF RunSteps
  <2> QED  BY <1>5, <2>1, <2>2 DEF RunnerMissing
<1>6. CASE RunnerStart
  <2>1. /\ rpc = "launched"
        /\ \/ rpc' = "started" /\ child' = "alive"
           \/ rpc' = "missing" /\ UNCHANGED child
        /\ UNCHANGED <<mode, agent, file, pane, spc, ssnap, rsnap, exitCode, prompted, killer,
                       lstate, obsVars>>
    BY <1>6 DEF RunnerStart, envVars, spawnVars
  <2>2. child = "none"
    BY <1>0, <2>1 DEF PhaseInv
  <2>3. PhaseInv'
    BY <1>0, <1>1, <2>1, <2>2 DEF TypeOK, PhaseInv, RunnerAlive, HasSession
  <2>4. LegacyInv' /\ FileInv'
    BY <1>0, <1>1, <2>1 DEF LegacyInv, FileInv, HasSession, obsVars
  <2>5. PaneTrue(pane)'
    BY <1>0, <2>1 DEF PaneTrue
  <2>6. rpc' \in RunSteps /\ child' \in {"none", "alive", "exited", "killed"}
    BY <2>1, <2>2 DEF RunSteps
  <2> QED  BY <1>0, <2>1, <2>3, <2>4, <2>5, <2>6, DriverStep DEF TmuxTypes, TypeOK
<1>7. CASE RunnerExit
  <2>1. /\ rpc = "finished" /\ rpc' = "gone"
        /\ pane' = DeadPane(IF child = "exited" THEN exitCode ELSE 127)
        /\ UNCHANGED <<mode, agent, file, spc, ssnap, rsnap, child, exitCode, prompted, killer,
                       lstate, obsVars>>
    BY <1>7 DEF RunnerExit, envVars, spawnVars
  <2>2. /\ pane' \in Panes /\ pane'.life = "dead"
        /\ \/ child = "exited" /\ pane'.code = exitCode
           \/ child = "none" /\ pane'.code = 127
    BY <1>0, <2>1 DEF PhaseInv, TypeOK, DeadPane, Panes
  <2>3. HasSession
    BY <1>0, <2>1 DEF PhaseInv, RunnerAlive, HasSession
  <2>4. PhaseInv'
    BY <1>0, <2>1, <2>2, <2>3 DEF PhaseInv, RunnerAlive, HasSession
  <2>5. LegacyInv' /\ FileInv'
    BY <1>0, <1>1, <2>1, <2>3 DEF LegacyInv, FileInv, HasSession, obsVars
  <2>6. PaneTrue(pane)'
    BY <2>1, <2>2 DEF PaneTrue
  <2> QED  BY <1>0, <2>1, <2>2, <2>4, <2>5, <2>6, DriverStep DEF TmuxTypes, TypeOK, RunSteps
<1> QED  BY <1>2, <1>3, <1>4, <1>5, <1>6, <1>7, Zenon DEF Run

\* So does every step of the agent, the pane and the killer.
LEMMA EnvironmentKeeps == ASSUME TmuxInv, Environment, Forward PROVE TmuxInv'
<1>0. /\ TmuxTypes /\ TypeOK /\ PhaseInv /\ LegacyInv /\ FileInv /\ PaneTrue(pane)
  BY DEF TmuxInv, TmuxTypes, HonestInv
<1>1. CASE RunnerKilled
  <2>1. /\ rpc = "waiting" /\ rpc' = "gone" /\ pane' = DeadPane(NoCode)
        /\ child' \in {child, IF ChildAlive THEN "killed" ELSE child}
        /\ UNCHANGED <<mode, agent, file, spc, ssnap, rsnap, exitCode, prompted, killer,
                       lstate, obsVars>>
    BY <1>1 DEF RunnerKilled, envVars, spawnVars
  <2>2. pane' \in Panes /\ pane'.life = "dead" /\ pane'.code = NoCode
    BY <2>1 DEF DeadPane, Panes
  <2>3. HasSession /\ mode # "legacy"
    BY <1>0, <2>1 DEF PhaseInv, RunnerAlive, HasSession, LegacyInv
  <2>4. PhaseInv'
    BY <1>0, <2>1, <2>2, <2>3 DEF PhaseInv, RunnerAlive, ChildAlive, HasSession
  <2>5. LegacyInv' /\ FileInv'
    BY <1>0, <2>1, <2>3 DEF LegacyInv, FileInv, HasSession, obsVars
  <2>6. PaneTrue(pane)'
    BY <2>1, <2>2 DEF PaneTrue
  <2>7. child' \in {"none", "alive", "exited", "killed"}
    BY <1>0, <2>1 DEF TypeOK
  <2> QED  BY <1>0, <2>1, <2>2, <2>4, <2>5, <2>6, <2>7, DriverStep DEF TmuxTypes, TypeOK, RunSteps
<1>2. CASE CommandLost \/ AgentPrompts \/ AgentExits
  <2>1. /\ \/ UNCHANGED <<child, exitCode>>
           \/ child = "alive" /\ child' = "exited" /\ exitCode' \in ExitCodes
        /\ prompted' \in BOOLEAN
        /\ UNCHANGED <<mode, agent, file, pane, spc, ssnap, rpc, rsnap, killer, lstate, obsVars>>
    BY <1>0, <1>2 DEF CommandLost, AgentPrompts, AgentExits, ChildAlive, TypeOK, envVars, spawnVars,
                      runVars
  <2>2. PhaseInv'
    BY ZenonT(60), <1>0, <2>1, Codes DEF PhaseInv, RunnerAlive, HasSession
  <2>3. LegacyInv' /\ FileInv'
    BY <1>0, <2>1 DEF LegacyInv, FileInv, HasSession, obsVars
  <2>4. PaneTrue(pane)'
    BY <1>0, <2>1 DEF PaneTrue
  <2>5. /\ child' \in {"none", "alive", "exited", "killed"}
        /\ exitCode' \in ExitCodes \cup {NoCode}
    BY <1>0, <2>1 DEF TypeOK
  <2> QED  BY <1>0, <2>1, <2>2, <2>3, <2>4, <2>5, DriverStep DEF TmuxTypes, TypeOK
<1>3. CASE KillSession
  <2>1. /\ spc \notin {"start", "prepared"} /\ killer' = "killed" /\ pane' = NoPane
        /\ rpc' = IF RunnerAlive THEN "gone" ELSE rpc
        /\ child' = IF ChildAlive THEN "killed" ELSE child
        /\ UNCHANGED <<mode, agent, file, spc, ssnap, rsnap, exitCode, prompted, lstate, obsVars>>
    BY <1>3 DEF KillSession, PaneProcessesEnd, envVars, spawnVars
  <2>2. /\ rpc' \in RunSteps /\ child' \in {"none", "alive", "exited", "killed"}
        /\ ~RunnerAlive' /\ ~HasSession'
        /\ rpc' \in {"none", "gone"} /\ (rpc' = "none" => rpc = "none")
        /\ (rpc = "none" => rpc' = "none")
    BY <1>0, <2>1, AbsentShape DEF TmuxTypes, TypeOK, RunSteps, RunnerAlive, HasSession
  <2>3. PhaseInv'
    BY <1>0, <2>1, <2>2 DEF PhaseInv, ChildAlive
  <2>4. LegacyInv' /\ FileInv'
    BY <1>0, <2>1, <2>2 DEF LegacyInv, FileInv, obsVars
  <2>5. PaneTrue(pane)' /\ pane' \in Panes
    BY <2>1, AbsentShape DEF PaneTrue
  <2> QED  BY <1>0, <2>1, <2>2, <2>3, <2>4, <2>5, DriverStep DEF TmuxTypes, TypeOK
<1>4. CASE KillCleanup \/ StaleCleanup
  <2>1. /\ file' = Absent
        /\ \/ killer = "killed" /\ killer' = "done"
           \/ /\ UNCHANGED killer /\ spc \in {"done", "failed"}
              /\ \A o \in Observers : opc[o] = "done"
        /\ UNCHANGED <<mode, agent, pane, spc, ssnap, rpc, rsnap, child, exitCode, prompted,
                       lstate, obsVars>>
    BY <1>4 DEF KillCleanup, StaleCleanup, envVars, spawnVars, runVars
  <2>2. PhaseInv'
    BY <1>0, <2>1 DEF PhaseInv, RunnerAlive, HasSession
  <2>3. LegacyInv' /\ FileInv'
    BY <1>0, <2>1 DEF PhaseInv, LegacyInv, FileInv, HasSession, obsVars
  <2>4. Honest(file)' /\ PaneTrue(pane)' /\ file' \in States
    BY <1>0, <2>1, AbsentShape DEF Honest, PaneTrue
  <2> QED  BY <1>0, <2>1, <2>2, <2>3, <2>4, DriverStep DEF TmuxTypes, TypeOK
<1> QED  BY <1>1, <1>2, <1>3, <1>4, Zenon DEF Environment

-----------------------------------------------------------------------------
(* The observers.                                                          *)

(* A step of one observer, which copies what it reads, finishes the state  *)
(* file or leaves it alone, and touches nobody else's locals.              *)
LEMMA PollStep ==
    ASSUME TmuxInv, Forward, PollFrame, NEW o \in Observers, opc[o] # "done",
           file' = file \/ (mode # "legacy" /\ file' \in States /\ Terminal(file') /\ Honest(file)'),
           opc' \in [Observers -> PollSteps \cup {"idle", "report", "done"}],
           polls' \in [Observers -> 0..MaxPolls], osnap' \in [Observers -> States],
           opane' \in [Observers -> Panes],
           oalive' \in [Observers -> [child : BOOLEAN, runner : BOOLEAN]],
           verdict' \in [Observers -> Verdicts], late' \in [Observers -> BOOLEAN],
           lstate'.polls \in Nat, lstate' = lstate \/ mode = "runner" \/ o \notin Beats,
           \A q \in Observers \ {o} :
             UNCHANGED <<opc[q], polls[q], osnap[q], opane[q], verdict[q], late[q]>>,
           osnap'[o] \in {osnap[o], file, Absent}, opane'[o] \in {opane[o], pane, NoPane},
           mode = "legacy" => opc'[o] \in {"idle", "legacy", "report", "done"},
           ObserverOK(o)'
    PROVE  TmuxInv'
<1>1. UNCHANGED <<mode, agent, pane, spc, ssnap, rpc, rsnap, child, exitCode, prompted, killer>>
  BY DEF PollFrame, envVars, spawnVars, runVars
<1>2. TmuxTypes'
  BY <1>1 DEF TmuxInv, TmuxTypes, TypeOK
<1>3. PhaseInv'
  BY <1>1 DEF TmuxInv, PhaseInv, RunnerAlive, HasSession
<1>4. LegacyInv'
  BY <1>1 DEF TmuxInv, LegacyInv
<1>5. FileInv'
  BY <1>1 DEF TmuxInv, FileInv, HasSession, Terminal
<1>6. HonestInv'
  <2>1. PaneTrue(pane)'
    BY <1>1 DEF TmuxInv, HonestInv, PaneTrue
  <2> QED  BY <1>1, <2>1, HonestKeeps DEF TmuxInv
<1>7. ObserversInv'
  <2>1. ASSUME NEW q \in Observers \ {o} PROVE ObserverOK(q)'
    <3>1. lstate' = lstate \/ mode = "runner" \/ Monitors # {q}
      BY DEF Monitors
    <3> QED  BY <2>1, <3>1, ObserverStays DEF TmuxInv, ObserversInv
  <2> QED  BY <2>1 DEF ObserversInv
<1> QED  BY <1>2, <1>3, <1>4, <1>5, <1>6, <1>7 DEF TmuxInv

(* A poll that returns.                                                    *)
LEMMA ReturnStep ==
    ASSUME TmuxInv, Forward, PollFrame, NEW o \in Observers, opc[o] \in PollSteps,
           NEW res \in Decided \cup {"in_progress", "just_started", "error"},
           PollReturns(o, res), UNCHANGED <<file, late>>,
           lstate'.polls \in Nat, lstate' = lstate \/ mode = "runner" \/ o \notin Beats,
           mode = "runner" /\ res = "completed" => exitCode = 0 \/ prompted,
           mode = "runner" /\ res = "stuck" => ~HasSession,
           late[o] /\ killer = "idle" => res \in Decided,
           mode = "legacy" /\ agent = "claude" /\ Monitors = {o} =>
             lstate'.polls <= polls[o] + 1 /\ (res = "stuck" => polls[o] + 1 > GracePolls)
    PROVE  TmuxInv'
<1>1. UNCHANGED <<mode, agent, pane, spc, ssnap, rpc, rsnap, child, exitCode, prompted, killer>>
  BY DEF PollFrame, envVars, spawnVars, runVars
<1>2. /\ TmuxTypes /\ TypeOK /\ PollOK(o) /\ LateOK(o)
  BY DEF TmuxInv, TmuxTypes, ObserversInv, ObserverOK
<1>3. PICK pc \in {"idle", "report", "done"}, v \in Verdicts :
        /\ opc' = [opc EXCEPT ![o] = pc] /\ verdict' = [verdict EXCEPT ![o] = v]
        /\ o \in Beats => pc = "done" /\ v # "stuck"
        /\ o \notin Beats /\ res \in Decided => pc = "report"
        /\ v \in {"completed", "stuck"} => v = res
        /\ v # "incomplete"
  <2>1. BeatOf(res) \in Verdicts /\ BeatOf(res) \notin {"stuck", "incomplete"}
        /\ (BeatOf(res) = "completed" => res = "completed")
    BY DEF BeatOf, Verdicts
  <2>2. Decided \subseteq Verdicts /\ "incomplete" \notin Decided /\ "none" \in Verdicts
    BY DEF Decided, Verdicts
  <2>3. CASE o \in Beats
    <3>1. opc' = [opc EXCEPT ![o] = "done"] /\ verdict' = [verdict EXCEPT ![o] = BeatOf(res)]
      BY <2>3 DEF PollReturns
    <3> QED  BY <2>1, <2>3, <3>1
  <2>4. CASE o \notin Beats /\ res \in Decided
    <3>1. opc' = [opc EXCEPT ![o] = "report"] /\ verdict' = [verdict EXCEPT ![o] = res]
      BY <2>4 DEF PollReturns
    <3> QED  BY <2>2, <2>4, <3>1
  <2>5. CASE o \notin Beats /\ res \notin Decided
    <3>1. opc' = [opc EXCEPT ![o] = "idle"] /\ verdict' = [verdict EXCEPT ![o] = "none"]
      BY <2>5 DEF PollReturns
    <3> QED  BY <2>2, <2>5, <3>1
  <2> QED  BY <2>3, <2>4, <2>5
<1>4. /\ polls' = [polls EXCEPT ![o] = @ + 1] /\ osnap' = [osnap EXCEPT ![o] = Absent]
      /\ opane' = [opane EXCEPT ![o] = NoPane] /\ oalive' = [oalive EXCEPT ![o] = NoneAlive]
  BY DEF PollReturns
<1>5. /\ opc'[o] = pc /\ verdict'[o] = v /\ polls'[o] = polls[o] + 1
      /\ osnap'[o] = Absent /\ opane'[o] = NoPane
      /\ \A q \in Observers \ {o} :
           UNCHANGED <<opc[q], polls[q], osnap[q], opane[q], verdict[q], late[q]>>
  BY <1>2, <1>3, <1>4 DEF TmuxTypes, TypeOK
<1>6. spc = "done" /\ polls[o] < MaxPolls /\ opc[o] # "done"
  BY <1>2 DEF PollOK, PollSteps
<1>7. /\ opc' \in [Observers -> PollSteps \cup {"idle", "report", "done"}]
      /\ verdict' \in [Observers -> Verdicts]
      /\ osnap' \in [Observers -> States] /\ opane' \in [Observers -> Panes]
  BY <1>2, <1>3, <1>4, AbsentShape DEF TmuxTypes, TypeOK
<1>8. oalive' \in [Observers -> [child : BOOLEAN, runner : BOOLEAN]]
  <2>1. NoneAlive \in [child : BOOLEAN, runner : BOOLEAN]
    BY DEF NoneAlive
  <2> QED  BY <1>2, <1>4, <2>1 DEF TypeOK
<1>9. polls' \in [Observers -> 0..MaxPolls]
  <2>1. polls[o] + 1 \in 0..MaxPolls
    BY <1>2, <1>6, TmuxAssumption DEF TypeOK
  <2> QED  BY <1>2, <1>4, <2>1 DEF TypeOK
<1>10. PollOK(o)' /\ VerdictOK(o)'
  BY <1>1, <1>3, <1>5, <1>6 DEF PollOK, VerdictOK, PollSteps, HasSession
<1>11. LateOK(o)'
  BY <1>1, <1>2, <1>3, <1>5 DEF LateOK, PollSteps
<1>12. PatientOK(o)'
  BY <1>1, <1>3, <1>5 DEF PatientOK, Monitors
<1>13. ObserverOK(o)' /\ late' \in [Observers -> BOOLEAN]
  BY <1>2, <1>10, <1>11, <1>12 DEF ObserverOK, TmuxTypes
<1> QED  BY <1>3, <1>5, <1>6, <1>7, <1>8, <1>9, <1>13, PollStep

(* A poll that goes on.                                                    *)
LEMMA ContinueStep ==
    ASSUME TmuxInv, Forward, PollFrame, NEW o \in Observers, spc = "done",
           opc[o] \in PollSteps \cup {"idle"}, polls[o] < MaxPolls,
           NEW to \in PollSteps, PollContinues(o, to), UNCHANGED lstate,
           file' = file \/ (mode # "legacy" /\ file' \in States /\ Terminal(file') /\ Honest(file)'),
           NEW s \in {osnap[o], file}, osnap' = [osnap EXCEPT ![o] = s],
           NEW p \in {opane[o], pane}, opane' = [opane EXCEPT ![o] = p],
           NEW a \in [child : BOOLEAN, runner : BOOLEAN], oalive' = [oalive EXCEPT ![o] = a],
           NEW l \in BOOLEAN, late' = [late EXCEPT ![o] = l],
           IF mode = "runner" THEN to = "legacy" => ~HasSession
                              ELSE to = "legacy" /\ o \notin Beats,
           to \notin {"load", "pane", "legacy"} /\ p.life = "absent" => ~HasSession,
           l /\ killer = "idle" =>
             /\ mode = "runner" /\ rpc = "gone" /\ o \notin Beats
             /\ to \in {"load", "pane", "pids", "wait", "reconcile", "recheck", "reread"}
             /\ to \in {"pids", "wait", "reconcile", "recheck"} => p.life = "dead"
             /\ to = "reread" => Terminal(file')
    PROVE  TmuxInv'
<1>1. UNCHANGED <<mode, agent, pane, spc, ssnap, rpc, rsnap, child, exitCode, prompted, killer>>
  BY DEF PollFrame, envVars, spawnVars, runVars
<1>2. TmuxTypes /\ TypeOK /\ ObserverOK(o)
  BY DEF TmuxInv, TmuxTypes, ObserversInv
<1>3. opc' = [opc EXCEPT ![o] = to] /\ UNCHANGED <<polls, verdict>>
  BY DEF PollContinues
<1>4. file \in States /\ osnap[o] \in States /\ pane \in Panes /\ opane[o] \in Panes
  BY <1>2 DEF TypeOK
<1>5. /\ opc' \in [Observers -> PollSteps \cup {"idle", "report", "done"}]
      /\ osnap' \in [Observers -> States] /\ opane' \in [Observers -> Panes]
      /\ oalive' \in [Observers -> [child : BOOLEAN, runner : BOOLEAN]]
      /\ late' \in [Observers -> BOOLEAN]
  BY <1>2, <1>3, <1>4 DEF TmuxTypes, TypeOK
<1>6. /\ opc'[o] = to /\ osnap'[o] = s /\ opane'[o] = p /\ late'[o] = l
      /\ \A q \in Observers \ {o} :
           UNCHANGED <<opc[q], polls[q], osnap[q], opane[q], verdict[q], late[q]>>
  BY <1>2, <1>3 DEF TmuxTypes, TypeOK
<1>7. PollOK(o)'
  BY <1>1, <1>3, <1>6 DEF PollOK, PollSteps, HasSession
<1>8. VerdictOK(o)'
  BY <1>1, <1>2, <1>3 DEF ObserverOK, VerdictOK, HasSession
<1>9. LateOK(o)'
  BY <1>1, <1>6 DEF LateOK
<1>10. PatientOK(o)'
  BY <1>1, <1>2, <1>3 DEF ObserverOK, PatientOK, Monitors
<1>11. ObserverOK(o)'
  BY <1>7, <1>8, <1>9, <1>10 DEF ObserverOK
<1>12. /\ opc[o] # "done" /\ lstate'.polls \in Nat /\ mode \in {"runner", "legacy"}
       /\ polls' \in [Observers -> 0..MaxPolls] /\ verdict' \in [Observers -> Verdicts]
  BY <1>2, <1>3 DEF TmuxTypes, TypeOK, PollSteps
<1> QED  BY <1>5, <1>6, <1>11, <1>12, PollStep

(* An observer that is done.                                               *)
LEMMA EndStep ==
    ASSUME TmuxInv, Forward, PollFrame, NEW o \in Observers, spc = "done", opc[o] # "done",
           opc' = [opc EXCEPT ![o] = "done"],
           NEW v \in Verdicts, verdict' = [verdict EXCEPT ![o] = v],
           UNCHANGED <<file, polls, osnap, opane, oalive, late, lstate>>,
           mode = "runner" /\ v \in {"completed", "incomplete"} => exitCode = 0 \/ prompted,
           v = "stuck" => verdict[o] = "stuck"
    PROVE  TmuxInv'
<1>1. UNCHANGED <<mode, agent, pane, spc, ssnap, rpc, rsnap, child, exitCode, prompted, killer>>
  BY DEF PollFrame, envVars, spawnVars, runVars
<1>2. TmuxTypes /\ TypeOK /\ ObserverOK(o)
  BY DEF TmuxInv, TmuxTypes, ObserversInv
<1>3. /\ opc' \in [Observers -> PollSteps \cup {"idle", "report", "done"}]
      /\ verdict' \in [Observers -> Verdicts] /\ opc'[o] = "done" /\ verdict'[o] = v
      /\ \A q \in Observers \ {o} :
           UNCHANGED <<opc[q], polls[q], osnap[q], opane[q], verdict[q], late[q]>>
  BY <1>2 DEF TmuxTypes, TypeOK
<1>4. PollOK(o)' /\ VerdictOK(o)'
  BY <1>1, <1>2, <1>3 DEF ObserverOK, PollOK, VerdictOK, PollSteps, HasSession
<1>5. LateOK(o)'
  BY <1>1, <1>2, <1>3 DEF ObserverOK, LateOK
<1>6. PatientOK(o)'
  BY <1>1, <1>2, <1>3 DEF ObserverOK, PatientOK, Monitors
<1>7. ObserverOK(o)'
  BY <1>4, <1>5, <1>6 DEF ObserverOK
<1>8. /\ osnap' \in [Observers -> States] /\ opane' \in [Observers -> Panes]
      /\ oalive' \in [Observers -> [child : BOOLEAN, runner : BOOLEAN]]
      /\ late' \in [Observers -> BOOLEAN] /\ lstate'.polls \in Nat
      /\ polls' \in [Observers -> 0..MaxPolls]
  BY <1>2 DEF TmuxTypes, TypeOK
<1> QED  BY <1>3, <1>7, <1>8, PollStep

(* What a status made of the state file tells.                             *)
LEMMA TerminalTrue ==
    ASSUME Honest(file)
    PROVE  /\ TerminalStatus(file) \in {"completed", "crashed", "stuck"}
           /\ TerminalStatus(file) = "completed" => exitCode = 0 \/ prompted
           /\ TerminalStatus(file) = "stuck" => ~HasSession
<1>1. TerminalStatus(file) \in {"completed", "crashed", "stuck"}
  BY DEF TerminalStatus
<1>2. TerminalStatus(file) = "completed" => file.result = "success"
  BY DEF TerminalStatus
<1>3. TerminalStatus(file) = "stuck" => file.result = "never_launched"
  BY DEF TerminalStatus
<1>4. file.result = "success" => exitCode = 0 \/ prompted
  BY Codes DEF Honest, ResultTrue
<1> QED  BY <1>1, <1>2, <1>3, <1>4 DEF Honest

(* A poll that returns what the state file tells.                          *)
LEMMA TerminalStep ==
    ASSUME TmuxInv, Forward, PollFrame, NEW o \in Observers,
           opc[o] \in PollSteps \ {"legacy"},
           PollReturns(o, TerminalStatus(file)), UNCHANGED <<file, late, lstate>>
    PROVE  TmuxInv'
<1>1. /\ TerminalStatus(file) \in {"completed", "crashed", "stuck"}
      /\ TerminalStatus(file) = "completed" => exitCode = 0 \/ prompted
      /\ TerminalStatus(file) = "stuck" => ~HasSession
  BY TerminalTrue DEF TmuxInv, HonestInv
<1>2. mode # "legacy"
  BY DEF TmuxInv, LegacyInv, PollSteps
<1>3. PICK res : res = TerminalStatus(file)
  OBVIOUS
<1>4. res \in Decided /\ PollReturns(o, res) /\ lstate'.polls \in Nat
  BY <1>1, <1>3 DEF Decided, TmuxInv, TmuxTypes
<1> QED  BY <1>1, <1>2, <1>3, <1>4, ReturnStep

\* A result with its evidence is recorded as an honest terminal state.
LEMMA FinishTrue ==
    ASSUME TmuxInv, Forward, NEW s \in States, NEW r \in Results, file' = Finish(s, r),
           r \in {"success", "failure", "spawn_error"} => ResultTrue(r),
           r = "never_launched" => ~HasSession /\ spc = "done"
    PROVE  file' \in States /\ Terminal(file') /\ Honest(file)'
<1>1. PICK f : f = Finish(s, r)
  OBVIOUS
<1>2. f \in States /\ Terminal(f) /\ f.life = "finished" /\ f.result = r
  BY <1>1, FinishShape
<1>3. Honest(f)
  BY <1>2 DEF Honest
<1>4. Honest(f)'
  BY <1>3, HonestStays DEF TmuxInv
<1> QED  BY <1>1, <1>2, <1>4 DEF Honest, ResultTrue

\* A poll begins: it notes whether the runner has exited.
LEMMA StartKeeps ==
    ASSUME TmuxInv, Forward, NEW o \in Observers, PollStart(o) PROVE TmuxInv'
<1>1. /\ opc[o] = "idle" /\ spc = "done" /\ o \notin Beats /\ polls[o] < MaxPolls
      /\ PollContinues(o, StatusMode) /\ late' = [late EXCEPT ![o] = RunnerExited]
      /\ UNCHANGED <<file, osnap, opane, oalive, lstate>> /\ PollFrame
  BY DEF PollStart
<1>2. TypeOK /\ PhaseInv /\ FileInv
  BY DEF TmuxInv, TmuxTypes
<1>3. PICK to \in {"load", "legacy"} : to = StatusMode
  BY DEF StatusMode
<1>4. PICK l \in BOOLEAN : l = RunnerExited
  BY DEF RunnerExited
<1>5. IF mode = "runner" THEN to = "legacy" => ~HasSession ELSE to = "legacy"
  BY <1>1, <1>2, <1>3 DEF StatusMode, FileInv, TypeOK
<1>6. l => mode = "runner" /\ rpc = "gone" /\ killer = "idle" /\ HasSession
  BY <1>1, <1>2, <1>4 DEF RunnerExited, PhaseInv, HasSession
<1>7. /\ PollContinues(o, to) /\ late' = [late EXCEPT ![o] = l]
      /\ osnap' = [osnap EXCEPT ![o] = osnap[o]] /\ opane' = [opane EXCEPT ![o] = opane[o]]
      /\ oalive' = [oalive EXCEPT ![o] = oalive[o]]
      /\ oalive[o] \in [child : BOOLEAN, runner : BOOLEAN]
  BY <1>1, <1>2, <1>3, <1>4 DEF TypeOK
<1> QED  BY ZenonT(60), <1>1, <1>5, <1>6, <1>7, ContinueStep DEF PollSteps

\* A heartbeat check looks at one snapshot.
LEMMA HeartbeatKeeps ==
    ASSUME TmuxInv, Forward, NEW o \in Observers, HeartbeatStart(o) PROVE TmuxInv'
<1>1. /\ opc[o] = "idle" /\ spc = "done" /\ o \in Beats
      /\ UNCHANGED <<file, osnap, opane, oalive, late, lstate>> /\ PollFrame
  BY DEF HeartbeatStart
<1>2. TypeOK /\ PollOK(o) /\ LateOK(o) /\ FileInv /\ Honest(file) /\ late[o] \in BOOLEAN
      /\ late \in [Observers -> BOOLEAN]
  BY DEF TmuxInv, TmuxTypes, ObserversInv, ObserverOK, HonestInv
<1>3. CASE StatusMode = "legacy"
  <2>1. PICK prompt \in BOOLEAN, busy \in BOOLEAN :
          /\ verdict' = [verdict EXCEPT ![o] = LegacyBeat(prompt, busy)]
          /\ opc' = [opc EXCEPT ![o] = "done"] /\ UNCHANGED polls
    BY <1>3 DEF HeartbeatStart
  <2>2. LegacyBeat(prompt, busy) \in {"error", "completed", "dead", "alive", "idle"}
    BY DEF LegacyBeat
  <2>3. mode = "runner" => ~HasSession
    BY <1>1, <1>2, <1>3 DEF StatusMode, FileInv
  <2>4. mode = "runner" => LegacyBeat(prompt, busy) = "error"
    BY <2>3 DEF LegacyBeat
  <2>5. PICK v : v = LegacyBeat(prompt, busy)
    OBVIOUS
  <2>6. v \in Verdicts /\ v \notin {"stuck", "incomplete"} /\ (mode = "runner" => v # "completed")
    BY <2>2, <2>4, <2>5 DEF Verdicts
  <2> QED  BY <1>1, <2>1, <2>5, <2>6, EndStep
<1>4. CASE StatusMode = "load" /\ ~Terminal(file) /\ file.child /\ ~ChildAlive
  <2>1. PollContinues(o, "load")
    BY <1>4 DEF HeartbeatStart
  <2>2. mode = "runner"
    BY <1>2, <1>4 DEF StatusMode, TypeOK
  <2>3. /\ late' = [late EXCEPT ![o] = late[o]]
        /\ osnap' = [osnap EXCEPT ![o] = osnap[o]] /\ opane' = [opane EXCEPT ![o] = opane[o]]
        /\ oalive' = [oalive EXCEPT ![o] = oalive[o]]
        /\ oalive[o] \in [child : BOOLEAN, runner : BOOLEAN]
    BY <1>1, <1>2 DEF TypeOK
  <2>4. polls[o] < MaxPolls /\ ~(late[o] /\ killer = "idle")
    BY <1>1, <1>2, TmuxAssumption DEF PollOK, LateOK
  <2> QED  BY <1>1, <1>2, <2>1, <2>2, <2>3, <2>4, ContinueStep DEF PollSteps
<1>5. CASE StatusMode = "load" /\ ~(~Terminal(file) /\ file.child /\ ~ChildAlive)
  <2>1. PICK v \in {"completed", "dead", "alive", "idle"} :
          /\ verdict' = [verdict EXCEPT ![o] = v]
          /\ opc' = [opc EXCEPT ![o] = "done"] /\ UNCHANGED polls
          /\ v = "completed" => file.result = "success"
    <3>1. CASE Terminal(file)
      BY <1>5, <3>1 DEF HeartbeatStart
    <3>2. CASE ~Terminal(file)
      BY <1>5, <3>2 DEF HeartbeatStart
    <3> QED  BY <3>1, <3>2
  <2>2. v = "completed" => exitCode = 0 \/ prompted
    BY <1>2, <2>1, Codes DEF Honest, ResultTrue
  <2>3. v \in Verdicts /\ v \notin {"stuck", "incomplete"}
    BY <2>1 DEF Verdicts
  <2> QED  BY <1>1, <2>1, <2>2, <2>3, EndStep
<1> QED  BY <1>3, <1>4, <1>5 DEF StatusMode

(* The facts every step of a poll in runner mode starts from.              *)
LEMMA PollFacts ==
    ASSUME TmuxInv, NEW o \in Observers, opc[o] \in PollSteps \ {"legacy"}
    PROVE  /\ TypeOK /\ PhaseInv /\ FileInv /\ PollOK(o) /\ LateOK(o)
           /\ mode = "runner" /\ spc = "done" /\ polls[o] < MaxPolls
           /\ late \in [Observers -> BOOLEAN] /\ late[o] \in BOOLEAN
           /\ late = [late EXCEPT ![o] = late[o]]
           /\ osnap = [osnap EXCEPT ![o] = osnap[o]] /\ osnap[o] \in States
           /\ opane = [opane EXCEPT ![o] = opane[o]] /\ opane[o] \in Panes
           /\ oalive = [oalive EXCEPT ![o] = oalive[o]]
           /\ oalive[o] \in [child : BOOLEAN, runner : BOOLEAN]
           /\ Honest(file) /\ Honest(osnap[o]) /\ PaneTrue(pane) /\ PaneTrue(opane[o])
           /\ lstate.polls \in Nat
<1>1. TmuxTypes /\ TypeOK /\ PhaseInv /\ FileInv /\ LegacyInv /\ PollOK(o) /\ LateOK(o)
  BY DEF TmuxInv, TmuxTypes, ObserversInv, ObserverOK
<1>2. mode = "runner" /\ spc = "done" /\ polls[o] < MaxPolls
  BY <1>1 DEF TypeOK, LegacyInv, PollOK, PollSteps
<1>3. /\ late \in [Observers -> BOOLEAN] /\ late[o] \in BOOLEAN
      /\ late = [late EXCEPT ![o] = late[o]] /\ lstate.polls \in Nat
  BY <1>1 DEF TmuxTypes
<1>4. /\ osnap = [osnap EXCEPT ![o] = osnap[o]] /\ osnap[o] \in States
      /\ opane = [opane EXCEPT ![o] = opane[o]] /\ opane[o] \in Panes
      /\ oalive = [oalive EXCEPT ![o] = oalive[o]]
      /\ oalive[o] \in [child : BOOLEAN, runner : BOOLEAN]
  BY <1>1 DEF TypeOK
<1>5. Honest(file) /\ Honest(osnap[o]) /\ PaneTrue(pane) /\ PaneTrue(opane[o])
  BY DEF TmuxInv, HonestInv
<1> QED  BY <1>1, <1>2, <1>3, <1>4, <1>5

\* A poll reads the state file,
LEMMA LoadPollKeeps ==
    ASSUME TmuxInv, Forward, NEW o \in Observers, PollLoad(o) PROVE TmuxInv'
<1>1. opc[o] = "load" /\ UNCHANGED <<file, late, lstate>> /\ PollFrame
  BY DEF PollLoad
<1>2. opc[o] \in PollSteps \ {"legacy"} /\ "pane" \in PollSteps
  BY <1>1 DEF PollSteps
<1>3. CASE Terminal(file)
  <2>1. PollReturns(o, TerminalStatus(file))
    BY <1>3 DEF PollLoad, Terminal
  <2> QED  BY <1>1, <1>2, <2>1, TerminalStep
<1>4. CASE file.life = "absent"
  <2>1. ~HasSession
    BY <1>1, <1>2, <1>4, PollFacts DEF FileInv
  <2>2. PollReturns(o, "not_found")
    BY <1>4, <2>1 DEF PollLoad, Terminal
  <2> QED  BY <1>1, <1>2, <2>2, PollFacts, ReturnStep DEF Decided
<1>5. CASE ~Terminal(file) /\ file.life # "absent"
  <2>1. /\ PollContinues(o, "pane") /\ osnap' = [osnap EXCEPT ![o] = file]
        /\ UNCHANGED <<opane, oalive>>
    BY <1>5 DEF PollLoad
  <2>2. late[o] /\ killer = "idle" => mode = "runner" /\ rpc = "gone" /\ o \notin Beats
    BY <1>2, PollFacts DEF LateOK
  <2>3. /\ spc = "done" /\ opc[o] \in PollSteps \cup {"idle"} /\ polls[o] < MaxPolls
        /\ mode = "runner" /\ late[o] \in BOOLEAN /\ late' = [late EXCEPT ![o] = late[o]]
        /\ UNCHANGED lstate /\ PollFrame
        /\ opane' = [opane EXCEPT ![o] = opane[o]]
        /\ oalive' = [oalive EXCEPT ![o] = oalive[o]]
        /\ oalive[o] \in [child : BOOLEAN, runner : BOOLEAN]
    BY <1>1, <1>2, <2>1, PollFacts
  <2>4. /\ UNCHANGED file /\ PollContinues(o, "pane") /\ osnap' = [osnap EXCEPT ![o] = file]
        /\ file \in {osnap[o], file} /\ opane[o] \in {opane[o], pane}
    BY <1>1, <2>1
  <2> QED  BY <1>2, <2>2, <2>3, <2>4, ContinueStep
<1> QED  BY <1>3, <1>4, <1>5

\* then the pane,
LEMMA PanePollKeeps ==
    ASSUME TmuxInv, Forward, NEW o \in Observers, PollPane(o) PROVE TmuxInv'
<1>1. /\ opc[o] = "pane" /\ UNCHANGED <<file, osnap, oalive, late, lstate>> /\ PollFrame
      /\ opane' = [opane EXCEPT ![o] = pane] /\ PollContinues(o, "pids")
  BY DEF PollPane
<1>2. opc[o] \in PollSteps \ {"legacy"} /\ "pids" \in PollSteps
  BY <1>1 DEF PollSteps
<1>3. late[o] /\ killer = "idle" =>
        mode = "runner" /\ rpc = "gone" /\ o \notin Beats /\ pane.life = "dead"
  BY <1>2, PollFacts DEF LateOK, PhaseInv
<1>4. pane.life = "absent" => ~HasSession
  BY DEF HasSession
<1>5. /\ spc = "done" /\ opc[o] \in PollSteps \cup {"idle"} /\ polls[o] < MaxPolls
     /\ mode = "runner" /\ late[o] \in BOOLEAN /\ late' = [late EXCEPT ![o] = late[o]]
     /\ UNCHANGED lstate /\ PollFrame
     /\ osnap' = [osnap EXCEPT ![o] = osnap[o]]
     /\ oalive' = [oalive EXCEPT ![o] = oalive[o]] /\ oalive[o] \in [child : BOOLEAN, runner : BOOLEAN]
  BY <1>1, <1>2, PollFacts
<1>6. /\ UNCHANGED file /\ PollContinues(o, "pids") /\ opane' = [opane EXCEPT ![o] = pane]
      /\ pane \in {opane[o], pane} /\ osnap[o] \in {osnap[o], file}
  BY <1>1
<1> QED  BY <1>2, <1>3, <1>4, <1>5, <1>6, ContinueStep

\* Whether the two processes of a state are alive.
LEMMA AliveShape ==
    ASSUME NEW s \in States PROVE Alive(s) \in [child : BOOLEAN, runner : BOOLEAN]
  BY DEF Alive, States

\* then the processes,
LEMMA PidsPollKeeps ==
    ASSUME TmuxInv, Forward, NEW o \in Observers, PollPids(o) PROVE TmuxInv'
<1>1. /\ opc[o] = "pids" /\ UNCHANGED <<file, osnap, opane, late, lstate>> /\ PollFrame
      /\ oalive' = [oalive EXCEPT ![o] = Alive(osnap[o])]
  BY DEF PollPids
<1>2. PICK to \in {"wait", "reconcile"} : PollContinues(o, to)
  BY DEF PollPids
<1>3. opc[o] \in PollSteps \ {"legacy"} /\ to \in PollSteps /\ to \notin {"load", "pane", "legacy"}
  BY <1>1 DEF PollSteps
<1>4. late[o] /\ killer = "idle" =>
        mode = "runner" /\ rpc = "gone" /\ o \notin Beats /\ opane[o].life = "dead"
  BY <1>1, <1>3, PollFacts DEF LateOK
<1>5. opane[o].life = "absent" => ~HasSession
  BY <1>1, <1>3, PollFacts DEF PollOK
<1>6. Alive(osnap[o]) \in [child : BOOLEAN, runner : BOOLEAN]
  BY <1>3, PollFacts, AliveShape
<1>7. PICK a : a = Alive(osnap[o])
  OBVIOUS
<1> QED  BY <1>1, <1>2, <1>3, <1>4, <1>5, <1>6, <1>7, PollFacts, ContinueStep

\* waits, and reads the file again unless it is finished.
LEMMA WaitPollKeeps ==
    ASSUME TmuxInv, Forward, NEW o \in Observers, PollWait(o) PROVE TmuxInv'
<1>1. opc[o] = "wait" /\ UNCHANGED <<file, late, lstate>> /\ PollFrame
  BY DEF PollWait
<1>2. opc[o] \in PollSteps \ {"legacy"} /\ "recheck" \in PollSteps
  BY <1>1 DEF PollSteps
<1>3. CASE Terminal(file)
  BY <1>1, <1>2, <1>3, TerminalStep DEF PollWait
<1>4. CASE ~Terminal(file)
  <2>1. PICK s \in {osnap[o], file} : osnap' = [osnap EXCEPT ![o] = s]
    BY <1>4 DEF PollWait
  <2>2. PollContinues(o, "recheck") /\ UNCHANGED <<opane, oalive>>
    BY <1>4 DEF PollWait
  <2>3. late[o] /\ killer = "idle" =>
          mode = "runner" /\ rpc = "gone" /\ o \notin Beats /\ opane[o].life = "dead"
    BY <1>1, <1>2, PollFacts DEF LateOK
  <2>4. opane[o].life = "absent" => ~HasSession
    BY <1>1, <1>2, PollFacts DEF PollOK
  <2>5. /\ spc = "done" /\ opc[o] \in PollSteps \cup {"idle"} /\ polls[o] < MaxPolls
       /\ mode = "runner" /\ late[o] \in BOOLEAN /\ late' = [late EXCEPT ![o] = late[o]]
       /\ UNCHANGED lstate /\ PollFrame
       /\ opane' = [opane EXCEPT ![o] = opane[o]]
       /\ oalive' = [oalive EXCEPT ![o] = oalive[o]] /\ oalive[o] \in [child : BOOLEAN, runner : BOOLEAN]
    BY <1>1, <1>2, <2>2, PollFacts
  <2>6. UNCHANGED file /\ opane[o] \in {opane[o], pane} /\ PollContinues(o, "recheck")
    BY <1>1, <2>2
  <2> QED  BY <1>2, <2>1, <2>3, <2>4, <2>5, <2>6, ContinueStep
<1> QED  BY <1>3, <1>4

(* Whatever a poller makes of the pane and the processes is true.          *)
LEMMA ReconciledTrue ==
    ASSUME TmuxInv, Forward, NEW o \in Observers, opc[o] \in {"reconcile", "recheck"},
           NEW aged \in BOOLEAN,
           Terminal(Reconciled(osnap[o], opane[o], aged)),
           file' = Reconciled(osnap[o], opane[o], aged)
    PROVE  file' \in States /\ Terminal(file') /\ Honest(file)'
<1>0. opc[o] \in PollSteps \ {"load", "pane", "legacy"}
  BY DEF PollSteps
<1>1. /\ osnap[o] \in States /\ Honest(osnap[o]) /\ PaneTrue(opane[o]) /\ PollOK(o)
      /\ PhaseInv /\ spc = "done"
  BY <1>0, PollFacts
<1>2. CASE opane[o].life = "dead"
  <2>1. file' = Finish(osnap[o], ResultFromExitCode(opane[o].code))
    BY <1>2 DEF Reconciled
  <2>2. \/ ResultFromExitCode(opane[o].code) = "unknown"
        \/ /\ child = "exited"
           /\ ResultFromExitCode(opane[o].code) = RunnerResult(exitCode)
        \/ /\ child = "none" /\ rpc = "gone"
           /\ ResultFromExitCode(opane[o].code) = "spawn_error"
    BY ZenonT(60), <1>1, <1>2, Codes DEF PaneTrue, PhaseInv
  <2>3. PICK r : r = ResultFromExitCode(opane[o].code)
    OBVIOUS
  <2>4. /\ r \in Results /\ r # "never_launched"
        /\ r \in {"success", "failure", "spawn_error"} => ResultTrue(r)
    BY <2>2, <2>3, Codes DEF Results, ResultTrue
  <2> QED  BY <1>1, <2>1, <2>3, <2>4, FinishTrue
<1>3. CASE opane[o].life # "dead"
  <2>1. \/ file' = Finish(osnap[o], "interrupted")
        \/ file' = Finish(osnap[o], "never_launched") /\ opane[o].life = "absent"
        \/ file' = osnap[o] /\ Terminal(osnap[o])
    BY <1>3 DEF Reconciled
  <2>2. CASE file' = Finish(osnap[o], "interrupted")
    BY <1>1, <2>2, FinishTrue DEF Results
  <2>3. CASE file' = Finish(osnap[o], "never_launched") /\ opane[o].life = "absent"
    <3>1. ~HasSession
      BY <1>0, <1>1, <2>3 DEF PollOK
    <3> QED  BY <1>1, <2>3, <3>1, FinishTrue DEF Results
  <2>4. CASE file' = osnap[o] /\ Terminal(osnap[o])
    <3>1. \A s : Honest(s) => Honest(s)'
      BY HonestStays DEF TmuxInv
    <3>2. \A s : Honest(s) /\ s = file' => Honest(file)'
      BY <3>1 DEF Honest, ResultTrue
    <3> QED  BY <1>1, <2>4, <3>2
  <2> QED  BY <2>1, <2>2, <2>3, <2>4
<1> QED  BY <1>2, <1>3

\* It finishes the state itself if pane or processes say so,
LEMMA ReconcilePollKeeps ==
    ASSUME TmuxInv, Forward, NEW o \in Observers, PollReconcile(o) PROVE TmuxInv'
<1>1. /\ opc[o] \in {"reconcile", "recheck"} /\ UNCHANGED <<osnap, opane, late, lstate>>
      /\ PollFrame
      /\ oalive' = [oalive EXCEPT ![o] = IF opc[o] = "recheck" THEN Alive(osnap[o]) ELSE @]
  BY DEF PollReconcile
<1>2. opc[o] \in PollSteps \ {"load", "pane", "legacy"}
  BY <1>1 DEF PollSteps
<1>3. PICK a \in [child : BOOLEAN, runner : BOOLEAN] : oalive' = [oalive EXCEPT ![o] = a]
  BY <1>1, <1>2, PollFacts, AliveShape
<1>4. PICK aged \in BOOLEAN :
        IF Terminal(Reconciled(osnap[o], opane[o], aged))
        THEN file' = Reconciled(osnap[o], opane[o], aged) /\ PollContinues(o, "reread")
        ELSE UNCHANGED file /\ PollContinues(o, "screen")
  BY DEF PollReconcile
<1>5. late[o] /\ killer = "idle" =>
        mode = "runner" /\ rpc = "gone" /\ o \notin Beats /\ opane[o].life = "dead"
  BY <1>1, <1>2, PollFacts DEF LateOK
<1>6. opane[o].life = "absent" => ~HasSession
  BY <1>1, <1>2, PollFacts DEF PollOK
<1>7. CASE Terminal(Reconciled(osnap[o], opane[o], aged))
  <2>1. file' \in States /\ Terminal(file') /\ Honest(file)'
    BY <1>1, <1>4, <1>7, ReconciledTrue
  <2>2. "reread" \in PollSteps /\ "reread" \notin {"load", "pane", "legacy"}
    BY DEF PollSteps
  <2>3. /\ spc = "done" /\ opc[o] \in PollSteps \cup {"idle"} /\ polls[o] < MaxPolls
       /\ mode = "runner" /\ late[o] \in BOOLEAN /\ late' = [late EXCEPT ![o] = late[o]]
       /\ UNCHANGED lstate /\ PollFrame
       /\ osnap' = [osnap EXCEPT ![o] = osnap[o]]
       /\ opane' = [opane EXCEPT ![o] = opane[o]]
    BY <1>1, <1>2, PollFacts
  <2> QED  BY <1>3, <1>4, <1>5, <1>6, <1>7, <2>1, <2>2, <2>3, ContinueStep
<1>8. CASE ~Terminal(Reconciled(osnap[o], opane[o], aged))
  <2>1. opane[o].life # "dead"
    <3>1. SUFFICES ASSUME opane[o].life = "dead" PROVE FALSE
      OBVIOUS
    <3>2. PICK r \in Results : r = ResultFromExitCode(opane[o].code)
      BY Codes DEF Results
    <3>3. Reconciled(osnap[o], opane[o], aged) = Finish(osnap[o], r)
      BY <3>1, <3>2 DEF Reconciled
    <3> QED  BY <1>2, <1>8, <3>3, PollFacts, FinishShape
  <2>2. ~(late[o] /\ killer = "idle") /\ "screen" \in PollSteps
    BY <1>5, <2>1 DEF PollSteps
  <2>3. /\ spc = "done" /\ opc[o] \in PollSteps \cup {"idle"} /\ polls[o] < MaxPolls
       /\ mode = "runner" /\ late[o] \in BOOLEAN /\ late' = [late EXCEPT ![o] = late[o]]
       /\ UNCHANGED lstate /\ PollFrame
       /\ osnap' = [osnap EXCEPT ![o] = osnap[o]]
       /\ opane' = [opane EXCEPT ![o] = opane[o]]
    BY <1>1, <1>2, PollFacts
  <2> QED  BY <1>3, <1>4, <1>6, <1>8, <2>2, <2>3, ContinueStep
<1> QED  BY <1>7, <1>8

\* reads the file once more,
LEMMA RereadPollKeeps ==
    ASSUME TmuxInv, Forward, NEW o \in Observers, PollReread(o) PROVE TmuxInv'
<1>1. opc[o] = "reread" /\ UNCHANGED <<file, late, lstate>> /\ PollFrame
  BY DEF PollReread
<1>2. opc[o] \in PollSteps \ {"load", "pane", "legacy"} /\ "screen" \in PollSteps
  BY <1>1 DEF PollSteps
<1>3. CASE Terminal(file)
  BY <1>1, <1>2, <1>3, TerminalStep DEF PollReread
<1>4. CASE ~Terminal(file)
  <2>1. /\ PollContinues(o, "screen") /\ osnap' = [osnap EXCEPT ![o] = file]
        /\ UNCHANGED <<opane, oalive>>
    BY <1>4 DEF PollReread
  <2>2. ~(late[o] /\ killer = "idle") /\ (opane[o].life = "absent" => ~HasSession)
    BY <1>1, <1>2, <1>4, PollFacts DEF LateOK, PollOK
  <2>3. /\ spc = "done" /\ opc[o] \in PollSteps \cup {"idle"} /\ polls[o] < MaxPolls
        /\ mode = "runner" /\ late[o] \in BOOLEAN /\ late' = [late EXCEPT ![o] = late[o]]
        /\ UNCHANGED lstate /\ PollFrame
        /\ opane' = [opane EXCEPT ![o] = opane[o]]
        /\ oalive' = [oalive EXCEPT ![o] = oalive[o]]
        /\ oalive[o] \in [child : BOOLEAN, runner : BOOLEAN]
    BY <1>1, <1>2, <2>1, PollFacts
  <2>4. /\ UNCHANGED file /\ PollContinues(o, "screen") /\ osnap' = [osnap EXCEPT ![o] = file]
        /\ file \in {osnap[o], file} /\ opane[o] \in {opane[o], pane}
    BY <1>1, <2>1
  <2> QED  BY <1>2, <2>2, <2>3, <2>4, ContinueStep
<1> QED  BY <1>3, <1>4

\* and looks for a completed prompt.
LEMMA ScreenPollKeeps ==
    ASSUME TmuxInv, Forward, NEW o \in Observers, PollScreen(o) PROVE TmuxInv'
<1>1. opc[o] = "screen" /\ UNCHANGED <<late, lstate>> /\ PollFrame
  BY DEF PollScreen
<1>2. opc[o] \in PollSteps \ {"load", "pane", "legacy"} /\ "confirm" \in PollSteps
  BY <1>1 DEF PollSteps
<1>3. ~(late[o] /\ killer = "idle") /\ (opane[o].life = "absent" => ~HasSession)
  BY <1>1, <1>2, PollFacts DEF LateOK, PollOK
<1>4. CASE PromptCompleted(osnap[o])
  <2>1. /\ file' = Finish(osnap[o], "success") /\ PollContinues(o, "confirm")
        /\ UNCHANGED <<osnap, opane, oalive>>
    BY <1>4 DEF PollScreen
  <2>2. ResultTrue("success")
    BY <1>4 DEF PromptCompleted, ResultTrue
  <2>3. file' \in States /\ Terminal(file') /\ Honest(file)'
    BY <1>2, <2>1, <2>2, PollFacts, FinishTrue DEF Results
  <2>4. /\ spc = "done" /\ opc[o] \in PollSteps \cup {"idle"} /\ polls[o] < MaxPolls
        /\ mode = "runner" /\ late[o] \in BOOLEAN /\ late' = [late EXCEPT ![o] = late[o]]
        /\ UNCHANGED lstate /\ PollFrame
        /\ osnap' = [osnap EXCEPT ![o] = osnap[o]]
        /\ opane' = [opane EXCEPT ![o] = opane[o]]
        /\ oalive' = [oalive EXCEPT ![o] = oalive[o]]
        /\ oalive[o] \in [child : BOOLEAN, runner : BOOLEAN]
    BY <1>1, <1>2, <2>1, PollFacts
  <2>5. /\ PollContinues(o, "confirm")
        /\ osnap[o] \in {osnap[o], file} /\ opane[o] \in {opane[o], pane}
    BY <2>1
  <2> QED  BY <1>2, <1>3, <2>3, <2>4, <2>5, ContinueStep
<1>5. CASE ~PromptCompleted(osnap[o])
  <2>1. PICK res \in {"in_progress", "just_started", "stuck"} :
          /\ PollReturns(o, res) /\ UNCHANGED file
          /\ res = "stuck" => opane[o].life = "absent"
    <3>1. CASE osnap[o].life = "running" /\ oalive[o].child
      BY <1>5, <3>1 DEF PollScreen
    <3>2. CASE ~(osnap[o].life = "running" /\ oalive[o].child)
      BY <1>5, <3>2 DEF PollScreen
    <3> QED  BY <3>1, <3>2
  <2>2. res \in Decided \cup {"in_progress", "just_started", "error"} /\ res # "completed"
    BY <2>1 DEF Decided
  <2>3. mode = "runner" /\ opc[o] \in PollSteps /\ lstate'.polls \in Nat
    BY <1>1, <1>2, PollFacts
  <2>4. PollReturns(o, res) /\ UNCHANGED <<file, late>> /\ UNCHANGED lstate
    BY <1>1, <2>1
  <2> QED  BY <1>1, <1>3, <2>1, <2>2, <2>3, <2>4, ReturnStep
<1> QED  BY <1>4, <1>5

\* The verdict is read off the file that was written.
LEMMA ConfirmPollKeeps ==
    ASSUME TmuxInv, Forward, NEW o \in Observers, PollConfirm(o) PROVE TmuxInv'
<1>1. /\ opc[o] = "confirm" /\ PollReturns(o, TerminalStatus(file))
      /\ UNCHANGED <<file, late, lstate>> /\ PollFrame
  BY DEF PollConfirm
<1> QED  BY <1>1, TerminalStep DEF PollSteps

(* The verdicts on a screen, and the legacy state that goes with them.     *)
LEMMA LegacyPollKeeps ==
    ASSUME TmuxInv, Forward, NEW o \in Observers, PollLegacy(o) PROVE TmuxInv'
<1>1. opc[o] = "legacy" /\ UNCHANGED <<file, late>> /\ PollFrame /\ opc[o] \in PollSteps
  BY DEF PollLegacy, PollSteps
<1>2. /\ TypeOK /\ PollOK(o) /\ LateOK(o) /\ PatientOK(o) /\ lstate.polls \in Nat
      /\ polls[o] \in Nat
  BY TmuxAssumption DEF TmuxInv, TmuxTypes, TypeOK, ObserversInv, ObserverOK
<1>3. /\ ~(late[o] /\ killer = "idle")
      /\ mode = "runner" => ~HasSession
      /\ mode = "legacy" => o \notin Beats
  BY <1>1, <1>2 DEF LateOK, PollOK, TypeOK
<1>4. PICK res \in Decided \cup {"in_progress", "just_started", "error"} :
        /\ PollReturns(o, res) /\ lstate'.polls \in Nat
        /\ mode = "runner" => res = "not_found"
        /\ agent = "claude" => /\ lstate'.polls <= lstate.polls + 1
                               /\ res = "stuck" => lstate.polls + 1 > GracePolls
  <2>0. PICK scr \in Screens :
         CASE ~HasSession ->
                PollReturns(o, "not_found") /\ UNCHANGED output
                /\ lstate' = IF agent = "claude" THEN NoLegacyState ELSE lstate
           [] HasSession /\ agent = "codex" ->
                /\ PollReturns(o, CodexStatus(scr))
                /\ output' = (output \/ CodexStatus(scr) # "in_progress")
                /\ UNCHANGED lstate
           [] HasSession /\ agent = "claude" /\ pane.life = "dead" /\ pane.code # 0 ->
                PollReturns(o, "crashed") /\ output' = TRUE
                /\ lstate' = NoLegacyState
           [] HasSession /\ agent = "claude" /\ ~(pane.life = "dead" /\ pane.code # 0) ->
                /\ UNCHANGED output
                /\ IF ~scr.text THEN PollReturns(o, "error") /\ UNCHANGED lstate
                   ELSE /\ PollReturns(o, ClaudeStatus(lstate, scr))
                        /\ lstate' = LegacySave(lstate, scr)
    BY DEF PollLegacy
  <2>1. NoLegacyState.polls = 0 /\ lstate.polls + 1 \in Nat /\ lstate.polls <= lstate.polls + 1
    BY <1>2 DEF NoLegacyState
  <2>2. CASE ~HasSession
    <3>1. PollReturns(o, "not_found") /\ lstate' \in {lstate, NoLegacyState}
      BY <2>0, <2>2
    <3> QED  BY <1>2, <2>1, <3>1 DEF Decided
  <2>3. CASE HasSession /\ agent = "codex"
    <3>1. PollReturns(o, CodexStatus(scr)) /\ UNCHANGED lstate
      BY <2>0, <2>3
    <3>2. CodexStatus(scr) \in {"completed", "in_progress", "stuck"}
      BY DEF CodexStatus
    <3> QED  BY <1>2, <1>3, <2>3, <3>1, <3>2 DEF Decided
  <2>4. CASE HasSession /\ agent = "claude" /\ pane.life = "dead" /\ pane.code # 0
    <3>1. PollReturns(o, "crashed") /\ lstate' = NoLegacyState
      BY <2>0, <2>4
    <3> QED  BY <1>2, <1>3, <2>1, <2>4, <3>1 DEF Decided
  <2>5. CASE HasSession /\ agent = "claude" /\ ~(pane.life = "dead" /\ pane.code # 0)
    <3>1. \/ PollReturns(o, "error") /\ UNCHANGED lstate
          \/ PollReturns(o, ClaudeStatus(lstate, scr)) /\ lstate' = LegacySave(lstate, scr)
      BY <2>0, <2>5
    <3>2. CASE PollReturns(o, "error") /\ UNCHANGED lstate
      BY <1>2, <1>3, <2>1, <2>5, <3>2
    <3>3. CASE PollReturns(o, ClaudeStatus(lstate, scr)) /\ lstate' = LegacySave(lstate, scr)
      <4>1. lstate'.polls = lstate.polls + 1
        BY <3>3 DEF LegacySave
      <4>2. ClaudeStatus(lstate, scr) \in {"completed", "in_progress", "just_started", "stuck"}
        BY DEF ClaudeStatus, SilentStatus
      <4>3. ClaudeStatus(lstate, scr) = "stuck" => ~(lstate.polls + 1 <= GracePolls)
        BY DEF ClaudeStatus, SilentStatus
      <4>4. ClaudeStatus(lstate, scr) = "stuck" => lstate.polls + 1 > GracePolls
        BY <1>2, <4>3, TmuxAssumption
      <4> QED  BY <1>2, <1>3, <2>1, <2>5, <3>3, <4>1, <4>2, <4>4 DEF Decided
    <3> QED  BY <3>1, <3>2, <3>3
  <2> QED  BY <1>2, <2>2, <2>3, <2>4, <2>5 DEF TypeOK
<1>5. mode = "legacy" /\ agent = "claude" /\ Monitors = {o} =>
        lstate'.polls <= polls[o] + 1 /\ (res = "stuck" => polls[o] + 1 > GracePolls)
  BY <1>2, <1>4, TmuxAssumption DEF PatientOK
<1>6. mode = "runner" \/ o \notin Beats
  BY <1>2, <1>3 DEF TypeOK
<1> QED  BY <1>1, <1>3, <1>4, <1>5, <1>6, ReturnStep

\* The monitor gives up after its polls.
LEMMA MonitorKeeps ==
    ASSUME TmuxInv, Forward, NEW o \in Observers, MonitorReport(o) \/ MonitorTimeout(o)
    PROVE  TmuxInv'
<1>1. /\ UNCHANGED <<file, polls, osnap, opane, oalive, late, lstate>> /\ PollFrame
      /\ opc' = [opc EXCEPT ![o] = "done"] /\ opc[o] \in {"report", "idle"}
  BY DEF MonitorReport, MonitorTimeout
<1>2. PollOK(o) /\ VerdictOK(o) /\ verdict[o] \in Verdicts
  BY DEF TmuxInv, TmuxTypes, ObserversInv, ObserverOK
<1>3. PICK v \in Verdicts :
        /\ verdict' = [verdict EXCEPT ![o] = v]
        /\ v \in {"completed", "incomplete"} => verdict[o] \in {"completed", "incomplete"}
        /\ v = "stuck" => verdict[o] = "stuck"
  BY <1>2 DEF MonitorReport, MonitorTimeout, Verdicts
<1>4. spc = "done"
  BY <1>1, <1>2 DEF MonitorReport, MonitorTimeout, PollOK
<1>5. mode = "runner" /\ v \in {"completed", "incomplete"} => exitCode = 0 \/ prompted
  BY <1>2, <1>3 DEF VerdictOK
<1> QED  BY <1>1, <1>3, <1>4, <1>5, EndStep

-----------------------------------------------------------------------------
(* The theorems about a session.                                           *)

\* Every step of an observer keeps the invariant.
LEMMA PollKeeps == ASSUME TmuxInv, Forward, NEW o \in Observers, Poll(o) PROVE TmuxInv'
  BY StartKeeps, HeartbeatKeeps, LoadPollKeeps, PanePollKeeps, PidsPollKeeps, WaitPollKeeps,
     ReconcilePollKeeps, RereadPollKeeps, ScreenPollKeeps, ConfirmPollKeeps, LegacyPollKeeps,
     MonitorKeeps, Zenon DEF Poll

\* Stuttering keeps it.
LEMMA TmuxStutter == ASSUME TmuxInv, UNCHANGED vars PROVE TmuxInv'
<1>1. UNCHANGED <<mode, agent, file, command, output, pane, spc, ssnap, rpc, rsnap, child,
                  exitCode, prompted, killer, lstate, opc, polls, osnap, opane, oalive,
                  verdict, late>>
  BY DEF vars, envVars, spawnVars, runVars, obsVars
<1>2. TmuxTypes'
  BY <1>1 DEF TmuxInv, TmuxTypes, TypeOK
<1>3. PhaseInv'
  BY <1>1 DEF TmuxInv, PhaseInv, RunnerAlive, HasSession
<1>4. LegacyInv' /\ FileInv'
  BY <1>1 DEF TmuxInv, LegacyInv, FileInv, HasSession
<1>5. HonestInv'
  <2>1. Forward
    BY TmuxForward
  <2>2. PaneTrue(pane)'
    BY <1>1 DEF TmuxInv, HonestInv, PaneTrue
  <2> QED  BY <1>1, <2>1, <2>2, HonestKeeps DEF TmuxInv
<1>6. ObserversInv'
  BY <1>1 DEF TmuxInv, ObserversInv, ObserverOK, PollOK, VerdictOK, LateOK, PatientOK,
              HasSession, Monitors
<1> QED  BY <1>2, <1>3, <1>4, <1>5, <1>6 DEF TmuxInv

\* So every step of the system keeps it.
LEMMA TmuxStep == ASSUME TmuxInv, [Next]_vars PROVE TmuxInv'
<1>1. Forward
  BY TmuxForward
<1>2. CASE Spawn
  BY <1>1, <1>2, SpawnKeeps
<1>3. CASE Run
  BY <1>1, <1>3, RunKeeps
<1>4. CASE \E o \in Observers : Poll(o)
  BY <1>1, <1>4, PollKeeps
<1>5. CASE Environment
  BY <1>1, <1>5, EnvironmentKeeps
<1>6. CASE UNCHANGED vars
  BY <1>6, TmuxStutter
<1> QED  BY <1>2, <1>3, <1>4, <1>5, <1>6, Zenon DEF Next

(* Theorem: in every behaviour of spawner, runner, agent, pollers and      *)
(* killer, whoever of them wrote the unlocked state file last, every copy  *)
(* of it records only what is true of the agent, a dead pane tells the     *)
(* agent's exit, and every poll holds what its next step relies on.        *)
THEOREM TmuxInvariance == Spec => []TmuxInv
<1>1. Init => TmuxInv
  BY InitTmux
<1>2. TmuxInv /\ [Next]_vars => TmuxInv'
  BY TmuxStep
<1> QED  BY <1>1, <1>2, PTL DEF Spec

(* A lone monitor is the set of monitors.                                  *)
LEMMA LoneMonitor ==
    ASSUME Cardinality(Monitors) = 1, NEW o \in Monitors PROVE Monitors = {o}
<1>1. IsFiniteSet(Monitors)
  BY FS_Subset, TmuxAssumption DEF Monitors
<1>2. PICK x : Monitors = {x}
  BY <1>1, FS_Singleton
<1> QED  BY <1>2

(* Theorem: whatever observers are told of a session, and whatever its     *)
(* state file records, is true of it: no success is made up, both mappings *)
(* of exit codes agree, a poll after the runner's exit decides, "stuck" is *)
(* said of a session that is gone or was waited for (session_status,       *)
(* heartbeat_check, cmd_monitor_session).                                  *)
THEOREM VerdictsCorrect == Spec => []VerdictsAreTrue
<1>1. TmuxInv => VerdictsAreTrue
  <2> SUFFICES ASSUME TmuxInv PROVE VerdictsAreTrue
    OBVIOUS
  <2>1. TypeOK /\ Honest(file) /\ \A o \in Observers : ObserverOK(o)
    BY DEF TmuxInv, TmuxTypes, HonestInv, ObserversInv
  <2>2. CompletedIsEarned /\ StuckMeansGone
    BY <2>1 DEF CompletedIsEarned, StuckMeansGone, ObserverOK, VerdictOK
  <2>3. RecordedResultIsTrue
    BY <2>1 DEF RecordedResultIsTrue, Honest, ResultTrue
  <2>4. LatePollDecides
    <3>1. ASSUME NEW o \in Monitors, opc[o] = "idle", late[o] PROVE killer # "idle"
      BY <2>1, <3>1 DEF Monitors, ObserverOK, LateOK
    <3> QED  BY <3>1 DEF LatePollDecides
  <2>5. StuckIsPatient
    <3>1. SUFFICES ASSUME mode = "legacy", agent = "claude", Cardinality(Monitors) = 1,
                          NEW o \in Monitors, verdict[o] = "stuck"
                   PROVE  polls[o] > GracePolls
      BY DEF StuckIsPatient
    <3>2. Monitors = {o} /\ o \in Observers
      BY <3>1, LoneMonitor DEF Monitors
    <3> QED  BY <2>1, <3>1, <3>2 DEF ObserverOK, PatientOK
  <2> QED  BY <2>1, <2>2, <2>3, <2>4, <2>5 DEF VerdictsAreTrue
<1> QED  BY <1>1, TmuxInvariance, PTL

-----------------------------------------------------------------------------
(* A run of evals: the inductive invariant.                                *)

EvalSteps == {"queued", "snapshot", "running", "sync", "measure", "returned", "raised",
              "collected"}
Made == NewFiles \X Evals
Tasks == [pc : EvalSteps, before : SUBSET NewFiles, rc : {-1, 0, 1}]
Metrics == [files : SUBSET Made, rc : {-1, 0, 1, NoResult}]

EvalTypes ==
    /\ isolation \in {"local", "docker"}
    /\ task \in [Evals -> Tasks]
    /\ space \in [Places -> SUBSET Made]
    /\ artifacts \in [Ids -> SUBSET Made]
    /\ metrics \in [Ids -> Metrics]
    /\ loose \subseteq Evals
    /\ results \in [Evals -> {-1, 0, 1, NoResult}]

\* Where a thread is, what main has of it, and what its timeout left behind.
ThreadOK(e) ==
    /\ results[e] \in IF task[e].pc = "collected" THEN {-1, task[e].rc} ELSE {NoResult}
    /\ e \in loose => /\ task[e].pc \in {"sync", "measure", "returned", "collected"}
                      /\ task[e].rc = -1

\* The workspace and the artifacts of an item no other item has the id of: its
\* own, empty until its session runs.
OwnOK(e) ==
    /\ \A x \in space[Place(e)] : x[2] = e
    /\ \A x \in artifacts[IdOf[e]] : x[2] = e
    /\ task[e].pc \in {"queued", "snapshot"} => space[Place(e)] = {}
    /\ task[e].pc \in {"running", "sync"} => task[e].before = {}
    /\ task[e].pc \in {"queued", "snapshot", "running"} => artifacts[IdOf[e]] = {}
    /\ task[e].pc = "sync" /\ isolation = "local" => artifacts[IdOf[e]] = {}

\* A session that ended well, or locally with any return code.
Ended(e) == task[e].rc = 0 \/ (task[e].rc = 1 /\ isolation = "local")
Returned(e) == task[e].pc = "returned" \/ (task[e].pc = "collected" /\ results[e] # -1)

\* Its files are artifacts from the moment they were copied, and measured.
GradedOK(e) ==
    /\ Ended(e) /\ (task[e].pc = "measure" \/ Returned(e)) =>
         artifacts[IdOf[e]] = space[Place(e)]
    /\ Ended(e) /\ task[e].pc = "sync" /\ isolation = "docker" =>
         artifacts[IdOf[e]] = space[Place(e)]
    /\ Ended(e) /\ Returned(e) =>
         metrics[IdOf[e]] = [files |-> artifacts[IdOf[e]], rc |-> task[e].rc]

SummaryOK ==
    evalSummary.done => SummaryAccounts /\ \A e \in Evals : task[e].pc = "collected"

EvalInv ==
    /\ EvalTypes /\ SummaryOK
    /\ \A e \in Evals : ThreadOK(e) /\ (Alone(e) => OwnOK(e) /\ GradedOK(e))

\* Evals of different ids run in different places.
LEMMA PlaceShape ==
    ASSUME isolation \in {"local", "docker"}, NEW e \in Evals
    PROVE  /\ Place(e) \in Places /\ IdOf[e] \in Ids
           /\ \A d \in Evals : d # e /\ Alone(e) => Place(d) # Place(e) /\ IdOf[d] # IdOf[e]
  BY DEF Place, Places, Ids, Alone

\* A step of item d touches only its own workspace, artifacts and metrics.
ItemFrame(d) ==
    /\ UNCHANGED isolation
    /\ \A e \in Evals \ {d} : UNCHANGED <<task[e], results[e]>> /\ (e \in loose' => e \in loose)
    /\ \A p \in Places \ {Place(d)} : space'[p] = space[p]
    /\ \A i \in Ids \ {IdOf[d]} : UNCHANGED <<artifacts[i], metrics[i]>>

\* A summary stays right while the threads rest.
LEMMA SummaryStays ==
    ASSUME SummaryOK, UNCHANGED evalSummary, evalSummary.done => UNCHANGED <<task, results>>
    PROVE  SummaryOK'
  BY DEF SummaryOK, SummaryAccounts

\* A step of one eval leaves what the others have alone.
LEMMA ItemStep ==
    ASSUME EvalInv, NEW d \in Evals, ItemFrame(d), EvalTypes', SummaryOK',
           ThreadOK(d)', Alone(d) => OwnOK(d)' /\ GradedOK(d)'
    PROVE  EvalInv'
<1>1. ASSUME NEW e \in Evals \ {d}
      PROVE  ThreadOK(e)' /\ (Alone(e) => OwnOK(e)' /\ GradedOK(e)')
  <2>1. /\ task'[e] = task[e] /\ results'[e] = results[e] /\ (e \in loose' => e \in loose)
        /\ UNCHANGED isolation
    BY DEF ItemFrame
  <2>2. ThreadOK(e) /\ (Alone(e) => OwnOK(e) /\ GradedOK(e)) /\ isolation \in {"local", "docker"}
    BY DEF EvalInv, EvalTypes
  <2>3. ThreadOK(e)'
    BY <2>1, <2>2 DEF ThreadOK
  <2>4. ASSUME Alone(e) PROVE OwnOK(e)' /\ GradedOK(e)'
    <3>1. /\ Place(e) \in Places \ {Place(d)} /\ IdOf[e] \in Ids \ {IdOf[d]}
      BY <2>2, <2>4, PlaceShape
    <3>2. Place(e)' = Place(e)
      BY <2>1 DEF Place
    <3>3. /\ space'[Place(e)'] = space[Place(e)] /\ artifacts'[IdOf[e]] = artifacts[IdOf[e]]
          /\ metrics'[IdOf[e]] = metrics[IdOf[e]]
      BY <3>1, <3>2 DEF ItemFrame
    <3>4. OwnOK(e)'
      BY <2>1, <2>2, <2>4, <3>3 DEF OwnOK
    <3>5. GradedOK(e)'
      BY <2>1, <2>2, <2>4, <3>3 DEF GradedOK, Ended, Returned
    <3> QED  BY <3>4, <3>5
  <2> QED  BY <2>3, <2>4
<1>2. ASSUME NEW e \in Evals PROVE ThreadOK(e)' /\ (Alone(e) => OwnOK(e)' /\ GradedOK(e)')
  BY <1>1
<1> QED  BY <1>2 DEF EvalInv, Alone

\* Before the first eval starts.
LEMMA InitEvals == ASSUME EvalInit PROVE EvalInv
<1>1. EvalTypes
  <2>1. task \in [Evals -> Tasks]
    BY DEF EvalInit, EvalSteps, Tasks
  <2>2. metrics \in [Ids -> Metrics]
    BY DEF EvalInit, Metrics
  <2> QED  BY <2>1, <2>2 DEF EvalInit, EvalTypes
<1>2. SummaryOK
  BY DEF EvalInit, SummaryOK
<1>3. ASSUME NEW e \in Evals PROVE ThreadOK(e) /\ OwnOK(e) /\ GradedOK(e)
  <2>1. isolation \in {"local", "docker"} /\ Place(e) \in Places /\ IdOf[e] \in Ids
    BY PlaceShape DEF EvalInit
  <2>2. /\ task[e].pc = "queued" /\ space[Place(e)] = {} /\ artifacts[IdOf[e]] = {}
        /\ results[e] = NoResult /\ loose = {}
    BY <2>1 DEF EvalInit
  <2> QED  BY <2>2 DEF ThreadOK, OwnOK, GradedOK, Returned
<1> QED  BY <1>1, <1>2, <1>3 DEF EvalInv

(* The facts every step of an item starts from.                            *)
LEMMA ItemFacts ==
    ASSUME EvalInv, NEW d \in Evals
    PROVE  /\ EvalTypes /\ SummaryOK /\ ThreadOK(d) /\ (Alone(d) => OwnOK(d) /\ GradedOK(d))
           /\ Place(d) \in Places /\ IdOf[d] \in Ids
           /\ task[d].pc # "collected" => ~evalSummary.done
           /\ task[d].pc \in EvalSteps /\ task[d].before \subseteq NewFiles
           /\ task[d].rc \in {-1, 0, 1}
           /\ artifacts[IdOf[d]] \subseteq Made /\ space[Place(d)] \subseteq Made
<1>1. EvalTypes /\ SummaryOK /\ ThreadOK(d) /\ (Alone(d) => OwnOK(d) /\ GradedOK(d))
  BY DEF EvalInv
<1>2. Place(d) \in Places /\ IdOf[d] \in Ids
  BY <1>1, PlaceShape DEF EvalTypes
<1>3. task[d].pc # "collected" => ~evalSummary.done
  BY <1>1 DEF SummaryOK
<1>4. /\ task[d].pc \in EvalSteps /\ task[d].before \subseteq NewFiles
      /\ task[d].rc \in {-1, 0, 1}
  BY <1>1 DEF EvalTypes, Tasks
<1>5. artifacts[IdOf[d]] \subseteq Made /\ space[Place(d)] \subseteq Made
  BY <1>1, <1>2 DEF EvalTypes
<1> QED  BY <1>1, <1>2, <1>3, <1>4, <1>5

\* What a thread must leave of its item: the task t, the artifacts A, the
\* metrics M and the result R.
Left(d, t, A, M, R) ==
    /\ R \in IF t.pc = "collected" THEN {-1, t.rc} ELSE {NoResult}
    /\ d \in loose' => t.pc \in {"sync", "measure", "returned", "collected"} /\ t.rc = -1
    /\ Alone(d) =>
         /\ \A x \in A : x[2] = d
         /\ t.pc \in {"queued", "snapshot"} => space[Place(d)] = {}
         /\ t.pc \in {"running", "sync"} => t.before = {}
         /\ t.pc \in {"queued", "snapshot", "running"} => A = {}
         /\ t.pc = "sync" /\ isolation = "local" => A = {}
         /\ t.rc = 0 \/ (t.rc = 1 /\ isolation = "local") =>
              /\ t.pc \in {"measure", "returned"} => A = space[Place(d)]
              /\ t.pc = "sync" /\ isolation = "docker" => A = space[Place(d)]
              /\ t.pc = "returned" => M = [files |-> A, rc |-> t.rc]
              /\ t.pc = "collected" /\ R # -1 =>
                   A = space[Place(d)] /\ M = [files |-> A, rc |-> t.rc]

(* A thread's step.                                                        *)
LEMMA ThreadStep ==
    ASSUME EvalInv, NEW d \in Evals, task[d].pc # "collected",
           NEW t \in Tasks, task' = [task EXCEPT ![d] = t],
           NEW A \in SUBSET Made, artifacts' = [artifacts EXCEPT ![IdOf[d]] = A],
           NEW M \in Metrics, metrics' = [metrics EXCEPT ![IdOf[d]] = M],
           NEW R \in {-1, 0, 1, NoResult}, results' = [results EXCEPT ![d] = R],
           loose' \in {loose, loose \cup {d}}, UNCHANGED <<isolation, space, evalSummary>>,
           Left(d, t, A, M, R)
    PROVE  EvalInv'
<1>1. EvalTypes /\ SummaryOK /\ Place(d) \in Places /\ IdOf[d] \in Ids /\ ~evalSummary.done
      /\ (Alone(d) => OwnOK(d))
  BY ItemFacts
<1>2. EvalTypes'
  BY <1>1 DEF EvalTypes
<1>3. /\ task'[d] = t /\ artifacts'[IdOf[d]] = A /\ metrics'[IdOf[d]] = M /\ results'[d] = R
  BY <1>1 DEF EvalTypes
<1>4. ItemFrame(d)
  BY <1>1 DEF EvalTypes, ItemFrame
<1>5. SummaryOK'
  BY <1>1, SummaryStays
<1>6. ThreadOK(d)'
  BY <1>3 DEF ThreadOK, Left
<1>7. ASSUME Alone(d) PROVE OwnOK(d)' /\ GradedOK(d)'
  <2>1. Place(d)' = Place(d) /\ space'[Place(d)'] = space[Place(d)]
    BY DEF Place
  <2>2. OwnOK(d)'
    BY <1>1, <1>3, <1>7, <2>1 DEF OwnOK, Left
  <2>3. GradedOK(d)'
    BY <1>3, <1>7, <2>1 DEF GradedOK, Ended, Returned, Left
  <2> QED  BY <2>2, <2>3
<1> QED  BY <1>2, <1>4, <1>5, <1>6, <1>7, ItemStep

\* Copying files into an empty directory, and over others.
LEMMA FilesShape ==
    /\ Names({}) = {}
    /\ \A S \in SUBSET Made : Names(S) \subseteq NewFiles /\ Into({}, S) = S
    /\ \A D, S : Into(D, S) \subseteq D \cup S
    /\ \A D, S \in SUBSET Made : Into(D, S) \in SUBSET Made
<1>1. Names({}) = {}
  BY DEF Names
<1>2. ASSUME NEW S \in SUBSET Made PROVE Names(S) \subseteq NewFiles /\ Into({}, S) = S
  BY DEF Names, Into, Made
<1>3. \A D, S : Into(D, S) \subseteq D \cup S
  BY DEF Into
<1>4. \A D, S \in SUBSET Made : Into(D, S) \in SUBSET Made
  BY <1>3
<1> QED  BY <1>1, <1>2, <1>3, <1>4

(* What a step leaves alone, written as a change of its item.              *)
LEMMA SameItem ==
    ASSUME EvalInv, NEW d \in Evals
    PROVE  /\ artifacts = [artifacts EXCEPT ![IdOf[d]] = artifacts[IdOf[d]]]
           /\ metrics = [metrics EXCEPT ![IdOf[d]] = metrics[IdOf[d]]]
           /\ metrics[IdOf[d]] \in Metrics /\ artifacts[IdOf[d]] \in SUBSET Made
           /\ results = [results EXCEPT ![d] = results[d]]
           /\ results[d] \in {-1, 0, 1, NoResult}
  BY ItemFacts DEF EvalTypes

\* A thread takes an eval off the queue, or fails to stage it.
LEMMA StartEval == ASSUME EvalInv, NEW d \in Evals, EvalStart(d) PROVE EvalInv'
<1>1. PICK pc \in {"snapshot", "raised"} :
        /\ task[d].pc = "queued" /\ task' = [task EXCEPT ![d] = [task[d] EXCEPT !.pc = pc]]
        /\ UNCHANGED <<isolation, space, artifacts, metrics, loose, results, evalSummary>>
  BY DEF EvalStart, EvalStage, Advance
<1>2. /\ ThreadOK(d) /\ (Alone(d) => OwnOK(d)) /\ task[d] \in Tasks
  BY ItemFacts DEF EvalTypes
<1>3. PICK t : t = [task[d] EXCEPT !.pc = pc]
  OBVIOUS
<1>4. t \in Tasks /\ t.pc = pc
  BY <1>2, <1>3 DEF Tasks, EvalSteps
<1>5. results[d] = NoResult /\ d \notin loose
  BY <1>1, <1>2 DEF ThreadOK
<1>6. Alone(d) => artifacts[IdOf[d]] = {} /\ space[Place(d)] = {}
  BY <1>1, <1>2 DEF OwnOK
<1>7. /\ task[d].pc # "collected" /\ task' = [task EXCEPT ![d] = t]
      /\ artifacts' = [artifacts EXCEPT ![IdOf[d]] = artifacts[IdOf[d]]]
      /\ metrics' = [metrics EXCEPT ![IdOf[d]] = metrics[IdOf[d]]]
      /\ results' = [results EXCEPT ![d] = results[d]]
      /\ metrics[IdOf[d]] \in Metrics /\ artifacts[IdOf[d]] \in SUBSET Made
      /\ loose' = loose /\ UNCHANGED <<isolation, space, evalSummary>>
  BY <1>1, <1>3, SameItem
<1>8. Left(d, t, artifacts[IdOf[d]], metrics[IdOf[d]], results[d])
  BY <1>4, <1>5, <1>6, <1>7 DEF Left
<1> QED  BY <1>4, <1>5, <1>7, <1>8, ThreadStep

\* The files before the session are noted.
LEMMA SnapshotEval == ASSUME EvalInv, NEW d \in Evals, EvalSnapshot(d) PROVE EvalInv'
<1>1. /\ task[d].pc = "snapshot"
      /\ task' = [task EXCEPT ![d] =
                    [task[d] EXCEPT !.pc = "running", !.before = Names(space[Place(d)])]]
      /\ UNCHANGED <<isolation, space, artifacts, metrics, loose, results, evalSummary>>
  BY DEF EvalSnapshot
<1>2. /\ ThreadOK(d) /\ (Alone(d) => OwnOK(d)) /\ task[d] \in Tasks
      /\ space[Place(d)] \in SUBSET Made
  BY ItemFacts DEF EvalTypes
<1>3. PICK b : b = Names(space[Place(d)])
  OBVIOUS
<1>4. b \in SUBSET NewFiles /\ (space[Place(d)] = {} => b = {})
  BY <1>2, <1>3, FilesShape
<1>5. PICK t : t = [task[d] EXCEPT !.pc = "running", !.before = b]
  OBVIOUS
<1>6. t \in Tasks /\ t.pc = "running" /\ t.before = b
  BY <1>2, <1>4, <1>5 DEF Tasks, EvalSteps
<1>7. results[d] = NoResult /\ d \notin loose
  BY <1>1, <1>2 DEF ThreadOK
<1>8. Alone(d) => artifacts[IdOf[d]] = {} /\ t.before = {}
  BY <1>1, <1>2, <1>4, <1>6 DEF OwnOK
<1>9. /\ task[d].pc # "collected" /\ task' = [task EXCEPT ![d] = t]
      /\ artifacts' = [artifacts EXCEPT ![IdOf[d]] = artifacts[IdOf[d]]]
      /\ metrics' = [metrics EXCEPT ![IdOf[d]] = metrics[IdOf[d]]]
      /\ results' = [results EXCEPT ![d] = results[d]]
      /\ metrics[IdOf[d]] \in Metrics /\ artifacts[IdOf[d]] \in SUBSET Made
      /\ loose' = loose /\ UNCHANGED <<isolation, space, evalSummary>>
  BY <1>1, <1>3, <1>5, SameItem
<1>10. Left(d, t, artifacts[IdOf[d]], metrics[IdOf[d]], results[d])
  BY <1>6, <1>7, <1>8, <1>9 DEF Left
<1> QED  BY <1>6, <1>7, <1>9, <1>10, ThreadStep

\* What a container leaves is copied out of it.
LEMMA CopiedOutShape ==
    ASSUME EvalInv, NEW d \in Evals, artifacts' = CopiedOut(d)
    PROVE  \E A \in SUBSET Made :
             /\ artifacts' = [artifacts EXCEPT ![IdOf[d]] = A]
             /\ A = IF isolation = "docker" THEN Into(artifacts[IdOf[d]], space[Place(d)])
                    ELSE artifacts[IdOf[d]]
<1>1. CASE isolation = "docker"
  <2>1. PICK A : A = Into(artifacts[IdOf[d]], space[Place(d)])
    OBVIOUS
  <2>2. A \in SUBSET Made
    BY <2>1, ItemFacts, FilesShape
  <2> QED  BY <1>1, <2>1, <2>2 DEF CopiedOut
<1>2. CASE isolation # "docker"
  BY <1>2, SameItem DEF CopiedOut
<1> QED  BY <1>1, <1>2

\* The session ends by itself,
LEMMA EndsEval == ASSUME EvalInv, NEW d \in Evals, SessionEnds(d) PROVE EvalInv'
<1>1. PICK rc \in {0, 1} :
        /\ task[d].pc = "running"
        /\ task' = [task EXCEPT ![d] = [task[d] EXCEPT !.pc = "sync", !.rc = rc]]
        /\ artifacts' = IF rc = 0 THEN CopiedOut(d) ELSE artifacts
        /\ UNCHANGED <<isolation, space, metrics, loose, results, evalSummary>>
  BY DEF SessionEnds
<1>2. /\ ThreadOK(d) /\ (Alone(d) => OwnOK(d)) /\ task[d] \in Tasks
      /\ isolation \in {"local", "docker"} /\ space[Place(d)] \in SUBSET Made
  BY ItemFacts DEF EvalTypes
<1>3. PICK t : t = [task[d] EXCEPT !.pc = "sync", !.rc = rc]
  OBVIOUS
<1>4. t \in Tasks /\ t.pc = "sync" /\ t.before = task[d].before /\ t.rc = rc
  BY <1>2, <1>3 DEF Tasks, EvalSteps
<1>5. PICK A \in SUBSET Made :
        /\ artifacts' = [artifacts EXCEPT ![IdOf[d]] = A]
        /\ A = IF rc = 0 /\ isolation = "docker" THEN Into(artifacts[IdOf[d]], space[Place(d)])
               ELSE artifacts[IdOf[d]]
  BY <1>1, CopiedOutShape, SameItem
<1>6. results[d] = NoResult /\ d \notin loose
  BY <1>1, <1>2 DEF ThreadOK
<1>7. ASSUME Alone(d)
      PROVE  /\ t.before = {} /\ \A x \in A : x[2] = d
             /\ isolation = "local" => A = {}
             /\ rc = 0 /\ isolation = "docker" => A = space[Place(d)]
  <2>1. /\ artifacts[IdOf[d]] = {} /\ task[d].before = {}
        /\ \A x \in space[Place(d)] : x[2] = d
    BY <1>1, <1>2, <1>7 DEF OwnOK
  <2>2. Into({}, space[Place(d)]) = space[Place(d)]
    BY <1>2, FilesShape
  <2>3. A \in {{}, space[Place(d)]}
    BY <1>5, <2>1, <2>2
  <2> QED  BY <1>4, <1>5, <2>1, <2>2, <2>3
<1>8. /\ task[d].pc # "collected" /\ task' = [task EXCEPT ![d] = t]
      /\ metrics' = [metrics EXCEPT ![IdOf[d]] = metrics[IdOf[d]]]
      /\ results' = [results EXCEPT ![d] = results[d]] /\ metrics[IdOf[d]] \in Metrics
      /\ loose' = loose /\ UNCHANGED <<isolation, space, evalSummary>>
  BY <1>1, <1>3, SameItem
<1>9. artifacts' = [artifacts EXCEPT ![IdOf[d]] = A] /\ isolation \in {"local", "docker"}
  BY <1>2, <1>5
<1>10. Left(d, t, A, metrics[IdOf[d]], results[d])
  BY <1>4, <1>6, <1>7, <1>8, <1>9 DEF Left
<1> QED  BY <1>4, <1>6, <1>8, <1>9, <1>10, ThreadStep

\* or is abandoned when its time is over.
LEMMA TimeoutEval == ASSUME EvalInv, NEW d \in Evals, SessionTimeout(d) PROVE EvalInv'
<1>1. /\ task[d].pc = "running"
      /\ task' = [task EXCEPT ![d] = [task[d] EXCEPT !.pc = "sync", !.rc = -1]]
      /\ loose' \in {loose, loose \cup {d}}
      /\ UNCHANGED <<isolation, space, artifacts, metrics, results, evalSummary>>
  BY DEF SessionTimeout
<1>2. /\ ThreadOK(d) /\ (Alone(d) => OwnOK(d)) /\ task[d] \in Tasks
  BY ItemFacts DEF EvalTypes
<1>3. PICK t : t = [task[d] EXCEPT !.pc = "sync", !.rc = -1]
  OBVIOUS
<1>4. t \in Tasks /\ t.pc = "sync" /\ t.before = task[d].before /\ t.rc = -1
  BY <1>2, <1>3 DEF Tasks, EvalSteps
<1>5. results[d] = NoResult /\ results[d] \in {-1, 0, 1, NoResult}
  BY <1>1, <1>2 DEF ThreadOK
<1>6. Alone(d) => artifacts[IdOf[d]] = {} /\ t.before = {}
  BY <1>1, <1>2, <1>4 DEF OwnOK
<1>7. /\ task[d].pc # "collected" /\ task' = [task EXCEPT ![d] = t]
      /\ artifacts' = [artifacts EXCEPT ![IdOf[d]] = artifacts[IdOf[d]]]
      /\ metrics' = [metrics EXCEPT ![IdOf[d]] = metrics[IdOf[d]]]
      /\ results' = [results EXCEPT ![d] = results[d]]
      /\ metrics[IdOf[d]] \in Metrics /\ artifacts[IdOf[d]] \in SUBSET Made
      /\ loose' \in {loose, loose \cup {d}} /\ UNCHANGED <<isolation, space, evalSummary>>
  BY <1>1, <1>3, SameItem
<1>8. Left(d, t, artifacts[IdOf[d]], metrics[IdOf[d]], results[d])
  BY <1>4, <1>5, <1>6, <1>7 DEF Left
<1> QED  BY <1>4, <1>5, <1>7, <1>8, ThreadStep

\* The new files become artifacts.
LEMMA SyncEval == ASSUME EvalInv, NEW d \in Evals, EvalSync(d) PROVE EvalInv'
<1>1. /\ task[d].pc = "sync"
      /\ task' = [task EXCEPT ![d] = [task[d] EXCEPT !.pc = "measure", !.before = {}]]
      /\ artifacts' = IF isolation = "docker" THEN artifacts
                      ELSE [artifacts EXCEPT ![IdOf[d]] =
                              Into(artifacts[IdOf[d]], DiffWorkspace(d))]
      /\ UNCHANGED <<isolation, space, metrics, loose, results, evalSummary>>
  BY DEF EvalSync
<1>2. /\ ThreadOK(d) /\ (Alone(d) => OwnOK(d) /\ GradedOK(d)) /\ task[d] \in Tasks
      /\ isolation \in {"local", "docker"} /\ space[Place(d)] \in SUBSET Made
  BY ItemFacts DEF EvalTypes
<1>3. PICK t : t = [task[d] EXCEPT !.pc = "measure", !.before = {}]
  OBVIOUS
<1>4. t \in Tasks /\ t.pc = "measure" /\ t.rc = task[d].rc
  BY <1>2, <1>3 DEF Tasks, EvalSteps
<1>5. results[d] = NoResult /\ (d \in loose => task[d].rc = -1)
  BY <1>1, <1>2 DEF ThreadOK
<1>6. PICK A \in SUBSET Made :
        /\ artifacts' = [artifacts EXCEPT ![IdOf[d]] = A]
        /\ A = IF isolation = "docker" THEN artifacts[IdOf[d]]
               ELSE Into(artifacts[IdOf[d]], DiffWorkspace(d))
  <2>1. CASE isolation = "docker"
    BY <1>1, <2>1, SameItem
  <2>2. CASE isolation # "docker"
    <3>1. DiffWorkspace(d) \in SUBSET Made
      BY <1>2 DEF DiffWorkspace
    <3>2. PICK A : A = Into(artifacts[IdOf[d]], DiffWorkspace(d))
      OBVIOUS
    <3>3. A \in SUBSET Made
      BY <3>1, <3>2, SameItem, FilesShape
    <3> QED  BY <1>1, <2>2, <3>2, <3>3
  <2> QED  BY <2>1, <2>2
<1>7. ASSUME Alone(d)
      PROVE  /\ \A x \in A : x[2] = d
             /\ task[d].rc = 0 \/ (task[d].rc = 1 /\ isolation = "local") => A = space[Place(d)]
  <2>1. OwnOK(d) /\ GradedOK(d)
    BY <1>2, <1>7
  <2>2. CASE isolation = "docker"
    BY <1>1, <1>6, <2>1, <2>2 DEF OwnOK, GradedOK, Ended
  <2>3. CASE isolation = "local"
    <3>1. DiffWorkspace(d) = space[Place(d)] /\ artifacts[IdOf[d]] = {}
      BY <1>1, <2>1, <2>3 DEF OwnOK, DiffWorkspace
    <3>2. A = space[Place(d)]
      BY <1>2, <1>6, <2>3, <3>1, FilesShape
    <3> QED  BY <2>1, <3>2 DEF OwnOK
  <2> QED  BY <1>2, <2>2, <2>3
<1>8. /\ task[d].pc # "collected" /\ task' = [task EXCEPT ![d] = t]
      /\ metrics' = [metrics EXCEPT ![IdOf[d]] = metrics[IdOf[d]]]
      /\ results' = [results EXCEPT ![d] = results[d]] /\ metrics[IdOf[d]] \in Metrics
      /\ loose' = loose /\ UNCHANGED <<isolation, space, evalSummary>>
  BY <1>1, <1>3, SameItem
<1>9. artifacts' = [artifacts EXCEPT ![IdOf[d]] = A]
  BY <1>6
<1>10. Left(d, t, A, metrics[IdOf[d]], results[d])
  BY <1>4, <1>5, <1>7, <1>8, <1>9 DEF Left
<1> QED  BY <1>4, <1>5, <1>8, <1>9, <1>10, ThreadStep

\* The files and the exit code are recorded as metrics.
LEMMA MeasureEval == ASSUME EvalInv, NEW d \in Evals, EvalMeasure(d) PROVE EvalInv'
<1>1. /\ task[d].pc = "measure"
      /\ task' = [task EXCEPT ![d] = [task[d] EXCEPT !.pc = "returned"]]
      /\ metrics' = [metrics EXCEPT ![IdOf[d]] =
                       [files |-> artifacts[IdOf[d]], rc |-> task[d].rc]]
      /\ UNCHANGED <<isolation, space, artifacts, loose, results, evalSummary>>
  BY DEF EvalMeasure, Advance
<1>2. /\ ThreadOK(d) /\ (Alone(d) => OwnOK(d) /\ GradedOK(d)) /\ task[d] \in Tasks
      /\ artifacts[IdOf[d]] \in SUBSET Made
  BY ItemFacts DEF EvalTypes
<1>3. PICK t : t = [task[d] EXCEPT !.pc = "returned"]
  OBVIOUS
<1>4. t \in Tasks /\ t.pc = "returned" /\ t.rc = task[d].rc
  BY <1>2, <1>3 DEF Tasks, EvalSteps
<1>5. results[d] = NoResult /\ (d \in loose => task[d].rc = -1)
  BY <1>1, <1>2 DEF ThreadOK
<1>6. PICK M : M = [files |-> artifacts[IdOf[d]], rc |-> t.rc]
  OBVIOUS
<1>7. M \in Metrics
  BY <1>2, <1>4, <1>6 DEF Metrics, Tasks
<1>8. Alone(d) =>
        /\ \A x \in artifacts[IdOf[d]] : x[2] = d
        /\ t.rc = 0 \/ (t.rc = 1 /\ isolation = "local") =>
             artifacts[IdOf[d]] = space[Place(d)]
  BY <1>1, <1>2, <1>4 DEF OwnOK, GradedOK, Ended
<1>9. /\ task[d].pc # "collected" /\ task' = [task EXCEPT ![d] = t]
      /\ artifacts' = [artifacts EXCEPT ![IdOf[d]] = artifacts[IdOf[d]]]
      /\ metrics' = [metrics EXCEPT ![IdOf[d]] = M]
      /\ results' = [results EXCEPT ![d] = results[d]]
      /\ artifacts[IdOf[d]] \in SUBSET Made
      /\ loose' = loose /\ UNCHANGED <<isolation, space, evalSummary>>
  BY <1>1, <1>3, <1>4, <1>6, SameItem
<1>10. Left(d, t, artifacts[IdOf[d]], M, results[d])
  BY <1>4, <1>5, <1>6, <1>8, <1>9 DEF Left
<1> QED  BY <1>4, <1>5, <1>7, <1>9, <1>10, ThreadStep

\* The result, or the exception, is collected.
LEMMA CollectEval == ASSUME EvalInv, NEW d \in Evals, EvalCollect(d) PROVE EvalInv'
<1>1. /\ task[d].pc \in {"returned", "raised"}
      /\ task' = [task EXCEPT ![d] = [task[d] EXCEPT !.pc = "collected"]]
      /\ results' = [results EXCEPT ![d] = IF task[d].pc = "raised" THEN -1 ELSE task[d].rc]
      /\ UNCHANGED <<isolation, space, artifacts, metrics, loose, evalSummary>>
  BY DEF EvalCollect, Advance
<1>2. /\ ThreadOK(d) /\ (Alone(d) => OwnOK(d) /\ GradedOK(d)) /\ task[d] \in Tasks
  BY ItemFacts DEF EvalTypes
<1>3. PICK t : t = [task[d] EXCEPT !.pc = "collected"]
  OBVIOUS
<1>4. t \in Tasks /\ t.pc = "collected" /\ t.rc = task[d].rc /\ t.rc \in {-1, 0, 1}
  BY <1>2, <1>3 DEF Tasks, EvalSteps
<1>5. PICK R : R = IF task[d].pc = "raised" THEN -1 ELSE task[d].rc
  OBVIOUS
<1>6. /\ R \in {-1, 0, 1, NoResult} /\ R \in {-1, t.rc} /\ (R # -1 => task[d].pc = "returned")
      /\ d \in loose => t.rc = -1
  BY <1>1, <1>2, <1>4, <1>5 DEF ThreadOK
<1>7. ASSUME Alone(d)
      PROVE  /\ \A x \in artifacts[IdOf[d]] : x[2] = d
             /\ (t.rc = 0 \/ (t.rc = 1 /\ isolation = "local")) /\ R # -1 =>
                  /\ artifacts[IdOf[d]] = space[Place(d)]
                  /\ metrics[IdOf[d]] = [files |-> artifacts[IdOf[d]], rc |-> t.rc]
  <2>2. OwnOK(d) /\ GradedOK(d)
    BY <1>2, <1>7
  <2>3. R # -1 => Returned(d)
    BY <1>6 DEF Returned
  <2>4. t.rc = 0 \/ (t.rc = 1 /\ isolation = "local") => Ended(d)
    BY <1>4 DEF Ended
  <2> QED  BY <1>4, <2>2, <2>3, <2>4 DEF OwnOK, GradedOK
<1>8. /\ task[d].pc # "collected" /\ task' = [task EXCEPT ![d] = t]
      /\ artifacts' = [artifacts EXCEPT ![IdOf[d]] = artifacts[IdOf[d]]]
      /\ metrics' = [metrics EXCEPT ![IdOf[d]] = metrics[IdOf[d]]]
      /\ results' = [results EXCEPT ![d] = R]
      /\ metrics[IdOf[d]] \in Metrics /\ artifacts[IdOf[d]] \in SUBSET Made
      /\ loose' = loose /\ UNCHANGED <<isolation, space, evalSummary>>
  BY <1>1, <1>3, <1>5, SameItem
<1>9. Left(d, t, artifacts[IdOf[d]], metrics[IdOf[d]], R)
  BY <1>4, <1>6, <1>7, <1>8 DEF Left
<1> QED  BY <1>4, <1>6, <1>8, <1>9, ThreadStep

(* The steps a session takes after its thread has gone on.                 *)
LEMMA WritesEval == ASSUME EvalInv, NEW d \in Evals, SessionWrites(d) PROVE EvalInv'
<1>1. PICK f \in NewFiles :
        /\ task[d].pc = "running" \/ d \in loose
        /\ space' = [space EXCEPT ![Place(d)] = @ \cup {<<f, d>>}]
        /\ UNCHANGED <<isolation, task, artifacts, metrics, loose, results, evalSummary>>
  BY DEF SessionWrites
<1>2. EvalTypes /\ Place(d) \in Places /\ space[Place(d)] \subseteq Made /\ <<f, d>> \in Made
  BY ItemFacts DEF Made
<1>3. EvalTypes' /\ space'[Place(d)] = space[Place(d)] \cup {<<f, d>>}
  BY <1>1, <1>2 DEF EvalTypes
<1>4. ItemFrame(d) /\ SummaryOK'
  BY <1>1, <1>2, SummaryStays, ItemFacts DEF ItemFrame, EvalTypes
<1>5. ThreadOK(d)'
  BY <1>1, ItemFacts DEF ThreadOK
<1>6. ASSUME Alone(d) PROVE OwnOK(d)' /\ GradedOK(d)'
  <2>1. Place(d)' = Place(d) /\ OwnOK(d) /\ ThreadOK(d)
    BY <1>1, <1>6, ItemFacts DEF Place
  <2>2. OwnOK(d)'
    BY <1>1, <1>3, <2>1 DEF OwnOK, ThreadOK
  <2>3. GradedOK(d)'
    BY <1>1, <2>1 DEF GradedOK, Ended, Returned, ThreadOK
  <2> QED  BY <2>2, <2>3
<1> QED  BY <1>3, <1>4, <1>5, <1>6, ItemStep

\* A process that outlived its timeout ends.
LEMMA LooseEval == ASSUME EvalInv, NEW d \in Evals, LooseEnds(d) PROVE EvalInv'
<1>1. /\ d \in loose /\ loose' = loose \ {d} /\ artifacts' = CopiedOut(d)
      /\ UNCHANGED <<isolation, task, space, metrics, results, evalSummary>>
  BY DEF LooseEnds
<1>2. EvalTypes /\ IdOf[d] \in Ids /\ ThreadOK(d)
  BY ItemFacts
<1>3. PICK A \in SUBSET Made :
        /\ artifacts' = [artifacts EXCEPT ![IdOf[d]] = A]
        /\ A \in {artifacts[IdOf[d]], Into(artifacts[IdOf[d]], space[Place(d)])}
        /\ isolation = "local" => A = artifacts[IdOf[d]]
  BY <1>1, CopiedOutShape
<1>4. EvalTypes' /\ artifacts'[IdOf[d]] = A
  BY <1>1, <1>2, <1>3 DEF EvalTypes
<1>5. ItemFrame(d) /\ SummaryOK'
  BY <1>1, <1>2, <1>3, SummaryStays, ItemFacts DEF ItemFrame, EvalTypes
<1>6. ThreadOK(d)'
  BY <1>1, <1>2 DEF ThreadOK
<1>7. ASSUME Alone(d) PROVE OwnOK(d)' /\ GradedOK(d)'
  <2>1. Place(d)' = Place(d) /\ OwnOK(d)
    BY <1>1, <1>7, ItemFacts DEF Place
  <2>2. \A x \in A : x[2] = d
    BY <1>3, <2>1, FilesShape DEF OwnOK
  <2>3. OwnOK(d)'
    BY <1>1, <1>2, <1>3, <1>4, <2>1, <2>2 DEF OwnOK, ThreadOK
  <2>4. GradedOK(d)'
    BY <1>1, <1>2 DEF GradedOK, Ended, ThreadOK
  <2> QED  BY <2>3, <2>4
<1> QED  BY <1>4, <1>5, <1>6, <1>7, ItemStep

(* Counting results is counting items: every thread has been collected.    *)
LEMMA SummaryEval == ASSUME EvalInv, EvalSummary PROVE EvalInv'
<1>1. /\ \A e \in Evals : task[e].pc = "collected"
      /\ evalSummary' = [done |-> TRUE,
                   executed |-> Cardinality({e \in Evals : results[e] # NoResult}),
                   failures |-> Cardinality({e \in Evals : results[e] \notin {0, NoResult}})]
      /\ UNCHANGED <<isolation, task, space, artifacts, metrics, loose, results>>
  BY DEF EvalSummary
<1>2. ASSUME NEW e \in Evals PROVE results[e] # NoResult
  <2>1. ThreadOK(e) /\ task[e].rc \in {-1, 0, 1} /\ task[e].pc = "collected"
    BY <1>1, ItemFacts
  <2> QED  BY <2>1 DEF ThreadOK, NoResult
<1>3. {e \in Evals : results[e] # NoResult} = Evals
  BY <1>2
<1>4. {e \in Evals : results[e] \notin {0, NoResult}}
        = {e \in Evals : ~(task[e].pc = "collected" /\ results[e] = 0)}
  BY <1>1, <1>2
<1>5. /\ evalSummary'.executed = Cardinality(Evals)
      /\ evalSummary'.failures =
           Cardinality({e \in Evals : ~(task[e].pc = "collected" /\ results[e] = 0)})
  BY <1>1, <1>3, <1>4
<1>6. SummaryOK'
  BY <1>1, <1>5 DEF SummaryOK, SummaryAccounts
<1>7. EvalTypes'
  BY <1>1 DEF EvalInv, EvalTypes
<1>8. ASSUME NEW e \in Evals PROVE ThreadOK(e)' /\ (Alone(e) => OwnOK(e)' /\ GradedOK(e)')
  <2>1. ThreadOK(e) /\ (Alone(e) => OwnOK(e) /\ GradedOK(e)) /\ Place(e)' = Place(e)
    BY <1>1 DEF EvalInv, Place
  <2> QED  BY <1>1, <2>1 DEF ThreadOK, OwnOK, GradedOK, Ended, Returned
<1> QED  BY <1>6, <1>7, <1>8 DEF EvalInv, Alone

\* Stuttering keeps the invariant.
LEMMA EvalStutter == ASSUME EvalInv, UNCHANGED evalVars PROVE EvalInv'
<1>1. UNCHANGED <<isolation, task, space, artifacts, metrics, loose, results, evalSummary>>
  BY DEF evalVars
<1>2. EvalTypes' /\ SummaryOK'
  BY <1>1, SummaryStays DEF EvalInv, EvalTypes
<1>3. ASSUME NEW e \in Evals PROVE ThreadOK(e)' /\ (Alone(e) => OwnOK(e)' /\ GradedOK(e)')
  <2>1. ThreadOK(e) /\ (Alone(e) => OwnOK(e) /\ GradedOK(e)) /\ Place(e)' = Place(e)
    BY <1>1 DEF EvalInv, Place
  <2> QED  BY <1>1, <2>1 DEF ThreadOK, OwnOK, GradedOK, Ended, Returned
<1> QED  BY <1>2, <1>3 DEF EvalInv, Alone

(* Theorem: for any items, shared ids, number of threads and sessions that *)
(* outlive their timeouts, an item's workspace and artifacts are its own   *)
(* and complete once copied, and main has a result of every finished item. *)
THEOREM EvalInvariance == EvalSpec => []EvalInv
<1>1. EvalInit => EvalInv
  BY InitEvals
<1>2. EvalInv /\ [EvalNext]_evalVars => EvalInv'
  BY StartEval, SnapshotEval, EndsEval, TimeoutEval, SyncEval, MeasureEval, CollectEval,
     WritesEval, LooseEval, SummaryEval, EvalStutter, Zenon DEF EvalNext, Thread
<1> QED  BY <1>1, <1>2, PTL DEF EvalSpec

(* Theorem: run_evals.py grades every eval on its own files, all of them,  *)
(* and its summary counts every item, raised and timed out ones included.  *)
THEOREM EvalsCorrect == EvalSpec => []EvalsAccounted
<1>1. EvalInv => EvalsAccounted
  <2> SUFFICES ASSUME EvalInv PROVE EvalsAccounted
    OBVIOUS
  <2>1. OwnArtifacts
    BY ItemFacts DEF OwnArtifacts, OwnOK
  <2>2. SummaryAccounts
    BY DEF EvalInv, SummaryOK, SummaryAccounts
  <2>3. NothingMissed
    <3>1. SUFFICES ASSUME evalSummary.done, NEW e \in Evals, Alone(e),
                          results[e] = 0 \/ (results[e] = 1 /\ isolation = "local")
                   PROVE  /\ artifacts[IdOf[e]] = space[Place(e)]
                          /\ metrics[IdOf[e]] = [files |-> space[Place(e)], rc |-> results[e]]
      BY DEF NothingMissed
    <3>2. task[e].pc = "collected" /\ ThreadOK(e) /\ GradedOK(e)
      BY <3>1 DEF EvalInv, SummaryOK
    <3>3. results[e] = task[e].rc /\ Ended(e) /\ Returned(e)
      BY <3>1, <3>2 DEF ThreadOK, Ended, Returned
    <3> QED  BY <3>2, <3>3 DEF GradedOK
  <2> QED  BY <2>1, <2>2, <2>3 DEF EvalsAccounted
<1> QED  BY <1>1, EvalInvariance, PTL
=============================================================================
