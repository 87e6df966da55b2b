# TLA+ models of bowerbird

bowerbird records what coding agents do. Hooks of the agent run a tiny *shim*, which
sends one JSON line to a *daemon* over a Unix socket; the daemon appends the event to a
SQLite log, keeps one *projection row* per session (idle, working, waiting for input,
ended), and serves both to *presenters* over REST and WebSocket (Rust, `src/crates`). The
repository also carries the tools it is developed with: CI gates and an audit
(`src/scripts`), and the skills of its agents (`src/.agents/skills`), among them the *story
automator*, which drives agents in tmux sessions, an *eval runner*, and the setup and
builder scripts of modules (all Python).

This directory holds TLA+ modules translated from both, TLC configurations that check them
on small instances, and proofs that TLAPS checks for every instance.

## Inventory

### The daemon

| Part | State it keeps | Operations | Talks to |
|---|---|---|---|
| Session projection (`projection/state.rs`) | none (pure) | `transition`, `current_state_for_read` | called by the write path, rebuild, snapshots, REST |
| Ingest (`ingest/`) | bounded channel, one writer task | `handle` (`try_send`), `writer::run` (receive, drain) | shim, `/replay`; the write path |
| Write path (`projection/session.rs`) | tables `events`, `session_projections`, `recording_sessions`; the one writer connection | `write`, `write_replayed`, `write_if_state_matches`, `supersede_predecessors`, sentinels, `rebuild_missing_projections` | broadcast hub |
| Liveness probe (`projection/liveness.rs`) | rows of the current iteration | `probe_once`, `run_loop` | write path, `kill(pid, 0)` |
| Life cycle (`main.rs`) | which tasks run, shutdown tokens | start, serve, drain, close, crash | all of the above |
| Hub, WebSocket (`broadcast/`, `api/ws.rs`, `projection/snapshot.rs`) | ring buffer, subscriptions, snapshot keys, parked Dropped frame | subscribe, snapshot, forward, coalesce, ping, close | write path (publishes), presenters |
| REST, singleton lock, shim, CLI, adapter | see "Not modelled" | | |

Hard: two tasks (writer and probe) write the same rows through one pooled connection and
give it up between reading and writing; an event is acknowledged before it is stored;
publication follows the commit as a second step; the daemon can crash between any two of
these and rebuilds rows from the log. A WebSocket connection reads a snapshot from the
table while the channel carries older and newer states of the same sessions, loses
envelopes when it is slow without learning which, and must let go of a dead peer.

### The Python tools

| Part | State it keeps | Operations | Hard |
|---|---|---|---|
| tmux sessions (`core/tmux_runtime.py`, `commands/tmux.py`) | a state file per session, the pane | spawn, the generated runner, `monitor-session`, `heartbeat-check`, kill | four kinds of process rewrite one file without a lock |
| runs, policy, marker (`core/runtime_policy.py`, `commands/orchestrator.py`, `commands/state.py`, `core/success_verifiers.py`) | state document, policy snapshot, active marker | build, update, heartbeat, stop hook, escalate, verify | files change under commands that are killed half way |
| stop hooks (`core/stop_hooks.py`) | `settings.json`, `hooks.json`, `config.toml` | ensure-stop-hook | two files, kills, the user's edits |
| agents, presets, story keys, verdicts, layout, epics, documents (`core/`, `commands/`) | JSON, YAML and Markdown files | resolve, save, look up, judge, parse, update | the same thing is read by several parsers |
| eval runner (`bmad-eval-runner/scripts`) | workspaces, artifacts, transcript | a thread pool, a pseudo terminal loop, a stream scanner | hanging sessions, timeouts that leave children, chunked input |
| setup scripts (`bmad-bmb-setup/scripts`) | `config.yaml`, `config.user.yaml`, `module-help.csv`, legacy directories | merge, clean up | files shared by all modules, truncated before they are written |
| builders (`bmad-module-builder`, `bmad-agent-builder`) | scaffolds, a memory agent's sanctum | scaffold, validate, first breath, lint | partial results are judged or extended later |
| CI gates, File List audit (`src/scripts`) | bench summaries; git | bench, gate, measure once more; audit | stale files; git asked several times |
| resolvers, scans (`_bmad/scripts`, `bmad-customize`, `bmad-distillator`) | none | merge layers, list skills, group sources | names that collide |

The hazards, each at its line and with the properties that would catch it, are in
`PROJECT.json`.

## Modules

### Daemon

- **SessionState** - the row of a session, `Transition`, `CurrentStateForRead`, and
  `ReadsAs`, a closed description (no recursion) of the row that a given log determines.
- **Recorder** - writer task, probe task, ingest channel, rebuild, sentinels, start,
  shutdown and crash, as one state machine. An action is what happens between two points
  at which the code gives up the runtime or the connection:
  `WriterRecv -> WriterCommit -> WriterPublish -> SupersedeSelect ->
  (SupersedeEnd -> SupersedePublish | SupersedeSkip)* -> SupersedeDone`, and for the probe
  `ProbeSelect -> (ProbeSpare | ProbeCondemn -> (ProbeEnd -> ProbePublish | ProbeSkip))* ->
  ProbeDone`. `...Fails` actions are pool timeouts and SQL errors at that step.
- **EventLog** - the abstract specification: what the daemon promises whoever sends it
  events (accept, store in order and at most once, lose only by a failed write or a crash,
  stop with nothing pending). `RecorderProperties!Log` instantiates it: accepted is `acked`,
  pending is the channel and the item in flight, stored are the tickets of `events`, lost is
  `gone`, open is that the writer has not exited. Recorder is checked and proved to
  implement it (`ImplementsEventLog`).
- **RecorderProperties** - the properties, the query behind the Hello frame, and the fair
  specification.
- **WsConnection** - one WebSocket connection: the arms of the biased `select!`, the drain,
  the steps [A] to [E] of Subscribe, Unsubscribe, lag with its coalesced Dropped frames,
  ping and pong, the close at shutdown. The publisher is cut down to what a subscriber can
  tell (`Stamp -> Commit -> Publish`, one write at a time); that ids are published in order
  is what Recorder shows of the two tasks that write. **WsProperties** - its properties.
- **RecorderProofs, PublicationProofs, WsProofs** - the proofs, see below. **MCRecorder**,
  **MCWsConnection** and **MCClaims** (a sentence of the code that it does not keep) -
  instances.

### Python tools

- **TmuxSession**, **TmuxProperties** - spawner, runner, agent, observers and killer around
  one state file; a read and the atomic replacement after it are two steps (`ssnap`, `rsnap`,
  `osnap` are what each process has read). Runner and legacy mode.
- **StoryRun**, **StoryProperties** - state documents, policy snapshots, marker, heartbeat,
  stop hook, `escalate`, `verify-step`. A command reads its files one by one (`call`), a
  heartbeat runs beside it (`beat`), the user changes override, environment, policy files,
  sprint status and story files, and a kill may leave the document empty.
- **StopHooks**, **AgentConfig**, **AgentPresets**, **StoryKeys**, **StepVerdict**,
  **SkillLayout**, **EpicBook**, **StateDoc** - the other commands of the automator.
- **EvalRun**, **PtyRun**, **TriggerScan** - the eval runner.
- **ModuleSetup**, **SetupProperties**, **ModuleBuild**, **StandaloneBuild**, **Sanctum** -
  setup and builders; every write of a file is a step between which the script can be killed,
  and an opened file is empty until it is written where the code truncates first.
- **BenchGate**, **FileAudit**, **ConfigLayers**, **SkillScan**, **SourceGroups** - gates,
  audit, resolvers, scans.
- **StoryProofs, SessionsProofs, ToolsProofs, ReaderProofs, SurveyProofs** - the proofs: of a
  run of the automator; of tmux sessions and the eval runner's threads; of audit, gate, hooks,
  agents, sanctum, builder, setup; of what the automator reads and rewrites; of the loops that
  read streams, layers and directories.
- **MCSessions**, **MCAutomator**, **MCTools**, **MCStory** - instances. The first three are
  *sums*: components that share no state and no variable are checked side by side in one
  run. A variable (`driver`, `tool`) chosen initially says which component a behaviour is
  about; the others stay in an initial state. Every behaviour of each component alone is a
  behaviour of the sum, and no behaviour interleaves two of them, which would show nothing
  new about programs that share nothing. Fairness is stated for the component that runs.

Definitions keep the names of the source. A definition whose name ends in `_Something`, or
whose comment begins with "Fault" or "Mutant", is a plausible bug of the definition below
it; replacing the definition by it must violate the property `PROJECT.json` lists with it.

### State and code: Recorder

| Model | Code |
|---|---|
| `events`, `proj`, `recs` | the three tables; `event_id` is the position in `events`, `ended = 0` is NULL |
| `queue` | the `mpsc` channel of `main.rs`, with `Capacity` |
| `writerPc`, `item`, `victims` | where `writer::run` is, its item, the victims left in `supersede_predecessors` |
| `probePc`, `scanned`, `suspect` | where `probe_once` is, its rows, the row about to be ended |
| `owed[t]` | what task `t` has committed and not yet published; while there is one, the connection is checked out (`ConnFree` is false), since `conn` lives to the end of `write_inner` |
| `lastEvent`, `shown` | what the hub was given last |
| `rb`, `phase` | the transaction of `rebuild_missing_projections`; how far `run()` is |
| `now`, `alive` | wall clock, processes: both move on their own |
| `gone`, `excused`, `torn` | history variables, used by properties only |

### State and code: WsConnection

| Model | Code |
|---|---|
| `rows`, `nextId`, `write` | `session_projections` as `snapshot_for_topic` sees it, the last `event_id`, the `write_inner` under way (`old`: what its `now_ms` says of the row) |
| `rows[k].ver` | counts the State envelopes made for the session; `rows[k].old`: past `STALE_WORKING_MS` |
| `backlog`, `missed` | the broadcast receiver: what it has not received, and the `n` of the next `Lagged(n)` |
| `pc`, `job`, `oldRows`, `burst` | where the task is; the request being handled; the clock read at [B]; the frames of [E] not yet sent |
| `subscriptions`, `snapshotted` | `subscriptions`, `snapshotted_keys` |
| `lastDelivered`, `lastDropped`, `pendingCount`, `pendingFirst` | the four lag variables; the window is `recent` or `old` |
| `awaitingPong`, `pongAge`, `pingDue` | `awaiting_pong`, `pong_sleep`, `ping_timer` |
| `inbox`, `pinged`, `daemon` | frames in the socket; a Ping not answered; `shutdown_requested`, `ws_close_requested` |
| `shown`, `lost`, `unreported`, `gap`, `inTime`, `why` | history variables, used by properties only |

### State and code: the Python tools

| Model | Code |
|---|---|
| TmuxSession `file`, `lstate` | the session's JSON state file, `save_session_state`; the legacy one |
| `pane`, `child`, `exitCode` | what tmux and the operating system report |
| `spc`, `rpc`, `opc` | where spawner, generated runner script and each poller are |
| `verdict` | what `session_status` or `heartbeat_check` printed |
| StoryRun `docs`, `snaps`, `marker` | state documents (with the pinned policy's path and hash), snapshot files, `.story-automator-active` |
| `pin`, `active`, `stale`, `during` | history: the policy a run was built with, what the marker should say, overlapping heartbeats, what a command could have seen |
| ModuleSetup `job`, `cut` | the script that runs and what it holds in memory; files that a kill left truncated |
| EvalRun `task`, `space`, `loose` | the threads, the workspaces, processes that outlive their timeout |
| the one-variable modules (`asked`, `book`, `case`, `doc`, `epicFile`, `stack`) | the question or the file a pure command is given; an action makes one |

Abstractions. A daemon session's `source` and `session_id` are one identity in Recorder, two
in WsConnection, because topics look at one or both. Payloads are tickets (the number of the
acceptance). `cwd` follows the rule of `last_pid` and is left out. The 400 answers of the
handler change nothing. The daemon runs on a single-threaded tokio runtime, so code between
two `await`s is one step; `interact` runs on another thread, so commit and publication are
two. Every `await` of a connection lets the writer commit or publish. A PID is not reused
after its process is gone. Corrupt rows are not modelled. In the Python modules texts, keys
and paths are members of small sets, story keys and lines of a file are records of what the
patterns of the code look at, and prompts, screens and messages are reduced to what the
decision depends on. `write_atomic` is one step, `write_text` two (truncated, written).

## Runs

| Run | Instance | Checks |
|---|---|---|
| rollover | 2 sessions, 1 process, 3 events, channel of 2 | one holder per PID; superseded sessions have a later emitter and are ended once (`EndsAreJustified`); every commit published, in order |
| resume | 1 session, 2 processes, 3 events, clock around the stale threshold | a SessionEnded the daemon makes names the PID the session is bound to at that moment (`EndNamesBinding`; a row deleted by hand is excepted); the last published state is the stored one |
| restart | 2 sessions, live, PID-less and replayed events, 2 boots, 1 fault, crashes, deleted rows | rows reflect the log; the daemon implements EventLog; recordings bracket the hooks and the Hello frame flags the first gap (`RecordingsTellGaps`) |
| progress | as rollover with 2 events, 1 fault, fair | accepted events settle, ghosts end, shutdown completes |
| ws_coverage | 1 session, wildcard and single-session topic, with and without a filter, 3 writes, 3 requests, channel of 2 | what is taken for delivered is under a topic and is current or about to be (`CoverageHolds`), also when the daemon says goodbye; an unfiltered subscribe heals |
| ws_lag | 1 session, two event topics, 6 writes, channel of 2 | no lost event lies before the start of the gap in a Dropped frame sent or pending |
| ws_live | 1 session, 1 write, 2 requests, ping timer, pong deadline of 2 ticks, fair | a covered session is brought up to date; a Ping is answered or the connection ends |
| sessions | one tmux session with a monitor and a heartbeat check, 2 polls each; 3 evals on 2 threads, two of one id; a pty session of 3 lines; fair | what is said and recorded of a session is true (`VerdictsAreTrue`); evals are graded on their own files, all accounted for; the transcript is what was printed; everything returns |
| story | 1 run, 1 story, a budget of 2, contracts of 2 versions, 2 outside edits, kills | the policy is pinned; the marker leads to its run and the stop hook follows it; reviews are verified by the pinned contract |
| automator | 2 installers and 1 user edit per file; 2 preset clients; all configurations, keys, verdicts and layouts of small sets; epic files of 5 lines with a rule that adds to the score and one that takes off it; documents of 4 lines, with a text that holds `---` | one property per component, see below |
| tools | 2 legacy directories, 1 other module, kills anywhere; 3 scaffold runs; all baselines and summaries over 4 values; 2 steps of a developer, renames among them; 7 streams, one with two tool calls in a message, 3 runs each; 3 layers of 2 items; 6 sources; 3 roots | one property per component, see below |
| claim_hook_beats_probe | 1 session, 1 process | ends in a counterexample, see "What the code does not keep" |

A property of the sums is the conjunction of the named promises of one component:

- `VerdictsAreTrue` (tmux): a success is the agent's own; whoever finishes the state file
  records the result of the same exit; a poll begun after the runner's exit decides, even when
  the spawner has put an old state back; "stuck" means gone, and comes after the whole grace.
- `EvalsAccounted`: own artifacts, none missed, a summary that counts items that raised.
- `PolicyIsPinned`, `MarkerLeadsToRun`, `VerifiedByPinnedContract` (story run): across
  changed overrides, environment, policy files and kills.
- `HooksInstalledSafely`: never two hooks the automator knows as its own, never a hook
  without the feature, the user's edits
  survive unless they race with an installer, an invalid file stops before anything is written.
- `AgentsAsPlanned`, `KeysAgree`, `LayoutAgrees`: the several readers of a configuration, a
  story key and an installation agree. `PresetsKept`: concurrent commands touch no preset but
  their own. `VerdictIsEarned`: no step goes on with an unusable or unverified answer.
  `EpicIsRead`: own lines, whole choices, and only a reducer makes a story simpler.
  `DocumentSurvives`: an update is read back and disturbs no other key; an update with `---` in
  its text hides what comes below it.
- `SetupKeepsValues`: across repeated runs the core values of a deleted legacy file, the shared
  values, the user's file and the other modules' rows are still stored, no user key is left in
  the shared file, and only installed skills are removed; a kill loses what was in the
  script's memory alone. `ValidatedIsWhole`: a setup skill that passes is one build; a skill made
  a module is whole if no run was killed, and a run that finishes mends all but the merge scripts
  it found. `SanctumIsWhole`: an agent whose birth was not killed is whole if the linter passed
  it, and its owner's files are kept.
- `GateIsHonest`: green is within policy and measured by the attempt that passed, only exit 1 is
  measured again, the numbers that failed are kept; an earlier job's summary stands in where the
  first bench wrote none. `CleanIsTrue`: a clean audit believes nothing, and misses only old names
  of committed renames and what is first committed between its questions. `TriggersAreTrue`: what
  is reported as triggered was, and where the message repeats what was streamed the chunks do not
  matter. `LayersMerge`, `SurveysAreComplete`: nothing removed, nothing twice, the first readable
  copy wins.

Bounds. Every race of the daemon takes two sessions (or one session and two processes), one
turn of the probe and two or three events, so three accepted events let each of them happen;
`MaxFaults = 1` puts one failure at any step; `MaxBoots = 2` gives one restart. The clock
needs two readings further apart than the stale threshold. A connection's channel has its
smallest capacity (2, `MIN_CAPACITY`), so that two writes already evict; three writes and
three requests allow subscribe, lag, unsubscribe and re-subscribe around a write that is
committed and not yet published; six writes are a first Dropped frame, a suppressed lag and
the one that reports it. Of a tmux session two polls of each observer suffice for every order
of its reads and writes relative to the other processes, which take each step once. Two
threads with three evals make one wait for a thread; two of one id share a directory. Two
edits of a run's files put one before and one within a command. `CHECK_DEADLOCK FALSE` where
a bounded environment runs out of inputs or a program ends; `Over` is the end of a
connection, so the ws runs check deadlock.

Fairness. Daemon: the runtime polls every ready task and the pool serves its waiters in
order, so strong fairness for the progress steps of writer and probe (the shared connection
disables them now and then), weak fairness for main; none for the environment, faults or
boots. Connection: a write's transaction ends and is published, the task is polled while an
arm is ready, the pong clock runs, `run()` goes on once the writers are joined; nothing is
asked of the client. Tools: spawner, runner and pollers are processes that the operating
system schedules; threads of the pool run and timeouts expire; the pty loop goes on. Nothing is
asked of the agent, of claude or of a container: they may hang for ever.

### What the code does not keep

**claim_hook_beats_probe** ends in a counterexample: the probe compares state and PID, not
the time of the last event, so a same-state hook stored after its SELECT does not stop it
(the comment on `probe_once` says such a hook wins). The session shows Ended until its next
event.

Other sentences differ from the code, or a promise has an exception that a property states:

- `history_begins_cleanly` stays true after a later recording crashed (`db/queries.rs:128`;
  architecture.md:237-238 says a cursor below a crash gap sees false). `FirstGapIsFlagged` is
  the part that holds. It is false during the first recording although nothing was truncated
  (protocol.md:256).
- The clock of a write is read before its transaction (`projection/session.rs:424`): a row
  that turns stale in between, and is shown as Idle by a snapshot, goes back to Working
  without a State envelope. `CoveredIsCurrent` compares versions, not what a reader makes of
  the clock.
- A Pong in the socket before the deadline does not help if the task looks after it
  (`api/ws.rs:271`; protocol.md:201).
- A session without a usable PID is ended as `no_pid_at_upgrade` at any time (ADR 0004,
  line 40: a one-time cleanup). A lag in the coalescing window with no lag after it is never
  reported, and a lost event may lie above `last_dropped_event_id` (protocol.md:343).
- tmux: a poller that finds neither runner nor agent finishes the state as "interrupted" with
  exit code 1 (`tmux_runtime.py:671-684`), which is reported as "crashed" although the agent
  may have exited with 0 and only its runner was killed; `data/crash-recovery.md:10` has
  "crashed" for a non-zero exit code.
- Story run: a document emptied by a kill in `state.py:150` loses its pin, and later commands
  take the live policy (`runtime_policy.py:523-527`; workflow.md:23 pins it for the run).
- Bench gate: nobody asks whose the summary is. If the first bench exits 0 without writing one,
  that of an earlier run is judged (`run-bench-gate.py:112`; lines 25-26 have exit 2), passes
  green, or is copied to the attempt-1 file (lines 39-40: never an earlier job's). On the second
  attempt the file is one the gate has turned down, so it cannot pass unless it is measured
  anew. A missing `mean_nanos` is a KeyError and ends in exit 1, which is measured again as if it
  were a policy failure; a shim baseline of 0 switches the regression test off.
- File List audit: `git diff --name-only` names a committed rename by its new name alone
  (`check-file-list.py:249-251`). The old path is in no answer, so a list without it is clean
  and a list that names it is reported as drift (lines 10-13 and 173-179 promise both names,
  which only `git status` gives). A path first committed between the two questions is in
  neither answer; leaving both kinds out of the File List ends clean.
- Eval runner: in docker the whole workspace is copied out, not what is new; two runs begun
  in one second share a directory (`utils.py:113`); a query none of whose runs returned counts
  as not triggering, which passes a query that should not. The trigger scanner forgets an
  undecided chunk: if a chunk ends between the two halves of the skill's name and the same
  message then calls another tool, the verdict is no, where an uncut stream gives yes.
- Story keys: `check-epic-complete` looks for the last story by its bare id and does not find
  it among keys with slugs (`orchestrator_epic_agents.py:37`). Epics: a header with two blanks
  is a story to `parse-epic` and a line of the one before to `parse-story`.
- Complexity: five rules have negative scores (`complexity-rules.json:203-231`, "simplicity
  reducers"), so a line that mentions one of their words can move a story to a simpler level and
  weaker agents. A rule counts once, however many lines match. The model has one rule that adds
  and one that takes off; several reducers add up in the same way.
- State documents: front matter ends at the next `---` wherever it is (`frontmatter.py:14`). A
  value that holds it is cut there and hides every key below it; neither `state-update` nor
  `build-state-doc` (`state.py:79,135`) looks for it in what it writes. A row "incomplete"
  counts as completed; an update that only hits a line of the body reports ok.
- Module setup: a user key in the old `core:` section of config.yaml is deleted by the merge
  (`merge-config.py:248-259`) and goes nowhere, although the comment there says it belongs in
  config.user.yaml, unless the answers give it again. A kill between truncating and writing a file
  loses what was in it, and cleanup-legacy.py run before the merge deletes values unread.
- Standalone modules: the validator does not look into the merge scripts and module-setup.md. A
  merge script that a killed run left half written passes, and the next scaffold skips it as the
  author's own (`scaffold-standalone-module.py:111-119`); only removing it by hand mends it.
- Module builder: the validator's `CSV_HEADER` (`validate-module.py:29-33`) and the header of
  the shipped `module-help.csv` name two columns differently; sources inside the target are
  deleted with it. Skill scan: an unreadable copy that comes first is passed over, a bare one
  hides a good one behind it.
- Stop hooks: `--command` takes any text, and a command that the automator does not recognise
  as its own is not found again by an install with another one (`stop_hooks.py:181`): installs
  that alternate between the two add a hook every other time. `OneOwnHook` is about recognised
  commands only.
- Layout: with `AI_COMMAND` set, `--agent` does not change the program that `build-cmd`
  starts. Sanctum: the sample script lists no CAPABILITIES template, so the linter never
  passes it unchanged.

## Proofs

Every theorem holds for all values of the constants that meet the assumptions: any number of
sessions, processes, events, threads, files, crashes and faults. The bounds of the runs are
constants here like the others. Every safety property that a passing run checks, state or action, is
stated by a theorem. Such a property is seldom inductive as it stands; each theorem names
below what had to be added, and is proved with one lemma per action or group of actions that
can disturb it.

### The daemon

- **RecorderProofs!TypeCorrect**: `Spec => []TypeOK`. `TypeInv` is the types plus
  `ControlInv` (what a task holds at each of its control points).
- **RecorderProofs!Reflection**: `Spec => []RowsReflectLog`. One `Transition` takes a row
  that reads the first n events to one that reads n + 1. `RowsReflectLog` is not inductive,
  because `RebuildCommit` replaces the table by rows folded in earlier steps: `RebuildInv`
  says what the rebuild holds on the way and `TaskInv` that nobody writes meanwhile
  (`ReflectionInv`).
- **RecorderProofs!RecorderImplementsEventLog**: `Spec => ImplementsEventLog`: initial states map
  to initial states, and every action of the recorder to a step of EventLog or to none.
  **RecorderProofs!AcceptedCorrect**: `Spec => []AcceptedOnceInOrder`, which places every accepted
  event in exactly one of channel, flight, log and lost. `LifeInv` says when the writer may
  be running and that channel and item are empty once it has exited; `LogInv` that tickets
  ascend along the channel, and that everything settled has a smaller ticket than everything
  pending, so that a commit appends at the end and stores nothing twice.
- **PublicationProofs!EndsCorrect**: `Spec => []EndsAreJustified`. What makes an end right was read
  steps ago: `ScanInv` says that the rows a task selected were not Ended, and that a victim
  is another session that held the item's PID, `EmitterInv` that the event that claimed the
  PID is in the log and no hook came after it while the pass runs, `LiveGoesOn` that the last
  event of a session with a live row is no end, so that the guarded write cannot end it twice.
  **EndNamesBindingCorrect**: the action property, from the same invariant.
- **PublicationProofs!OneHolderCorrect**: `Spec => []OneHolderPerPid`. Two sessions do hold one PID
  while a pass runs; `HolderInv` says that this is so of the running pass's PID alone, and
  that whoever holds it beside the item's session is a victim whose row is still the one
  selected, so that the conditional write of the pass will hit it.
- **PublicationProofs!PublishedCorrect**, **PublicationCorrect**: `PublishedStateIsStored` and
  the action property `PublicationFollowsLog`. `HubInv`: what a task owes is the last event
  and the row it made, nobody else owes (the connection is checked out), and nothing of this
  recording but the event owed is unpublished.
- **PublicationProofs!RecordingsCorrect**: `Spec => []RecordingsTellGaps`. `GapsInv` adds to
  the brackets of the recordings that the oldest event of a session is a hook's: the daemon
  ends only what it knows, so the query behind the Hello frame cannot be led to a sentinel.
- **WsProofs!WsTypeCorrect**: `Spec => []TypeOK` for a connection. `PushShape` says what an
  eviction leaves in the receiver, for every capacity.
- **WsProofs!WsCoverageCorrect**: `Spec => []CoverageHolds`. `CoveredIsCurrent` alone is not
  inductive: dispatching an old State overwrites a newer one that the client was shown.
  `CoverageInv` adds that the versions of a session ascend along the backlog and are not
  ahead of the row, that a State in the backlog is followed by the current one (an eviction
  takes the older first), and that the snapshot frames not yet sent are current or will be
  followed. **WsFinalState**: `Spec => []FinalStateBeforeClose`; `ShutdownInv` says that no
  write is under way once the connections are being closed.
- **WsProofs!WsLossAccounted**: `Spec => []EveryLossAccounted`. `LossInv`: what is
  lost, and what waits in the backlog (in the order of ids), comes after the last delivered
  id; no id in the connection is ahead of the last write committed; and the remembered start
  of a suppressed gap is not after the cursor's successor. The theorem bounds the start of a
  gap only: its end is an estimate (protocol.md:343).
- **WsProofs!WsSubscribeHeals**: the action property `SubscribeHeals`. `HealInv` says of an
  unfiltered burst that each session of its topic is shown already, among the frames to be
  sent, or on its way on the channel.

### The Python tools

- **StoryProofs!PolicyPinned**, **MarkerLeads**, **PinnedContract**: `PolicyIsPinned`,
  `MarkerLeadsToRun`, `VerifiedByPinnedContract`. One invariant, `StoryInv`, says what a
  command holds between its reads: the text it is about to write is whole, the snapshot on
  disk is the one the text names (a snapshot is written first), the policy it loaded is the
  pinned one unless the document was torn, and what it has seen of sprint status and story
  file since it began (`SpanInv`).
- **SessionsProofs!VerdictsCorrect**: `Spec => []VerdictsAreTrue`. Several processes write
  back what they read earlier, so the truth of the file follows from the truth of every copy:
  `HonestInv` says that file, snapshots and panes hold only results that are true for good,
  and `Forward` is what makes them so (exit codes, prompts and the end of a session are never
  taken back). `PhaseInv` ties spawner, runner, agent and pane together, `ObserversInv` says
  what a poll in progress may still conclude.
- **SessionsProofs!EvalsCorrect**: `EvalSpec => []EvalsAccounted`. `EvalInv` follows each
  eval from its workspace to its metrics, for evals whose directory no other eval shares.
- **ToolsProofs**: **AuditCorrect** (`CleanIsTrue`; `AuditHistory`: what the branch held is in
  the first answer, is an old name, or was first committed since), **GateCorrect**
  (`GateIsHonest`; what is in the summary on the second attempt is the second bench's or what
  the gate turned down), **HooksCorrect** (`HooksInstalledSafely`; `HooksInv`: what an installer
  has prepared holds one recognised hook and the user's text unless they raced),
  **AgentsCorrect** (`AgentsAsPlanned`), **SanctumCorrect** (`SanctumIsWhole`; the script
  runs once, and what is still missing is on its list), **BuildCorrect** (`ValidatedIsWhole`;
  `BuildOrder`: an old build and a new one never lie side by side, and the author's help file
  comes last; `RunSoFar`: which files a running scaffold has already written).
- **ToolsProofs!SetupCorrect**: `Spec => SetupKeepsValues`. That a deleted legacy file's values
  are stored is not inductive: between the opening of a file and its writing a value is only in
  the script's memory, and before a deletion it must be known to be in the file. `JobPlanned`
  says for each point of the script what it will still write and what is already stored;
  `ValuesPlanned` that what it holds in memory has every shared value of the files it read.

### What is read and rewritten

Many of the tools' functions are one pass over a list. Their models are recursive functions of
the position, or sets of positions, and what they compute is proved by induction over
positions. The library's induction theorems take a predicate as an operator, so
**ReaderProofs** begins with first-order forms of them, from the fact that a set of naturals
has a least element: `Induct` (a *set* that holds 0 and is closed under the successor up to n
holds 0..n) and `Recursion` (a function defined by one step from its value at n - 1 has a
value at every position). Each pass then has one lemma about one more element.

- **ReaderProofs!LayoutCorrect**: `LayoutAgrees`. The first candidate of a command that runs
  from an installed copy is the explicit root or that copy, whatever else is installed.
- **ReaderProofs!PresetsCorrect**: `PresetsKept`. `PresetsInv` says that names are distinct in
  the file and in every copy a command works on, since a command writes what it made of its own
  copy, however old.
- **ReaderProofs!DocumentCorrect**: `DocumentSurvives`. The parser's pass is described by the
  last line with a key and the items below it, so that an update is seen to change these for
  its own key alone. Where the front matter ends is the first mark, also within a value: an
  update without a mark leaves that line where it is, one with a mark can only move it up to
  the line it changes.
- **ReaderProofs!KeysCorrect**: `KeysAgree`, by what each reader takes for the line of a story
  (the first exact one, or the first with a slug).
- **ReaderProofs!VerdictEarned**: `VerdictIsEarned`. Parsing is the recursive match of a
  payload with its schema; `VerdictInv` remembers between the commands that the number of story
  files was counted before the agent began and again after it.
- **ReaderProofs!EpicCorrect**: `EpicIsRead`, an invariant and an action property. `BookInv`:
  each story's lines are those from its header to the next header or mark, and the choice of
  all stories is the whole epic. That only a reducer makes a story simpler needs that every
  count behind its score grows with the text (`GoesOn`), and that a rule once matched stays so.
- **SurveyProofs!TranscriptCorrect**: `TranscriptIsPrinted`. `PtyInv` places every line of the
  session in one of three parts: taken by the runner, half taken, still in the terminal; what
  is kept is the events of the first part.
- **SurveyProofs!TriggersCorrect**: `TriggersAreTrue`. `ParsedRight` says what the scanner's
  state means for the events so far, wherever the pipe cut them; a verdict names the event that
  gave it. `TriggerInv` carries it through the runs of a query, of which only those that
  returned count.
- **SurveyProofs!SurveysCorrect**: `SurveysAreComplete`, for any number of sources and of
  roots. `ScannedRight` says of the first i roots that a skill is listed from the first
  readable copy among them, and every broken copy reported.
- **SurveyProofs!LayersCorrect**: `LayersMerge`, for any number of layers of any length.
  `LayersInv` carries `Won`, which says of the merge so far whose item each code has and in
  which order, and that a layer's scalar in place of the array starts anew; `Joined` is what
  `_merge_by_key` makes of two arrays, `Taken` the three ways a layer's array is taken.

### What the attempts showed

- `EndNamesBinding` was a state invariant about all earlier ends. With more sessions and
  writes than a run has, a row deleted by hand and made anew forgets its earlier PIDs and the
  invariant fails; it is now about the step that writes, with that exception by name.
- Arms of a CASE that overlap have no first match in TLA+. Where the code has an if-elif
  chain, the models now have IF ... ELSE or disjoint conditions.
- `OneOwnHook` said "one hook". With a command the automator does not recognise it is false
  (see "What the code does not keep").
- `AgentsAsPlanned` needs agents that are not named like the code's markers, and
  `SetupKeepsValues` core keys that are shared or private, never both, and no other module
  named "module". The code's `_CORE_USER_KEYS` are taken out of the shared ones; the others
  are conditions on the input that the small instances met by accident. They are ASSUMEs now.
- "However a stream is cut, the verdict is the same" is false of a message that calls the skill
  and then another tool. `ChunkingIrrelevant` has the condition under which it holds as its
  antecedent (`Echoes`: the first message repeats what was streamed before it); of every other
  stream `YesIsNamed` says what is left, that a yes is never wrong. The runs have a stream of
  both kinds.
- "A line more never makes a story simpler" and "an update touches its own key only" were proved
  of models without negative scores and without `---` in values. Both are weaker now, as the
  code is.
- `PassedIsWhole` once excused the half-written files by name and then followed from the
  definitions. It now excuses killed runs, and `FinishedIsWhole` says what a later run mends.

### Assumptions

The proofs assume only what the modules state in named ASSUMEs, which TLC evaluates on every
instance. Recorder: `Daemon` is no session, `NoPid` no process, `NoRow` no row, inputs are
envelopes the adapter or `/replay` can make, the capacity is positive. Connection: topics and
sessions have the fields of the code's types, the capacity is at least `MIN_CAPACITY`. tmux:
finitely many observers, exit codes of a byte. Story run: the bundled policy has integer
limits, the contracts name sources the code knows. Tools: see above; a baseline's numbers are
integers; the standard templates of a sanctum are templates. Readers and surveys: the empty
string is no key, text or root; "unknown" is no status a sprint file spells; an item without a
code has the empty one (`Unset`). Two recursions of the code are unrolled as deep as its data
go: schemas are tables of rules and of tables of rules (`_matches_schema`), configuration files
tables of tables of arrays and scalars (`deep_merge`); arrays may have any length, and there may
be any number of layers.

### Only model-checked

Everything under fairness: `AcceptedSettles`, `GhostsEnd`, `ShutdownCompletes`,
`CoveredConverges`, `DeadPeerIsClosed`, `EverythingReturns`. ENABLED is out of the provers'
reach, so these hold on the instances of the runs. `claim_hook_beats_probe` is a
counterexample and has nothing to prove.

The type invariants of Recorder and WsConnection, `AcceptedOnceInOrder` and that
`Transition`, folded, reads the log are proved and need no run.

## Not modelled

- **REST queries**: reads of one table each; cursor pages are queries over an append-only log.
- **Singleton lock, server.json, CLI start, stop, status**: the lock is the kernel's `flock`,
  which the code only wraps; the rest is sequential I/O around it.
- **Shim**: one budgeted round trip that promises nothing; a late event is stored at most once
  by EventLog.
- **Hook installation (Rust), launch agent, export and replay commands, token chain, panic
  hook, configuration**: sequential I/O without shared state.
- **Builder linters and HTML reports** (scan-scripts.py, scan-path-standards.py,
  prepass-*.py but the sanctum's, generate-html-report.py in both builders): stateless text
  scanners and formatting. Reading them showed one thing: `prepass-execution-deps.py:203` never
  fills its dependency graph. **Template processor**: a pure text function.
- **Automator**: dispatch of the command line, printing, subprocess wrappers.
