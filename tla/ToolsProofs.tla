---------------------------- MODULE ToolsProofs ----------------------------
(***************************************************************************)
(* Proofs about the repository's tools, for any paths, summaries, hook     *)
(* commands, configurations and modules, and any number of processes.      *)
(***************************************************************************)
EXTENDS FileAudit, BenchGate, StopHooks, AgentConfig, Sanctum, StandaloneBuild,
        SetupProperties, TLAPS

-----------------------------------------------------------------------------
(* The File List audit (scripts/check-file-list.py).                       *)

AuditTypes ==
    /\ tree \in SUBSET Paths /\ branch \in SUBSET Paths /\ listed \in SUBSET ListEntries
    /\ section \in BOOLEAN /\ base \in BOOLEAN /\ ignore \in SUBSET Paths
    /\ renamed \in SUBSET Paths
    /\ run \in [pc : {"idle", "branch", "tree", "done"}, declared : SUBSET ListEntries,
                changed : SUBSET Paths]
    /\ others \in [n : Nat, seen : SUBSET Paths, ever : SUBSET Paths, moved : SUBSET Paths,
                   old : SUBSET Paths]

\* What the history and the answers of git so far say of each other.  Between
\* the two questions only a commit moves a path from one answer to the other,
\* and only the old name of a rename is left out of the first.
AuditHistory ==
    /\ run.pc \in {"branch", "tree"} =>
         others.seen \subseteq tree \cup branch /\ tree \cup branch \subseteq others.ever
    /\ run.pc = "tree" =>
         /\ run.changed \subseteq others.ever
         /\ base => branch \subseteq run.changed \cup others.old \cup others.moved
    /\ run.pc = "done" =>
         /\ run.changed \subseteq others.ever
         /\ base => others.seen \ ignore \subseteq run.changed \cup others.old \cup others.moved

AuditInv == AuditTypes /\ AuditHistory

(* The questions of the audit keep the invariant.                           *)
LEMMA AuditAsks ==
    ASSUME AuditInv, AuditRead \/ AuditBranch \/ AuditTree \/ AuditAgain
    PROVE  AuditInv'
<1> USE AuditAssumption DEF AuditInv, AuditTypes, AuditHistory, ListEntries
<1>1. CASE AuditRead
  <2>1. PICK tracked \in {Paths, Paths \ Bare} :
          run' = [NoAudit EXCEPT !.pc = "branch", !.declared =
                    IF section THEN {e \in listed : LooksLikePath(e, tracked)} ELSE {}]
    BY <1>1 DEF AuditRead
  <2>2. run' = [pc |-> "branch", changed |-> {}, declared |->
                  IF section THEN {e \in listed : LooksLikePath(e, tracked)} ELSE {}]
    BY <2>1 DEF NoAudit
  <2>3. others' = [n |-> 0, seen |-> tree \cup branch, ever |-> tree \cup branch,
                   moved |-> {}, old |-> {}]
    BY <1>1 DEF AuditRead, Quiet
  <2>4. run'.pc = "branch" /\ run'.changed = {} /\ run'.declared \subseteq listed
    BY <2>2, Zenon
  <2>5. run' \in [pc : {"idle", "branch", "tree", "done"}, declared : SUBSET ListEntries,
                  changed : SUBSET Paths]
    <3>1. listed \subseteq ListEntries
      OBVIOUS
    <3>2. run'.declared \in SUBSET ListEntries
      BY <2>4, <3>1
    <3>3. run' = [pc |-> run'.pc, changed |-> run'.changed, declared |-> run'.declared]
      BY <2>2, Zenon
    <3>4. QED
      BY <2>4, <3>2, <3>3
  <2>6. UNCHANGED <<tree, branch, renamed, listed, section, ignore, base>>
    BY <1>1 DEF AuditRead
  <2>7. QED
    BY <2>3, <2>4, <2>5, <2>6
<1>2. CASE AuditBranch
  BY <1>2 DEF AuditBranch
<1>3. CASE AuditTree
  BY <1>3 DEF AuditTree
<1>4. CASE AuditAgain
  BY <1>4 DEF AuditAgain, NoAudit, Quiet
<1>5. QED
  BY <1>1, <1>2, <1>3, <1>4

(* What somebody else's step does to the history: a path it brings into the *)
(* branch after the branch was asked for is remembered as moved.            *)
LEMMA HistoryGoesOn ==
    ASSUME AuditInv, NEW committed \in SUBSET Paths, OtherSteps(committed),
           tree' \in SUBSET Paths, branch' \in SUBSET Paths, renamed' \in SUBSET Paths,
           listed' \in SUBSET ListEntries,
           branch' \subseteq branch \cup committed
    PROVE  AuditInv'
<1>1. UNCHANGED <<section, ignore, base, run>> /\ run.pc # "done"
  BY DEF OtherSteps
<1>2. CASE run.pc = "idle"
  <2>1. others' = others
    BY <1>2 DEF OtherSteps, Asking
  <2>2. QED
    BY <1>1, <1>2, <2>1 DEF AuditInv, AuditTypes, AuditHistory
<1>3. CASE run.pc \in {"branch", "tree"}
  <2> DEFINE more == IF run.pc = "tree" THEN committed \ branch ELSE {}
  <2>1. others' = [n     |-> others.n + 1,
                   seen  |-> others.seen \cap (tree' \cup branch'),
                   ever  |-> others.ever \cup tree' \cup branch',
                   moved |-> others.moved \cup more,
                   old   |-> others.old]
    BY <1>3 DEF OtherSteps, Asking
  <2>2. more \in SUBSET Paths /\ (run.pc = "tree" => more = committed \ branch)
    OBVIOUS
  <2> HIDE DEF more
  <2>3. AuditTypes'
    <3>1. others \in [n : Nat, seen : SUBSET Paths, ever : SUBSET Paths, moved : SUBSET Paths,
                      old : SUBSET Paths]
      BY DEF AuditInv, AuditTypes
    <3>2. others' \in [n : Nat, seen : SUBSET Paths, ever : SUBSET Paths, moved : SUBSET Paths,
                       old : SUBSET Paths]
      BY <2>1, <2>2, <3>1
    <3>3. QED
      BY <1>1, <3>2 DEF AuditInv, AuditTypes
  <2>4. /\ others'.seen = others.seen \cap (tree' \cup branch')
        /\ others'.ever = others.ever \cup tree' \cup branch'
        /\ others'.moved = others.moved \cup more /\ others'.old = others.old
    BY <2>1
  <2>5. AuditHistory'
    <3>1. others'.seen \subseteq tree' \cup branch' /\ tree' \cup branch' \subseteq others'.ever
      BY <2>4
    <3>2. ASSUME run.pc = "tree"
          PROVE  /\ run.changed \subseteq others'.ever
                 /\ base => branch' \subseteq run.changed \cup others'.old \cup others'.moved
      <4>1. /\ run.changed \subseteq others.ever
            /\ base => branch \subseteq run.changed \cup others.old \cup others.moved
        BY <3>2 DEF AuditInv, AuditHistory
      <4>2. more = committed \ branch
        BY <2>2, <3>2
      <4>3. ASSUME base PROVE branch' \subseteq run.changed \cup others'.old \cup others'.moved
        BY <2>4, <4>1, <4>2, <4>3
      <4>4. QED
        BY <2>4, <4>1, <4>3
    <3>3. run'.pc # "done" /\ run' = run /\ base' = base
      BY <1>1
    <3>4. QED
      BY <3>1, <3>2, <3>3 DEF AuditHistory
  <2>6. QED
    BY <2>3, <2>5 DEF AuditInv
<1>4. QED
  BY <1>1, <1>2, <1>3 DEF AuditInv, AuditTypes

(* So does whatever the developer does meanwhile.                           *)
LEMMA OthersGoOn ==
    ASSUME AuditInv, Edit \/ Revert \/ Commit \/ Rewrite
    PROVE  AuditInv'
<1>1. /\ tree \in SUBSET Paths /\ branch \in SUBSET Paths /\ listed \in SUBSET ListEntries
      /\ renamed \in SUBSET Paths /\ {} \in SUBSET Paths
  BY DEF AuditInv, AuditTypes
<1>2. CASE Edit
  BY <1>1, <1>2, HistoryGoesOn DEF Edit
<1>3. CASE Revert
  BY <1>1, <1>3, HistoryGoesOn DEF Revert
<1>4. CASE Commit
  <2>1. PICK some \in (SUBSET tree) \ {{}} : \E back \in SUBSET (some \cap branch) :
          /\ tree' = tree \ some /\ branch' = (branch \cup some) \ back
          /\ renamed' \in OldNames(branch')
          /\ UNCHANGED listed /\ OtherSteps(some)
    BY <1>4, Zenon DEF Commit
  <2>2. renamed' \subseteq branch'
    BY <2>1 DEF OldNames
  <2>3. QED
    BY <1>1, <2>1, <2>2, HistoryGoesOn
<1>5. CASE Rewrite
  <2>1. PICK e \in ListEntries : listed' = (listed \ {e}) \cup ({e} \ listed)
    BY <1>5 DEF Rewrite
  <2>2. UNCHANGED <<tree, branch, renamed>> /\ OtherSteps({})
    BY <1>5 DEF Rewrite
  <2>3. QED
    BY <1>1, <2>1, <2>2, HistoryGoesOn
<1>6. QED
  BY <1>2, <1>3, <1>4, <1>5

(* The invariant holds however the audit's questions to git and the steps   *)
(* of a developer interleave.                                               *)
THEOREM AuditInvariance == AuditSpec => []AuditInv
<1>1. AuditInit => AuditInv
  BY AuditAssumption DEF AuditInit, AuditInv, AuditTypes, AuditHistory, ListEntries, NoAudit, Quiet
<1>2. AuditInv /\ [AuditNext]_auditVars => AuditInv'
  <2> SUFFICES ASSUME AuditInv, [AuditNext]_auditVars PROVE AuditInv'
    OBVIOUS
  <2>1. CASE UNCHANGED auditVars
    BY <2>1 DEF AuditInv, AuditTypes, AuditHistory, auditVars
  <2>2. QED
    BY <2>1, AuditAsks, OthersGoOn DEF AuditNext
<1>3. QED
  BY <1>1, <1>2, PTL DEF AuditSpec

(* CleanIsTrue of check-file-list.py: a clean report misses no change but   *)
(* the old name of a committed rename and a path first committed between    *)
(* the questions to git, and believes no entry, whatever is edited,         *)
(* reverted, committed or rewritten between the questions, and for any      *)
(* paths, folders and number of such steps.                                 *)
THEOREM AuditCorrect == AuditSpec => []CleanIsTrue
<1>1. AuditInv => CleanMissesNothing
  BY DEF AuditInv, AuditTypes, AuditHistory, CleanMissesNothing, Clean, Missing, IsDeclared
<1>2. AuditInv => CleanBelievesNothing
  BY DEF AuditInv, AuditTypes, AuditHistory, CleanBelievesNothing, Clean, Unchanged, IsSatisfied
<1>3. QED
  BY <1>1, <1>2, AuditInvariance, PTL DEF CleanIsTrue

-----------------------------------------------------------------------------
(* The bench gate (scripts/run-bench-gate.py and the two gates).           *)

SummaryType == [state : {"missing", "unreadable", "partial", "ok"}, by : 0 .. 2,
                p99 : [Shapes -> Nat]]

BenchTypes ==
    /\ kind \in {"shim", "daemon"} /\ baseline \in Baselines
    /\ summary \in SummaryType /\ attempt1 \in SummaryType
    /\ step \in [pc : {"start", "bench", "gate", "done", "propagated"}, attempt : {1, 2}]
    /\ gates \in [{1, 2} -> Int] /\ exit \in Int /\ wrote \subseteq {1, 2}

\* The exit code is given by the last step alone, and what the two attempts
\* leave behind is in order before it as well.
BenchHistory ==
    /\ step.pc = "start" => step.attempt = 1
    /\ step.pc \in {"start", "bench", "gate"} => exit = -1
    /\ step.pc = "propagated" => exit # 0
    /\ step.attempt = 2 => gates[1] = 1
    /\ exit = 1 /\ step.pc = "done" => gates[1] = 1 /\ gates[2] = 1
    /\ step.pc # "start" /\ attempt1.state # "missing" =>
         step.attempt = 2 /\ gates[1] = 1 /\ GateExit(kind, attempt1, baseline) = 1
    /\ exit = 0 => GateExit(kind, summary, baseline) = 0

\* The summary is that of the last attempt that wrote one, and while it is the
\* one the gate turned down it is turned down again.
BenchWriters ==
    /\ \A a \in wrote : a <= summary.by /\ a <= step.attempt
    /\ summary.by \in wrote \cup {0}
    /\ step.pc = "start" => wrote = {}
    /\ step.attempt = 2 /\ 2 \notin wrote => GateExit(kind, summary, baseline) = 1
    /\ step.pc # "start" /\ attempt1.state # "missing" =>
         attempt1.by = 1 \/ (attempt1.by = 0 /\ 1 \notin wrote)

BenchInv == BenchTypes /\ BenchHistory /\ BenchWriters

(* A bench that measures, fails or writes nothing keeps the invariant.      *)
LEMMA BenchRuns ==
    ASSUME BenchInv, BenchStart \/ BenchBreaks \/ BenchMeasures \/ BenchWritesNothing
    PROVE  BenchInv'
<1> USE BenchAssumption DEF BenchInv, BenchTypes, BenchHistory, BenchWriters, SummaryType
<1>1. CASE BenchStart
  <2>1. attempt1' \in SummaryType /\ attempt1'.state = "missing"
    BY <1>1 DEF BenchStart, NoSummary
  <2>2. step' = [pc |-> "bench", attempt |-> 1] /\ step.pc = "start"
    BY <1>1 DEF BenchStart, Goto
  <2>3. UNCHANGED <<kind, baseline, summary, gates, wrote, exit>>
    BY <1>1 DEF BenchStart, Goto
  <2>4. QED
    BY <2>1, <2>2, <2>3
<1>2. CASE BenchBreaks
  <2>1. /\ summary' \in SummaryType
        /\ \/ UNCHANGED <<summary, wrote>>
           \/ summary'.by = step.attempt /\ wrote' = wrote \cup {step.attempt}
    <3>1. step.attempt \in 0 .. 2
      OBVIOUS
    <3>2. /\ [summary EXCEPT !.state = "unreadable", !.by = step.attempt] \in SummaryType
          /\ [summary EXCEPT !.state = "unreadable", !.by = step.attempt].by = step.attempt
      BY <3>1
    <3>3. QED
      BY <1>2, <3>2 DEF BenchBreaks
  <2>2. step' = [step EXCEPT !.pc = "propagated"] /\ step.pc = "bench"
    BY <1>2 DEF BenchBreaks
  <2>3. exit' \in {1, 2, 101}
    BY <1>2 DEF BenchBreaks
  <2>4. UNCHANGED <<kind, baseline, attempt1, gates>>
    BY <1>2 DEF BenchBreaks
  <2>5. QED
    BY <2>1, <2>2, <2>3, <2>4
<1>3. CASE BenchMeasures
  <2>1. PICK p \in [Shapes -> Nanos], st \in {"ok", "unreadable", "partial"} :
          summary' = [state |-> st, by |-> step.attempt, p99 |-> p]
    BY <1>3 DEF BenchMeasures
  <2>2. p \in [Shapes -> Nat] /\ step.attempt \in 0 .. 2
    <3>1. Nanos \subseteq Nat
      OBVIOUS
    <3>2. \A s \in Shapes : p[s] \in Nat
      BY <3>1
    <3>3. QED
      BY <3>2
  <2>3. summary' \in SummaryType /\ summary'.by = step.attempt /\ wrote' = wrote \cup {step.attempt}
    BY <1>3, <2>1, <2>2 DEF BenchMeasures
  <2>4. step' = [pc |-> "gate", attempt |-> step.attempt] /\ step.pc = "bench"
    BY <1>3 DEF BenchMeasures, Goto
  <2>5. UNCHANGED <<kind, baseline, attempt1, gates, exit>>
    BY <1>3 DEF BenchMeasures, Goto
  <2>6. step'.attempt = step.attempt /\ step'.pc = "gate" /\ step.attempt \in {1, 2}
        /\ step' \in [pc : {"start", "bench", "gate", "done", "propagated"}, attempt : {1, 2}]
    BY <2>4
  <2>7. BenchTypes'
    BY <2>3, <2>5, <2>6
  <2>8. BenchHistory'
    BY <2>4, <2>5, <2>6
  <2>9. BenchWriters'
    BY <2>3, <2>4, <2>5, <2>6
  <2>10. QED
    BY <2>7, <2>8, <2>9
<1>4. CASE BenchWritesNothing
  BY <1>4 DEF BenchWritesNothing, Goto, End
<1>5. QED
  BY <1>1, <1>2, <1>3, <1>4

(* So does the gate, whatever ends it.                                      *)
LEMMA GateKeeps ==
    ASSUME BenchInv, GateRuns
    PROVE  BenchInv'
<1> USE BenchAssumption DEF BenchInv, BenchTypes, BenchHistory, BenchWriters, SummaryType
<1>0. GateExit(kind, summary, baseline) \in {0, 1, 2}
  BY DEF GateExit, ShimGate, DaemonGate
<1>1. PICK code \in {GateExit(kind, summary, baseline), 2, 137} :
        /\ gates' = [gates EXCEPT ![step.attempt] = code]
        /\ CASE NextAfterGate(code, step.attempt) = "pass" -> End(0) /\ UNCHANGED attempt1
             [] NextAfterGate(code, step.attempt) = "broken" -> End(2) /\ UNCHANGED attempt1
             [] NextAfterGate(code, step.attempt) = "fail" -> End(1) /\ UNCHANGED attempt1
             [] OTHER -> Goto("bench", 2) /\ attempt1' \in {attempt1, summary}
  BY DEF GateRuns
<1>2. step.pc = "gate" /\ UNCHANGED <<kind, baseline, summary, wrote>>
  BY DEF GateRuns
<1>3. CASE code = 0
  <2>1. End(0) /\ UNCHANGED attempt1
    BY <1>1, <1>3 DEF NextAfterGate
  <2>2. QED
    BY <1>1, <1>2, <1>3, <2>1 DEF End
<1>4. CASE code \in {2, 137}
  <2>1. End(2) /\ UNCHANGED attempt1
    BY <1>1, <1>4 DEF NextAfterGate
  <2>2. QED
    BY <1>1, <1>2, <1>4, <2>1 DEF End
<1>5. CASE code = 1 /\ step.attempt = 2
  <2>1. End(1) /\ UNCHANGED attempt1
    BY <1>1, <1>5 DEF NextAfterGate
  <2>2. QED
    BY <1>1, <1>2, <1>5, <2>1 DEF End
<1>6. CASE code = 1 /\ step.attempt = 1
  <2>1. Goto("bench", 2) /\ attempt1' \in {attempt1, summary}
    BY <1>1, <1>6 DEF NextAfterGate
  <2>2. QED
    BY <1>0, <1>1, <1>2, <1>6, <2>1 DEF Goto
<1>7. QED
  BY <1>0, <1>1, <1>3, <1>4, <1>5, <1>6

(* The invariant of the wrapper, its two attempts and its files holds.      *)
THEOREM BenchInvariance == BenchSpec => []BenchInv
<1>1. BenchInit => BenchInv
  BY BenchAssumption
     DEF BenchInit, BenchInv, BenchTypes, BenchHistory, BenchWriters, SummaryType, NoSummary
<1>2. BenchInv /\ [BenchNext]_benchVars => BenchInv'
  <2> SUFFICES ASSUME BenchInv, [BenchNext]_benchVars PROVE BenchInv'
    OBVIOUS
  <2>1. CASE UNCHANGED benchVars
    BY <2>1 DEF BenchInv, BenchTypes, BenchHistory, BenchWriters, benchVars
  <2>2. QED
    BY <2>1, BenchRuns, GateKeeps DEF BenchNext
<1>3. QED
  BY <1>1, <1>2, PTL DEF BenchSpec

(* What a gate that exits with 0 has compared.                              *)
LEMMA GreenGate ==
    ASSUME BenchTypes, GateExit(kind, summary, baseline) = 0
    PROVE  /\ summary.state # "missing" /\ baseline.state = "ok"
           /\ \A s \in IF kind = "shim" THEN {ShimShape} ELSE Shapes :
                /\ summary.p99[s] <= IF baseline.budget = 0 THEN DefaultBudget
                                     ELSE baseline.budget
                /\ baseline.ratio # Null /\ baseline.p99[s] > 0 =>
                     summary.p99[s] * 100 <= baseline.p99[s] * baseline.ratio
<1> USE BenchAssumption DEF BenchTypes, SummaryType
<1>1. baseline.p99 \in [Shapes -> Nat] /\ baseline.budget \in Nat /\ baseline.ratio \in Int
  OBVIOUS
<1>2. CASE kind = "shim"
  BY <1>1, <1>2 DEF GateExit, ShimGate, Budget, Regressed
<1>3. CASE kind = "daemon"
  BY <1>1, <1>3 DEF GateExit, DaemonGate, Budget, Regressed
<1>4. QED
  BY <1>2, <1>3

(* GateIsHonest of the bench gate: a green job is within the budget and the *)
(* committed baseline, by numbers the passing attempt measured (or, on the  *)
(* first, an earlier job's that the bench did not write over), only exit 1  *)
(* is measured again, and the attempt-1 file holds what this job's gate     *)
(* turned down, for any shapes, measurements, baselines and budgets and     *)
(* whatever an earlier run left in target/.                                 *)
THEOREM GateCorrect == BenchSpec => []GateIsHonest
<1>1. BenchInv => OnlyExit1IsRetried
  BY DEF BenchInv, BenchHistory, OnlyExit1IsRetried
<1>2. BenchInv => GreenIsWithinPolicy
  BY GreenGate DEF BenchInv, BenchHistory, GreenIsWithinPolicy
<1>3. BenchInv => GreenIsMeasured
  BY DEF BenchInv, BenchTypes, BenchHistory, BenchWriters, SummaryType, GreenIsMeasured
<1>4. BenchInv => NoiseIsCountable
  BY DEF BenchInv, BenchTypes, BenchHistory, BenchWriters, NoiseIsCountable
<1>5. QED
  BY <1>1, <1>2, <1>3, <1>4, BenchInvariance, PTL DEF GateIsHonest

-----------------------------------------------------------------------------
(* The stop hook (core/stop_hooks.py).                                     *)

Contents == [state : {"absent", "invalid", "ok"}, own : Seq(Commands), on : BOOLEAN, rest : Nat]
HookUpdate == [written : BOOLEAN, data : Contents]

Install == [pc : {"idle", "hooks", "write config", "write hooks"}, provider : Providers,
            command : Commands \cup {""}, config : HookUpdate, hooks : HookUpdate]

HooksTypes ==
    /\ files \in [Files -> Contents]
    /\ inst \in [Installers -> Install]
    /\ userEdits \in [Files -> Nat]
    /\ raced \in SUBSET Files

\* A list of hooks with at most one that is recognised.
OneRecognised(own) == \A i, j \in DOMAIN own : {own[i], own[j]} \subseteq Recognised => i = j

\* config.toml as an installer n will leave it: only codex touches it, a written
\* update turns the feature on, and without one the feature is on already.
ConfigReady(n) ==
    /\ n.config.written => n.provider = "codex" /\ n.config.data.on
    /\ n.provider = "codex" /\ n.pc # "idle" /\ ~n.config.written => files["config"].on
    /\ n.provider = "codex" /\ n.pc = "write hooks" => files["config"].on
    /\ n.config.written /\ n.pc \in {"hooks", "write config"} /\ "config" \notin raced =>
         n.config.data.rest = userEdits["config"]

\* The hook file as an installer n will leave it: one that it could parse.
HooksReady(n) ==
    n.pc \in {"write config", "write hooks"} =>
        /\ files[n.provider].state # "invalid"
        /\ n.hooks.written =>
             /\ n.hooks.data.state # "invalid"
             /\ OneRecognised(n.hooks.data.own)
             /\ n.provider \notin raced => n.hooks.data.rest = userEdits[n.provider]

HooksInv ==
    /\ HooksTypes
    /\ \A i \in Installers : ConfigReady(inst[i]) /\ HooksReady(inst[i])
    /\ \A i \in Installers : inst[i].pc = "hooks" => inst[i].command \in Commands
    /\ \A p \in HookFiles : OneRecognised(files[p].own)
    /\ HookImpliesFeature
    /\ EditsSurvive

(* What _prepare_json_stop_hook makes of a file that parses.                *)
LEMMA PrepareHooksKeeps ==
    ASSUME NEW f \in Contents, f.state # "invalid", NEW c \in Commands, OneRecognised(f.own)
    PROVE  LET u == PrepareHooks(f, c) IN
           /\ u \in HookUpdate
           /\ u.written => /\ u.data.state # "invalid" /\ OneRecognised(u.data.own)
                           /\ u.data.rest = f.rest
<1> DEFINE known == {i \in DOMAIN f.own : IsOwn(f.own[i], c)}
           set == [i \in DOMAIN f.own |-> IF i \in known THEN c ELSE f.own[i]]
<1>0. f.own \in Seq(Commands) /\ f.rest \in Nat /\ f.on \in BOOLEAN
  BY DEF Contents
<1>1. CASE known = {}
  <2>1. PrepareHooks(f, c) = [written |-> TRUE, data |->
                                [f EXCEPT !.state = "ok", !.own = Append(f.own, c)]]
    BY <1>1 DEF PrepareHooks
  <2> DEFINE d == [f EXCEPT !.state = "ok", !.own = Append(f.own, c)]
  <2>2. PrepareHooks(f, c) = [written |-> TRUE, data |-> d]
    BY <2>1
  <2>3. Append(f.own, c) \in Seq(Commands)
    BY <1>0
  <2>4. d \in Contents /\ d.own = Append(f.own, c) /\ d.state # "invalid" /\ d.rest = f.rest
    BY <1>0, <2>3 DEF Contents
  <2> HIDE DEF d
  <2>5. OneRecognised(d.own)
    <3>1. \A i \in DOMAIN f.own : f.own[i] \notin Recognised
      BY <1>1 DEF IsOwn
    <3>2. \A i \in DOMAIN d.own : d.own[i] \in Recognised => i = Len(f.own) + 1
      BY <1>0, <2>4, <3>1
    <3>3. QED
      BY <3>2 DEF OneRecognised
  <2>6. [written |-> TRUE, data |-> d] \in HookUpdate
    BY <2>4 DEF HookUpdate
  <2>7. PrepareHooks(f, c).data = d
    BY <2>2
  <2>8. QED
    BY <2>2, <2>4, <2>5, <2>6, <2>7, Zenon
<1>2. CASE known # {} /\ set = f.own
  <2>1. PrepareHooks(f, c) = NoUpdate
    BY <1>2 DEF PrepareHooks
  <2>2. NoUpdate \in HookUpdate /\ ~NoUpdate.written
    BY DEF NoUpdate, HookUpdate, Contents, Absent
  <2>3. QED
    BY <2>1, <2>2
<1>3. CASE known # {} /\ set # f.own
  <2>1. PrepareHooks(f, c) = [written |-> TRUE, data |-> [f EXCEPT !.own = set]]
    BY <1>3 DEF PrepareHooks
  <2>2. set \in Seq(Commands) /\ DOMAIN set = DOMAIN f.own
    BY <1>0
  <2>3. OneRecognised(set)
    \* What is recognised in the new list was the one recognised hook before,
    \* or the command itself: then it is recognised, and no other hook is known.
    <3>1. ASSUME NEW i \in DOMAIN set, NEW j \in DOMAIN set, set[i] \in Recognised,
                 set[j] \in Recognised
          PROVE  f.own[i] \in Recognised /\ f.own[j] \in Recognised
      BY <2>2, <3>1 DEF IsOwn
    <3> HIDE DEF set
    <3>2. \A i, j \in DOMAIN set : {set[i], set[j]} \subseteq Recognised => i = j
      BY <2>2, <3>1 DEF OneRecognised
    <3>3. QED
      BY <3>2 DEF OneRecognised
  <2> DEFINE d == [f EXCEPT !.own = set]
  <2> HIDE DEF set
  <2>4. d \in Contents /\ d.state = f.state /\ d.own = set /\ d.rest = f.rest
    BY <1>0, <2>2 DEF Contents
  <2> HIDE DEF d
  <2>5. PrepareHooks(f, c) = [written |-> TRUE, data |-> d]
    BY <2>1 DEF d, set
  <2>6. QED
    BY <2>3, <2>4, <2>5 DEF HookUpdate
<1>4. QED
  BY <1>1, <1>2, <1>3

(* An installer that only moves on itself keeps the invariant if it is ready *)
(* where it goes.                                                           *)
LEMMA InstallerMoves ==
    ASSUME HooksInv, NEW i \in Installers, NEW n \in Install, inst' = [inst EXCEPT ![i] = n],
           UNCHANGED <<files, userEdits, raced>>,
           ConfigReady(n), HooksReady(n), n.pc = "hooks" => n.command \in Commands
    PROVE  HooksInv'
<1>1. HooksTypes' /\ \A j \in Installers : inst'[j] = IF j = i THEN n ELSE inst[j]
  BY DEF HooksInv, HooksTypes
<1>2. ASSUME NEW j \in Installers
      PROVE  (ConfigReady(inst[j]) /\ HooksReady(inst[j]))'
  <2>1. ConfigReady(inst'[j]) /\ HooksReady(inst'[j])
    BY <1>1 DEF HooksInv
  <2>2. QED
    BY <2>1 DEF ConfigReady, HooksReady
<1>3. \A j \in Installers : inst'[j].pc = "hooks" => inst'[j].command \in Commands
  BY <1>1 DEF HooksInv
<1>4. (\A p \in HookFiles : OneRecognised(files[p].own))' /\ HookImpliesFeature' /\ EditsSurvive'
  BY DEF HooksInv, HookImpliesFeature, EditsSurvive, OneRecognised
<1>5. QED
  BY <1>1, <1>2, <1>3, <1>4 DEF HooksInv

(* No update is an update that writes nothing.                              *)
LEMMA NoUpdateType == NoUpdate \in HookUpdate /\ ~NoUpdate.written
  BY DEF NoUpdate, HookUpdate, Contents, Absent

(* An installer that has returned or was killed is ready.                   *)
LEMMA IdleReady == IdleInst \in Install /\ ConfigReady(IdleInst) /\ HooksReady(IdleInst)
<1>2. IdleInst \in Install
  BY NoUpdateType DEF IdleInst, Install, Providers
<1>3. IdleInst.pc = "idle" /\ IdleInst.config = NoUpdate
  BY DEF IdleInst
<1>4. QED
  BY NoUpdateType, <1>2, <1>3 DEF ConfigReady, HooksReady

(* Beginning, preparing and being killed keep the invariant.                *)
LEMMA InstallPrepares ==
    ASSUME HooksInv, NEW i \in Installers,
           InstallBegin(i) \/ InstallPrepare(i) \/ InstallKilled(i)
    PROVE  HooksInv'
<1>0. inst[i] \in Install /\ files["config"] \in Contents
  BY DEF HooksInv, HooksTypes, Files
<1>1. CASE InstallBegin(i)
  <2>1. PICK p \in Providers, c \in Commands, breaks \in BOOLEAN :
          inst' = [inst EXCEPT ![i] = Begun(p, c, breaks)]
    BY <1>1 DEF InstallBegin
  <2>2. UNCHANGED <<files, userEdits, raced>>
    BY <1>1 DEF InstallBegin
  <2>3. CASE p = "claude"
    <3> DEFINE n == Started("claude", c, NoUpdate)
    <3>1. inst' = [inst EXCEPT ![i] = n]
      BY <2>1, <2>3 DEF Begun
    <3>2. n \in Install
      BY NoUpdateType DEF Started, Install, Providers
    <3>3. ConfigReady(n) /\ HooksReady(n) /\ n.command \in Commands
      BY NoUpdateType DEF Started, ConfigReady, HooksReady
    <3> HIDE DEF n
    <3>4. QED
      BY <2>2, <3>1, <3>2, <3>3, InstallerMoves
  <2>4. CASE /\ p = "codex"
             /\ files["config"].state = "invalid" \/ (breaks /\ ConfigBreaks(files["config"]))
    <3>1. inst' = [inst EXCEPT ![i] = IdleInst]
      BY <2>1, <2>4 DEF Begun
    <3>2. IdleInst.pc # "hooks"
      BY DEF IdleInst
    <3>3. QED
      BY <2>2, <3>1, <3>2, IdleReady, InstallerMoves
  <2>5. CASE /\ p = "codex"
             /\ ~(files["config"].state = "invalid" \/ (breaks /\ ConfigBreaks(files["config"])))
    <3> DEFINE u == PrepareConfig(files["config"])
               n == Started("codex", c, u)
    <3>1. inst' = [inst EXCEPT ![i] = n]
      <4>1. Begun(p, c, breaks) = n
        BY <2>5 DEF Begun
      <4>2. QED
        BY <2>1, <4>1, Zenon
    <3>2. /\ u \in HookUpdate
          /\ u.written => u.data.on /\ u.data.rest = files["config"].rest
          /\ ~u.written => files["config"].on
      <4>1. CASE files["config"].on
        BY <4>1 DEF PrepareConfig, NoUpdate, HookUpdate, Contents, Absent
      <4>2. CASE ~files["config"].on
        <5> DEFINE d == SetFeature(files["config"])
        <5>1. d \in Contents /\ d.on /\ d.rest = files["config"].rest
          BY <1>0 DEF SetFeature, Contents
        <5>2. u = [written |-> TRUE, data |-> d]
          BY <4>2 DEF PrepareConfig
        <5> HIDE DEF d
        <5>3. QED
          BY <5>1, <5>2 DEF HookUpdate
      <4>3. QED
        BY <4>1, <4>2
    <3> HIDE DEF u
    <3>4. n \in Install
      BY <3>2, NoUpdateType DEF Started, Install, Providers
    <3>5. "config" \notin raced => files["config"].rest = userEdits["config"]
      BY DEF HooksInv, EditsSurvive, Files
    <3>6. ConfigReady(n) /\ HooksReady(n) /\ n.command \in Commands
      BY <3>2, <3>5 DEF Started, ConfigReady, HooksReady
    <3> HIDE DEF n
    <3>7. QED
      BY <2>2, <3>1, <3>4, <3>6, InstallerMoves
  <2>6. QED
    BY <2>3, <2>4, <2>5 DEF Providers
<1>2. CASE InstallPrepare(i)
  <2> DEFINE p == inst[i].provider
             u == PrepareHooks(files[p], inst[i].command)
  <2>1. p \in HookFiles /\ files[p] \in Contents /\ inst[i].command \in Commands
    BY <1>0, <1>2 DEF InstallPrepare, Install, HookFiles, HooksInv, HooksTypes, Files
  <2>2. OneRecognised(files[p].own) /\ (p \notin raced => files[p].rest = userEdits[p])
    BY <2>1 DEF HooksInv, EditsSurvive, Files
  <2>3. UNCHANGED <<files, userEdits, raced>>
    BY <1>2 DEF InstallPrepare
  <2>4. CASE files[p].state = "invalid"
    <3>1. inst' = [inst EXCEPT ![i] = IdleInst]
      BY <1>2, <2>4 DEF InstallPrepare
    <3>2. IdleInst.pc # "hooks"
      BY DEF IdleInst
    <3>3. QED
      BY <2>3, <3>1, <3>2, IdleReady, InstallerMoves
  <2>5. CASE files[p].state # "invalid"
    <3> DEFINE n == [inst[i] EXCEPT !.pc = "write config", !.hooks = u]
    <3>1. inst' = [inst EXCEPT ![i] = n]
      BY <1>2, <2>5 DEF InstallPrepare, HooksInv, HooksTypes
    <3>2. /\ u \in HookUpdate
          /\ u.written => /\ u.data.state # "invalid" /\ OneRecognised(u.data.own)
                          /\ u.data.rest = files[p].rest
      BY <2>1, <2>2, <2>5, PrepareHooksKeeps
    <3> HIDE DEF u
    <3>3. /\ n \in Install /\ n.pc = "write config" /\ n.hooks = u /\ n.provider = p
          /\ n.config = inst[i].config
      BY <1>0, <3>2 DEF Install
    <3> HIDE DEF n
    <3>4. ConfigReady(inst[i]) /\ inst[i].pc = "hooks"
      BY <1>2 DEF HooksInv, InstallPrepare
    <3>5. ConfigReady(n)
      BY <3>3, <3>4 DEF ConfigReady
    <3>6. HooksReady(n)
      BY <2>2, <2>5, <3>2, <3>3 DEF HooksReady
    <3>7. QED
      BY <2>3, <3>1, <3>3, <3>5, <3>6, InstallerMoves
  <2>6. QED
    BY <2>4, <2>5
<1>3. CASE InstallKilled(i)
  <2>1. inst' = [inst EXCEPT ![i] = IdleInst] /\ UNCHANGED <<files, userEdits, raced>>
    BY <1>3 DEF InstallKilled
  <2>2. IdleInst.pc # "hooks"
    BY DEF IdleInst
  <2>3. QED
    BY <2>1, <2>2, IdleReady, InstallerMoves
<1>4. QED
  BY <1>1, <1>2, <1>3

(* Writing a prepared update, config.toml first, keeps the invariant.       *)
LEMMA InstallWrites ==
    ASSUME HooksInv, NEW i \in Installers, InstallWrite(i)
    PROVE  HooksInv'
<1> DEFINE first == inst[i].pc = "write config"
           update == IF first THEN inst[i].config ELSE inst[i].hooks
           file == IF first THEN "config" ELSE inst[i].provider
           n == IF first THEN [inst[i] EXCEPT !.pc = "write hooks"] ELSE IdleInst
<1>0. /\ inst[i] \in Install /\ inst[i].pc \in {"write config", "write hooks"}
      /\ ConfigReady(inst[i]) /\ HooksReady(inst[i])
  BY DEF HooksInv, HooksTypes, InstallWrite
<1>1. inst' = [inst EXCEPT ![i] = n] /\ UNCHANGED <<userEdits, raced>>
  BY DEF InstallWrite, HooksInv, HooksTypes
<1>2. files' = IF update.written THEN [files EXCEPT ![file] = update.data] ELSE files
  BY DEF InstallWrite
<1>3. update \in HookUpdate /\ file \in Files /\ "config" \notin HookFiles
  BY <1>0 DEF Install, Files, HookFiles, Providers
<1>4. /\ update.written /\ first => update.data.on
      /\ update.written /\ ~first => /\ update.data.state # "invalid"
                                     /\ OneRecognised(update.data.own)
      /\ update.written /\ file \notin raced => update.data.rest = userEdits[file]
  BY <1>0 DEF ConfigReady, HooksReady
<1> HIDE DEF update
<1>5. /\ n \in Install /\ n.pc \in {"write hooks", "idle"}
      /\ n.pc = "write hooks" => /\ first /\ n.provider = inst[i].provider
                                 /\ n.config = inst[i].config /\ n.hooks = inst[i].hooks
      /\ first => n.pc = "write hooks"
      /\ ~first => n = IdleInst
  <2>1. IdleInst.pc = "idle"
    BY DEF IdleInst
  <2>2. QED
    BY <1>0, <2>1, IdleReady DEF Install
<1> HIDE DEF n
<1>6. /\ files' \in [Files -> Contents]
      /\ \A f \in Files : files'[f] = IF update.written /\ f = file THEN update.data ELSE files[f]
  BY <1>2, <1>3 DEF HooksInv, HooksTypes, HookUpdate
<1>7. HooksTypes'
  BY <1>1, <1>5, <1>6 DEF HooksInv, HooksTypes
\* The feature is never turned off again, and is on after the first write.
<1>8. /\ files["config"].on => files'["config"].on
      /\ first /\ inst[i].provider = "codex" => files'["config"].on
  <2>1. CASE first
    BY <1>0, <1>4, <1>6, <2>1 DEF ConfigReady, Files, update
  <2>2. CASE ~first
    BY <1>0, <1>3, <1>6, <2>2 DEF Files, HookFiles, Install
  <2>3. QED
    BY <2>1, <2>2
<1>9. \A p \in HookFiles : files[p].state # "invalid" => files'[p].state # "invalid"
  BY <1>3, <1>4, <1>6 DEF Files
<1>10. ASSUME NEW j \in Installers PROVE (ConfigReady(inst[j]) /\ HooksReady(inst[j]))'
  <2>1. CASE j # i
    <3>1. inst'[j] = inst[j] /\ inst[j] \in Install /\ ConfigReady(inst[j]) /\ HooksReady(inst[j])
      BY <1>1, <2>1 DEF HooksInv, HooksTypes
    <3>2. inst[j].provider \in HookFiles
      BY <3>1 DEF Install, HookFiles
    <3>3. ConfigReady(inst[j])'
      BY <1>1, <1>8, <3>1 DEF ConfigReady
    <3>4. HooksReady(inst'[j]) /\ inst'[j].provider \in HookFiles
      BY <3>1, <3>2
    <3>5. HooksReady(inst[j])'
      BY <1>1, <1>9, <3>4 DEF HooksReady
    <3>6. QED
      BY <3>3, <3>5
  <2>2. CASE j = i
    <3>1. inst'[j] = n
      BY <1>1, <2>2 DEF HooksInv, HooksTypes
    <3>2. CASE n.pc = "idle"
      <4>1. n = IdleInst
        BY <1>5, <3>2
      <4>2. n.pc = "idle" /\ ~n.config.written
        BY <3>2, <4>1, NoUpdateType DEF IdleInst
      <4>3. QED
        BY <3>1, <4>2 DEF ConfigReady, HooksReady
    <3>3. CASE n.pc = "write hooks"
      <4>1. inst[i].provider \in HookFiles
        BY <1>0 DEF Install, HookFiles
      <4>2. ConfigReady(inst[j])'
        BY <1>0, <1>1, <1>5, <1>8, <3>1, <3>3 DEF ConfigReady
      <4>3. /\ files[inst[i].provider].state # "invalid"
            /\ inst[i].hooks.written =>
                 /\ inst[i].hooks.data.state # "invalid"
                 /\ OneRecognised(inst[i].hooks.data.own)
                 /\ inst[i].provider \notin raced =>
                      inst[i].hooks.data.rest = userEdits[inst[i].provider]
        BY <1>0 DEF HooksReady
      <4>4. inst'[j].provider = inst[i].provider /\ inst'[j].hooks = inst[i].hooks
        BY <1>5, <3>1, <3>3
      <4>5. files'[inst[i].provider].state # "invalid"
        BY <1>9, <4>1, <4>3
      <4>6. /\ files'[inst'[j].provider].state # "invalid"
            /\ inst'[j].hooks.written =>
                 /\ inst'[j].hooks.data.state # "invalid"
                 /\ OneRecognised(inst'[j].hooks.data.own)
                 /\ inst'[j].provider \notin raced' =>
                      inst'[j].hooks.data.rest = userEdits'[inst'[j].provider]
        <5>1. raced' = raced /\ userEdits' = userEdits
          BY <1>1
        <5>2. QED
          BY <4>3, <4>4, <4>5, <5>1, Zenon
      <4>7. HooksReady(inst[j])'
        BY <4>6, Zenon DEF HooksReady
      <4>8. QED
        BY <4>2, <4>7
    <3>4. QED
      BY <1>5, <3>2, <3>3
  <2>3. QED
    BY <2>1, <2>2
<1>11. \A j \in Installers : inst'[j].pc = "hooks" => inst'[j].command \in Commands
  BY <1>1, <1>5 DEF HooksInv, HooksTypes
<1>12. ASSUME NEW p \in HookFiles PROVE OneRecognised(files[p].own)'
  <2>1. OneRecognised(files[p].own) /\ p \in Files
    BY DEF HooksInv, Files
  <2>2. CASE update.written /\ p = file
    <3>1. files'[p] = update.data /\ ~first
      BY <1>3, <1>6, <2>1, <2>2
    <3>2. QED
      BY <1>4, <2>2, <3>1, Zenon
  <2>3. CASE ~(update.written /\ p = file)
    <3>1. files'[p] = files[p]
      BY <1>6, <2>1, <2>3
    <3>2. QED
      BY <2>1, <3>1 DEF OneRecognised
  <2>4. QED
    BY <2>2, <2>3
<1>13. HookImpliesFeature'
  <2>1. CASE update.written /\ file = "codex"
    <3>1. ~first /\ inst[i].provider = "codex"
      BY <2>1
    <3>2. QED
      BY <1>0, <1>8, <3>1 DEF ConfigReady, HookImpliesFeature
  <2>2. CASE ~(update.written /\ file = "codex")
    BY <1>6, <1>8, <2>2 DEF HooksInv, HookImpliesFeature, Files, HookFiles, Providers
  <2>3. QED
    BY <2>1, <2>2
<1>14. EditsSurvive'
  BY <1>1, <1>4, <1>6 DEF HooksInv, EditsSurvive
<1>15. QED
  BY <1>7, <1>10, <1>11, <1>12, <1>13, <1>14 DEF HooksInv

(* An edit of the user's races with every installer that holds the file.    *)
LEMMA UserEdits ==
    ASSUME HooksInv, NEW f \in Files, UserEdit(f)
    PROVE  HooksInv'
<1>1. /\ UNCHANGED inst
      /\ files' = [files EXCEPT ![f] = [@ EXCEPT !.state = "ok", !.rest = files[f].rest + 1]]
      /\ userEdits' = [userEdits EXCEPT ![f] = @ + 1]
      /\ raced \subseteq raced' /\ raced' \subseteq raced \cup {f}
      /\ \A j \in Installers : Holds(j, f) => f \in raced'
  BY DEF UserEdit, HooksInv, HooksTypes
<1> DEFINE d == [files[f] EXCEPT !.state = "ok", !.rest = files[f].rest + 1]
<1>2. /\ d \in Contents /\ d.own = files[f].own /\ d.on = files[f].on
      /\ d.state # "invalid" /\ d.rest = files[f].rest + 1
  <2>1. files[f] \in Contents
    BY DEF HooksInv, HooksTypes
  <2>2. files[f].rest + 1 \in Nat
    BY <2>1 DEF Contents
  <2>3. ASSUME NEW k \in Nat
        PROVE  LET g == [files[f] EXCEPT !.state = "ok", !.rest = k] IN
               /\ g \in Contents /\ g.own = files[f].own /\ g.on = files[f].on
               /\ g.state # "invalid" /\ g.rest = k
    BY <2>1 DEF Contents
  <2>4. QED
    BY <2>2, <2>3
<1>3. files' = [files EXCEPT ![f] = d]
  BY <1>1 DEF HooksInv, HooksTypes
<1> HIDE DEF d
<1>4. HooksTypes'
  BY <1>1, <1>2, <1>3 DEF HooksInv, HooksTypes
<1>5. \A g \in Files : /\ files'[g].own = files[g].own /\ files'[g].on = files[g].on
                       /\ files[g].state # "invalid" => files'[g].state # "invalid"
                       /\ g # f => files'[g] = files[g] /\ userEdits'[g] = userEdits[g]
  BY <1>1, <1>2, <1>3 DEF HooksInv, HooksTypes
<1>6. "config" \in Files /\ "codex" \in Files /\ HookFiles \subseteq Files
  BY DEF Files, HookFiles, Providers
<1>7. ASSUME NEW j \in Installers PROVE (ConfigReady(inst[j]) /\ HooksReady(inst[j]))'
  <2>1. inst[j] \in Install /\ ConfigReady(inst[j]) /\ HooksReady(inst[j])
    BY DEF HooksInv, HooksTypes
  <2>2. inst[j].provider \in Files /\ inst[j].provider # "config"
    BY <2>1 DEF Install, Files, HookFiles, Providers
  <2>3. ConfigReady(inst[j])'
    BY <1>1, <1>5, <1>6, <2>1 DEF ConfigReady, Holds
  <2>4. HooksReady(inst[j])'
    BY <1>1, <1>5, <2>1, <2>2 DEF HooksReady, Holds
  <2>5. QED
    BY <2>3, <2>4
<1>8. (\A p \in HookFiles : OneRecognised(files[p].own))' /\ HookImpliesFeature'
  BY <1>5, <1>6 DEF HooksInv, OneRecognised, HookImpliesFeature
<1>9. EditsSurvive'
  <2>1. f \notin raced => files'[f].rest = userEdits'[f]
    BY <1>1, <1>2, <1>3 DEF HooksInv, HooksTypes, EditsSurvive
  <2>2. QED
    BY <1>1, <1>5, <2>1 DEF HooksInv, EditsSurvive
<1>10. (\A j \in Installers : inst[j].pc = "hooks" => inst[j].command \in Commands)'
  BY <1>1 DEF HooksInv
<1>11. QED
  BY <1>4, <1>7, <1>8, <1>9, <1>10 DEF HooksInv

(* The invariant of the hook files holds for any number of installers, any  *)
(* commands, kills and edits.                                               *)
THEOREM HooksInvariance == HooksSpec => []HooksInv
<1>1. HooksInit => HooksInv
  <2> SUFFICES ASSUME HooksInit PROVE HooksInv
    OBVIOUS
  <2>1. \A f \in Files : /\ files[f] \in Contents /\ files[f].own = <<>> /\ files[f].rest = 0
                         /\ userEdits[f] = 0
    <3>1. Absent \in Contents /\ Absent.own = <<>> /\ Absent.rest = 0
      BY DEF Contents, Absent
    <3>2. /\ [Absent EXCEPT !.state = "invalid"] \in Contents
          /\ [Absent EXCEPT !.state = "invalid"].own = <<>>
          /\ [Absent EXCEPT !.state = "invalid"].rest = 0
      BY <3>1 DEF Contents
    <3>3. QED
      BY <3>1, <3>2 DEF HooksInit
  <2>2. HooksTypes
    BY <2>1, IdleReady DEF HooksInit, HooksTypes
  <2>3. \A i \in Installers : inst[i] = IdleInst
    BY DEF HooksInit
  <2>4. IdleInst.pc = "idle" /\ "codex" \in Files /\ HookFiles \subseteq Files
    BY DEF IdleInst, Files, HookFiles, Providers
  <2>5. QED
    BY <2>1, <2>2, <2>3, <2>4, IdleReady
       DEF HooksInv, OneRecognised, HookImpliesFeature, EditsSurvive
<1>2. HooksInv /\ [HooksNext]_hookVars => HooksInv'
  <2> SUFFICES ASSUME HooksInv, [HooksNext]_hookVars PROVE HooksInv'
    OBVIOUS
  <2>1. CASE UNCHANGED hookVars
    BY <2>1 DEF HooksInv, HooksTypes, ConfigReady, HooksReady, OneRecognised,
                HookImpliesFeature, EditsSurvive, hookVars
  <2>2. CASE HooksNext
    BY <2>2, InstallPrepares, InstallWrites, UserEdits DEF HooksNext
  <2>3. QED
    BY <2>1, <2>2
<1>3. QED
  BY <1>1, <1>2, PTL DEF HooksSpec

(* HooksInstalledSafely of ensure-stop-hook: for any number of installers,  *)
(* killed anywhere and beside a user who edits the same files, one hook of  *)
(* the automator, never one without the feature, no edit lost to an install *)
(* that did not race with it, and config.toml alone while hooks.json does   *)
(* not parse.                                                               *)
THEOREM HooksCorrect == HooksSpec => HooksInstalledSafely
<1>1. HooksInv => OneOwnHook /\ HookImpliesFeature /\ EditsSurvive
  BY DEF HooksInv, OneOwnHook, OneRecognised
<1>2. HooksInv /\ [HooksNext]_hookVars => [BrokenLeavesConfig]_hookVars
  <2> SUFFICES ASSUME HooksInv, HooksNext PROVE BrokenLeavesConfig
    BY DEF hookVars
  <2>1. ASSUME NEW i \in Installers, InstallBegin(i) \/ InstallPrepare(i) \/ InstallKilled(i)
        PROVE  BrokenLeavesConfig
    BY <2>1 DEF InstallBegin, InstallPrepare, InstallKilled, BrokenLeavesConfig
  <2>2. ASSUME NEW i \in Installers, InstallWrite(i)
        PROVE  BrokenLeavesConfig
    \* A written config.toml is codex's, whose hook file was parsed before.
    <3>1. ConfigReady(inst[i]) /\ HooksReady(inst[i]) /\ inst[i].provider \in {"claude", "codex"}
      BY DEF HooksInv, HooksTypes, Install, Providers
    <3>2. CASE inst[i].pc = "write config" /\ inst[i].config.written
      BY <3>1, <3>2 DEF ConfigReady, HooksReady, BrokenLeavesConfig
    <3>3. CASE ~(inst[i].pc = "write config" /\ inst[i].config.written)
      BY <2>2, <3>1, <3>3 DEF InstallWrite, BrokenLeavesConfig, HooksInv, HooksTypes, Files
    <3>4. QED
      BY <3>2, <3>3
  <2>3. ASSUME NEW f \in Files, UserEdit(f)
        PROVE  BrokenLeavesConfig
    BY <2>3 DEF UserEdit, BrokenLeavesConfig, HooksInv, HooksTypes, Contents, Files
  <2>4. QED
    BY <2>1, <2>2, <2>3 DEF HooksNext
<1>3. QED
  BY <1>1, <1>2, HooksInvariance, PTL DEF HooksSpec, HooksInstalledSafely

-----------------------------------------------------------------------------
(* The agents of a task (core/agent_config.py, commands/orchestrator_epic_ *)
(* agents.py, commands/state.py).                                          *)

AgentsConfig ==
    [defaultPrimary : Primaries, primary : {"absent", ""} \cup Agents,
     defaultFallback : Fallbacks, fallback : {"absent"} \cup Agents,
     entry : TaskEntry, retro : TaskEntry, overrides : BOOLEAN,
     over : TaskEntry, level : TaskEntry]

\* What is asked is a configuration a user may have written.
AgentsInv ==
    asked.pc = "asked" => /\ asked.task \in Tasks /\ asked.config \in AgentsConfig
                          /\ ~asked.config.overrides => asked.config.over = NoEntry

(* An entry that is not there is the empty one, and one that is has texts   *)
(* of the kinds the code tells apart.                                       *)
LEMMA EntryType ==
    ASSUME NEW e \in TaskEntry
    PROVE  /\ e \in [there : BOOLEAN, primary : Primaries, fallback : Fallbacks]
           /\ ~e.there => e = NoEntry
<1>1. CASE e = NoEntry
  BY <1>1 DEF NoEntry, Primaries, Fallbacks
<1>2. CASE e \in Entries
  <2>1. e \in [there : {TRUE}, primary : Primaries, fallback : Fallbacks]
    BY <1>2, AgentsAssumption
  <2>2. QED
    BY <2>1
<1>3. QED
  BY <1>1, <1>2 DEF TaskEntry

(* The retro agent takes the way through the state document.                *)
LEMMA RetroWay ==
    ASSUME NEW c \in AgentsConfig, c.overrides \/ ~c.level.there,
           c.defaultPrimary = "" => c.primary \in {"absent", ""}
    PROVE  RetroAgent(AgentBlock(c, "retro")) = ResolveAgent(ParseAgentConfig(c, "retro"))
<1> DEFINE b == AgentBlock(c, "retro")
           p == ParseAgentConfig(LoadFromState(b), "retro")
           q == ParseAgentConfig(c, "retro")
           e == Effective(c, "retro")
<1>1. e \in TaskEntry /\ c.over \in TaskEntry /\ c.level \in TaskEntry
  BY DEF AgentsConfig, Effective
<1>2. p.primary = q.primary
  <2>1. c.defaultPrimary # "null" /\ c.primary # "null" /\ c.primary # "auto"
    BY AgentsAssumption DEF AgentsConfig, Primaries
  <2>2. b.defaultPrimary = IF c.defaultPrimary = "absent" THEN Or(c.primary, "auto")
                           ELSE c.defaultPrimary
    BY DEF AgentBlock
  <2>3. p.primary = Or(b.defaultPrimary, Or("absent", "auto"))
    BY DEF ParseAgentConfig, LoadFromState
  <2>4. q.primary = Or(c.defaultPrimary, Or(c.primary, "auto"))
    BY DEF ParseAgentConfig
  <2>5. QED
    BY <2>1, <2>2, <2>3, <2>4 DEF Or
<1>3. p.fallback = q.fallback
  BY DEF ParseAgentConfig, LoadFromState, AgentBlock, Or
<1>4. p.entry = q.entry
  <2>1. q.entry = e /\ b.entry = e
    BY DEF ParseAgentConfig, AgentBlock
  <2>2. p.entry = IF ~e.there THEN NoEntry ELSE e
    BY <2>1 DEF ParseAgentConfig, LoadFromState, Effective
  <2>3. QED
    BY <1>1, <2>1, <2>2, EntryType
<1>5. p.over.there = q.over.there /\ (p.over.there => p.over = q.over)
  <2>1. b.over = IF c.overrides THEN c.over ELSE NoEntry
    BY DEF AgentBlock
  <2>2. p.over = IF b.over.there THEN b.over ELSE NoEntry
    BY DEF ParseAgentConfig, LoadFromState
  <2>3. q.over = IF c.overrides THEN c.over ELSE c.level
    BY DEF ParseAgentConfig
  <2>4. NoEntry.there = FALSE
    BY DEF NoEntry
  <2>5. QED
    BY <1>1, <2>1, <2>2, <2>3, <2>4, EntryType
<1> HIDE DEF b, p, q
<1>6. ASSUME NEW x, NEW y PROVE Over(p.over, x, y) = Over(q.over, x, y)
  BY <1>5 DEF Over
<1>7. ResolveAgent(p) = ResolveAgent(q)
  BY <1>2, <1>3, <1>4, <1>6 DEF ResolveAgent
<1>8. QED
  BY <1>7 DEF RetroAgent, b, p, q

(* What resolving can answer.                                               *)
LEMMA AnswerType ==
    ASSUME NEW c \in AgentsConfig, NEW t
    PROVE  ResolveAgent(ParseAgentConfig(c, t)) \in
             [primary : Agents \cup {"runtime provider"}, fallback : (Agents \ {"null"}) \cup {"false"}]
<1> DEFINE q == ParseAgentConfig(c, t)
           byTask == Over(q.entry, q.primary, q.fallback)
           byLevel == Over(q.over, byTask.primary, byTask.fallback)
<1>1. q.entry \in TaskEntry /\ q.over \in TaskEntry
  BY DEF AgentsConfig, Effective, ParseAgentConfig
<1>2. q.primary \in Primaries
  BY DEF AgentsConfig, ParseAgentConfig, Primaries, Or
<1>3. q.fallback \in Fallbacks
  BY DEF AgentsConfig, ParseAgentConfig, Fallbacks, Or
<1> HIDE DEF q
<1>4. byTask.primary \in Primaries /\ byTask.fallback \in Fallbacks
  BY <1>1, <1>2, <1>3, EntryType DEF Over
<1> HIDE DEF byTask
<1>5. byLevel.primary \in Primaries /\ byLevel.fallback \in Fallbacks
  BY <1>1, <1>4, EntryType DEF Over
<1> HIDE DEF byLevel
<1>6. ResolvePrimary(byLevel.primary) \in Agents \cup {"runtime provider"}
  BY <1>5 DEF ResolvePrimary, Primaries
<1>7. ResolveFallback(byLevel.fallback) \in (Agents \ {"null"}) \cup {"false"}
  BY <1>5 DEF ResolveFallback, Fallbacks
<1>8. ResolveAgent(q) = [primary |-> ResolvePrimary(byLevel.primary),
                         fallback |-> ResolveFallback(byLevel.fallback)]
  BY DEF ResolveAgent, byTask, byLevel
<1>9. ResolveAgent(q) \in [primary : Agents \cup {"runtime provider"},
                           fallback : (Agents \ {"null"}) \cup {"false"}]
  <2> DEFINE x == ResolvePrimary(byLevel.primary)
             y == ResolveFallback(byLevel.fallback)
  <2>1. x \in Agents \cup {"runtime provider"} /\ y \in (Agents \ {"null"}) \cup {"false"}
    BY <1>6, <1>7, Zenon
  <2>2. ResolveAgent(q) = [primary |-> x, fallback |-> y]
    BY <1>8, Zenon
  <2> HIDE DEF x, y
  <2>3. [primary |-> x, fallback |-> y] \in [primary : Agents \cup {"runtime provider"},
                                           fallback : (Agents \ {"null"}) \cup {"false"}]
    BY <2>1
  <2>4. QED
    BY <2>2, <2>3, Zenon
<1>10. QED
  BY <1>9 DEF q

(* The agents file gives back what was planned.                             *)
LEMMA FileWay ==
    ASSUME NEW P, NEW F, NEW r \in [primary : P, fallback : (F \ {"null"}) \cup {"false"}]
    PROVE  AgentsResolve(PlanEntry(r)) = r
  BY DEF AgentsResolve, PlanEntry

(* The two resolvers.                                                       *)
LEMMA ResolversWay ==
    ASSUME NEW c \in AgentsConfig, NEW t, ~c.overrides => c.over = NoEntry,
           \A e \in {c.entry, c.retro, c.over, c.level} : e.there => e.primary # "",
           c.overrides => ~c.level.there
    PROVE  ResolveAgentForTask(ParseJson(c, t)) = ResolveAgent(ParseAgentConfig(c, t))
<1> DEFINE p == ParseJson(c, t)
           q == ParseAgentConfig(c, t)
           over(e, x, y) == [primary  |-> IF e.there /\ e.primary # "" THEN e.primary ELSE x,
                             fallback |-> IF e.there /\ e.fallback # "absent" THEN e.fallback
                                          ELSE y]
           entry(e) == [e EXCEPT !.primary = IF @ = "absent" THEN "" ELSE @]
<1>1. p.primary = q.primary /\ p.fallback = q.fallback
  BY DEF ParseJson, ParseAgentConfig
<1>2. /\ q.entry \in {c.entry, c.retro} /\ q.over \in {c.over, c.level}
      /\ q.entry \in TaskEntry /\ q.over \in TaskEntry /\ c.over \in TaskEntry /\ c.level \in TaskEntry
  BY DEF ParseAgentConfig, Effective, AgentsConfig
<1>3. p.entry = entry(q.entry)
  BY DEF ParseJson, ParseAgentConfig
<1>4. p.over = entry(IF c.overrides /\ c.over.there THEN c.over ELSE c.level)
  BY DEF ParseJson
<1>5. ASSUME NEW e \in TaskEntry, e.there => e.primary # "", NEW x, NEW y
      PROVE  over(entry(e), x, y) = Over(e, x, y)
  <2>1. /\ entry(e).there = e.there /\ entry(e).fallback = e.fallback
        /\ entry(e).primary = IF e.primary = "absent" THEN "" ELSE e.primary
    BY <1>5, EntryType
  <2>2. QED
    BY <1>5, <2>1 DEF Over
<1>6. ASSUME NEW x, NEW y PROVE over(p.entry, x, y) = Over(q.entry, x, y)
  <2>1. q.entry.there => q.entry.primary # ""
    BY <1>2
  <2> HIDE DEF over, entry, p, q
  <2>2. QED
    BY <1>2, <1>3, <1>5, <2>1
<1>7. ASSUME NEW x, NEW y PROVE over(p.over, x, y) = Over(q.over, x, y)
  <2>1. q.over = IF c.overrides THEN c.over ELSE c.level
    BY DEF ParseAgentConfig
  <2> DEFINE d == IF c.overrides /\ c.over.there THEN c.over ELSE c.level
  <2>2. d \in TaskEntry /\ (d.there => d.primary # "")
    BY <1>2
  <2>3. d.there = q.over.there /\ (d.there => d = q.over)
    BY <1>2, <2>1, EntryType
  <2>4. p.over = entry(d)
    BY <1>4
  <2> HIDE DEF d, p, q
  <2>5. Over(d, x, y) = Over(q.over, x, y)
    BY <2>3 DEF Over
  <2> HIDE DEF over, entry
  <2>6. over(entry(d), x, y) = Over(d, x, y)
    BY <1>5, <2>2
  <2>7. QED
    BY <2>4, <2>5, <2>6
<1> HIDE DEF p, q
<1>8. ResolveAgentForTask(p) = ResolveAgent(q)
  <2> DEFINE B == Over(q.entry, q.primary, q.fallback)
             L == Over(q.over, B.primary, B.fallback)
             M == over(p.over, over(p.entry, p.primary, p.fallback).primary,
                               over(p.entry, p.primary, p.fallback).fallback)
  <2>1. ResolveAgent(q) = [primary |-> ResolvePrimary(L.primary),
                           fallback |-> ResolveFallback(L.fallback)]
    BY DEF ResolveAgent
  <2>2. ResolveAgentForTask(p) = [primary |-> ResolvePrimary(M.primary),
                                  fallback |-> ResolveFallback(M.fallback)]
    BY DEF ResolveAgentForTask
  <2>3. M = L
    <3> HIDE DEF over
    <3>1. over(p.entry, p.primary, p.fallback) = B
      BY <1>1, <1>6
    <3>2. M = over(p.over, B.primary, B.fallback)
      BY <3>1, Zenon
    <3>3. QED
      BY <1>7, <3>2
  <2> HIDE DEF L, M
  <2>4. QED
    BY <2>1, <2>2, <2>3
<1>9. QED
  BY <1>8 DEF p, q

(* AgentsAsPlanned: the agent of a task is the same by every way through    *)
(* the state document, the agents file and either resolver, for any tasks,  *)
(* agents and configurations.                                               *)
THEOREM AgentsCorrect == AgentsSpec => []AgentsAsPlanned
<1>1. AgentsInit => AgentsInv
  BY DEF AgentsInit, AgentsInv, NotAsked
<1>2. AgentsInv /\ [AgentsNext]_agentVars => AgentsInv'
  <2> SUFFICES ASSUME AgentsInv, [AgentsNext]_agentVars PROVE AgentsInv'
    OBVIOUS
  <2>1. CASE AskAgents
    <3>1. PICK t \in Tasks, c \in AgentsConfig :
            /\ ~c.overrides => c.over = NoEntry
            /\ asked' = [pc |-> "asked", task |-> t, config |-> c]
      BY <2>1 DEF AskAgents, AgentsConfig
    <3>2. QED
      BY <3>1 DEF AgentsInv
  <2>2. CASE UNCHANGED agentVars
    BY <2>2 DEF AgentsInv, agentVars
  <2>3. QED
    BY <2>1, <2>2 DEF AgentsNext
<1>3. AgentsInv => RetroSurvivesDocument
  BY RetroWay DEF AgentsInv, RetroSurvivesDocument, Answer
<1>4. AgentsInv => PlanSurvivesFile
  <2> SUFFICES ASSUME AgentsInv, asked.pc = "asked"
               PROVE  /\ AgentsResolve(PlanEntry(Answer)) = Answer
                      /\ Answer \in [primary : Agents \cup {"runtime provider"},
                                     fallback : Agents \cup {"false"}]
    BY DEF PlanSurvivesFile
  <2>1. Answer \in [primary : Agents \cup {"runtime provider"},
                    fallback : (Agents \ {"null"}) \cup {"false"}]
    BY AnswerType DEF AgentsInv, Answer
  <2>2. QED
    BY <2>1, FileWay
<1>5. AgentsInv => ResolversAgree
  BY ResolversWay DEF AgentsInv, ResolversAgree, Answer
<1>6. QED
  BY <1>1, <1>2, <1>3, <1>4, <1>5, PTL DEF AgentsSpec, AgentsAsPlanned

-----------------------------------------------------------------------------
(* The sanctum of a memory agent (init-sanctum.py).                        *)

SanctumTypes ==
    /\ bundle \in [references : SUBSET References, templates : SUBSET Templates,
                   listed : SUBSET Templates, script : BOOLEAN, sound : BOOLEAN, updates : Nat]
    /\ sanctum \in [born : BOOLEAN, refs : SUBSET References,
                    files : SUBSET (Templates \cup {"CAPABILITIES"}),
                    capabilities : SUBSET References,
                    touched : SUBSET (References \cup Templates \cup {"CAPABILITIES"})]
    /\ birth \in [pc : {"idle", "references", "templates"},
                  todo : SUBSET (References \cup Templates), began : Nat, killed : BOOLEAN]

\* The script runs once, in a sanctum that nobody has touched: the directory
\* it makes first keeps every later run out.
BornOnce ==
    /\ birth.began <= bundle.updates
    /\ ~sanctum.born => birth.pc = "idle" /\ sanctum.touched = {}
    /\ birth.pc # "idle" => sanctum.touched = {}

\* What is still missing is on the script's list.
BirthOnTheWay ==
    /\ birth.pc = "references" /\ bundle.updates = birth.began =>
         Copied(bundle.references) \subseteq sanctum.refs \cup birth.todo
    /\ birth.pc = "templates" =>
         /\ bundle.templates \cap bundle.listed \subseteq sanctum.files \cup birth.todo
         /\ bundle.updates = birth.began => Copied(bundle.references) \subseteq sanctum.refs

SanctumInv == SanctumTypes /\ BornOnce /\ BirthOnTheWay /\ BornIsWhole

(* Every step keeps the invariant, and what the owner changed.              *)
LEMMA SanctumStep ==
    ASSUME SanctumInv, SanctumNext
    PROVE  SanctumInv' /\ OwnerKept
<1> USE SanctumAssumption
    DEF SanctumInv, SanctumTypes, BornOnce, BirthOnTheWay, BornIsWhole, OwnerKept
<1>1. CASE BirthBegin
  <2>1. UNCHANGED bundle
    BY <1>1 DEF BirthBegin
  <2>2. /\ sanctum'.born /\ sanctum'.touched = sanctum.touched /\ sanctum'.refs = sanctum.refs
        /\ sanctum'.files = sanctum.files /\ sanctum'.capabilities = sanctum.capabilities
        /\ SanctumTypes'
        /\ birth'.pc = "references" /\ birth'.todo = Copied(bundle.references)
        /\ birth'.began = bundle.updates
    BY <1>1 DEF BirthBegin, Copied
  <2>3. QED
    BY <1>1, <2>1, <2>2 DEF BirthBegin
<1>2. CASE ReferencesCopied
  <2>1. UNCHANGED <<bundle, sanctum>> /\ birth.pc = "references" /\ birth.todo = {}
    BY <1>2 DEF ReferencesCopied
  <2>2. /\ SanctumTypes' /\ birth'.pc = "templates" /\ birth'.todo = bundle.listed
        /\ birth'.began = birth.began
    BY <1>2 DEF ReferencesCopied
  <2>3. QED
    BY <2>1, <2>2
<1>3. CASE WriteCapabilities
  <2>1. UNCHANGED bundle /\ birth.pc = "templates" /\ birth.todo = {}
    BY <1>3 DEF WriteCapabilities
  <2>2. /\ sanctum'.files = sanctum.files \cup {"CAPABILITIES"} /\ sanctum'.refs = sanctum.refs
        /\ sanctum'.capabilities = DiscoverCapabilities(bundle.references)
        /\ sanctum'.touched = sanctum.touched \ {"CAPABILITIES"} /\ sanctum'.born = sanctum.born
        /\ birth'.pc = "idle" /\ birth'.began = birth.began /\ SanctumTypes'
    BY <1>3 DEF WriteCapabilities, DiscoverCapabilities
  <2>3. DiscoverCapabilities(bundle.references) \subseteq Copied(bundle.references)
    BY DEF DiscoverCapabilities, Copied
  <2>4. QED
    BY <2>1, <2>2, <2>3
<1>4. CASE BirthKilled
  <2>1. UNCHANGED <<bundle, sanctum>> /\ birth.pc # "idle"
    BY <1>4 DEF BirthKilled
  <2>2. SanctumTypes' /\ birth'.pc = "idle" /\ birth'.killed /\ birth'.began = birth.began
    BY <1>4 DEF BirthKilled
  <2>3. QED
    BY <2>1, <2>2
<1>5. ASSUME NEW r \in References, CopyReference(r)
      PROVE  SanctumInv' /\ OwnerKept
  <2>1. UNCHANGED bundle /\ birth.pc = "references" /\ r \in birth.todo
    BY <1>5 DEF CopyReference
  <2>2. CASE r \in bundle.references
    <3>1. /\ sanctum' = [sanctum EXCEPT !.refs = sanctum.refs \cup {r},
                                       !.touched = sanctum.touched \ {r}]
          /\ birth' = [birth EXCEPT !.todo = birth.todo \ {r}]
      BY <1>5, <2>2 DEF CopyReference
    <3>2. /\ sanctum'.refs = sanctum.refs \cup {r} /\ sanctum'.touched = sanctum.touched \ {r}
          /\ sanctum'.born = sanctum.born /\ sanctum'.files = sanctum.files
      BY <3>1
    <3>3. /\ birth'.todo = birth.todo \ {r} /\ birth'.pc = birth.pc
          /\ birth'.began = birth.began
      BY <3>1
    <3>4. SanctumTypes'
      BY <2>1, <3>1
    <3>5. QED
      BY <2>1, <3>2, <3>3, <3>4
  <2>3. CASE r \notin bundle.references
    <3>1. /\ UNCHANGED sanctum /\ birth'.pc = "idle" /\ birth'.killed
          /\ birth'.began = birth.began /\ SanctumTypes'
      BY ZenonT(60), <1>5, <2>3 DEF CopyReference
    <3>2. QED
      BY <2>1, <3>1
  <2>4. QED
    BY <2>2, <2>3
<1>6. ASSUME NEW r \in References, BundleUpdate(r)
      PROVE  SanctumInv' /\ OwnerKept
  <2>1. UNCHANGED <<sanctum, birth>>
    BY <1>6 DEF BundleUpdate
  <2> DEFINE R == (bundle.references \ {r}) \cup ({r} \ bundle.references)
  <2>2. bundle' = [bundle EXCEPT !.references = R, !.updates = bundle.updates + 1]
    BY <1>6 DEF BundleUpdate
  <2>3. R \in SUBSET References
    BY <1>6
  <2> HIDE DEF R
  <2>4. /\ bundle'.updates = bundle.updates + 1
        /\ bundle'.templates = bundle.templates /\ bundle'.listed = bundle.listed
    BY <2>2
  <2>5. SanctumTypes'
    <3> DEFINE B == [bundle EXCEPT !.references = R]
    <3>1. B \in [references : SUBSET References, templates : SUBSET Templates,
                 listed : SUBSET Templates, script : BOOLEAN, sound : BOOLEAN, updates : Nat]
      BY <2>3
    <3>2. bundle' = [B EXCEPT !.updates = bundle.updates + 1] /\ bundle.updates + 1 \in Nat
      BY <2>2
    <3> HIDE DEF B
    <3>3. bundle' \in [references : SUBSET References, templates : SUBSET Templates,
                       listed : SUBSET Templates, script : BOOLEAN, sound : BOOLEAN,
                       updates : Nat]
      BY <3>1, <3>2
    <3>4. QED
      BY <2>1, <3>3
  <2>6. bundle'.updates # birth'.began
    BY <2>1, <2>4
  <2>7. QED
    BY <2>1, <2>4, <2>5, <2>6
<1>7. ASSUME NEW t \in Templates, WriteTemplate(t)
      PROVE  SanctumInv' /\ OwnerKept
  <2>1. /\ UNCHANGED bundle /\ birth.pc = "templates" /\ t \in birth.todo
        /\ birth'.todo = birth.todo \ {t} /\ birth'.pc = birth.pc /\ birth'.began = birth.began
        /\ birth' \in [pc : {"idle", "references", "templates"},
                       todo : SUBSET (References \cup Templates), began : Nat, killed : BOOLEAN]
    BY <1>7 DEF WriteTemplate
  <2>2. CASE t \in bundle.templates
    <3>1. /\ sanctum'.files = sanctum.files \cup {t} /\ sanctum'.touched = sanctum.touched \ {t}
          /\ sanctum'.born = sanctum.born /\ sanctum'.refs = sanctum.refs /\ SanctumTypes'
      BY <1>7, <2>1, <2>2 DEF WriteTemplate
    <3>2. QED
      BY <2>1, <3>1
  <2>3. CASE t \notin bundle.templates
    <3>1. UNCHANGED sanctum
      BY <1>7, <2>3 DEF WriteTemplate
    <3>2. QED
      BY <2>1, <2>3, <3>1
  <2>4. QED
    BY <2>2, <2>3
<1>8. ASSUME NEW f \in References \cup Templates \cup {"CAPABILITIES"}, OwnerEdits(f)
      PROVE  SanctumInv' /\ OwnerKept
  <2>1. UNCHANGED <<bundle, birth>> /\ sanctum.born /\ birth.pc = "idle"
    BY <1>8 DEF OwnerEdits
  <2>2. /\ sanctum'.touched = sanctum.touched \cup {f} /\ sanctum'.born = sanctum.born
        /\ sanctum'.refs = sanctum.refs /\ sanctum'.files = sanctum.files
        /\ sanctum'.capabilities = sanctum.capabilities /\ SanctumTypes'
    BY <1>8 DEF OwnerEdits
  <2>3. QED
    BY <2>1, <2>2
<1>9. QED
  BY <1>1, <1>2, <1>3, <1>4, <1>5, <1>6, <1>7, <1>8 DEF SanctumNext

(* What the pre-pass passes lists all its templates, the standard ones too. *)
LEMMA LintedLists ==
    ASSUME SanctumInv
    PROVE  LintedIsWhole
<1> SUFFICES ASSUME LintFindings(bundle) = {}, sanctum.born, birth.pc = "idle", ~birth.killed
             PROVE  Standard \subseteq sanctum.files
  BY DEF LintedIsWhole
<1>1. MissingTemplates(bundle) = {}
  BY DEF LintFindings
<1>2. bundle.script
  BY DEF LintFindings
<1>3. ListedTemplates(bundle) = bundle.templates
  BY <1>2 DEF LintFindings
<1>4. Standard \subseteq bundle.templates /\ bundle.listed = bundle.templates
  BY <1>1, <1>2, <1>3 DEF MissingTemplates, ListedTemplates
<1>5. QED
  BY <1>4 DEF SanctumInv, BornIsWhole

(* SanctumIsWhole of init-sanctum.py: whatever is killed, run again, edited *)
(* by the owner or updated in the bundle, an agent born in one piece has    *)
(* every file its bundle lists, one that was linted every standard file,    *)
(* and nothing of the owner's is overwritten, for any bundles.              *)
THEOREM SanctumCorrect == SanctumSpec => SanctumIsWhole
<1>1. SanctumInit => SanctumInv
  BY SanctumAssumption
     DEF SanctumInit, SanctumInv, SanctumTypes, BornOnce, BirthOnTheWay, BornIsWhole, NotBorn,
         NotRunning
<1>2. SanctumInv /\ [SanctumNext]_sanctumVars => SanctumInv' /\ [OwnerKept]_sanctumVars
  <2> SUFFICES ASSUME SanctumInv, [SanctumNext]_sanctumVars
               PROVE  SanctumInv' /\ [OwnerKept]_sanctumVars
    OBVIOUS
  <2>1. CASE UNCHANGED sanctumVars
    BY <2>1 DEF SanctumInv, SanctumTypes, BornOnce, BirthOnTheWay, BornIsWhole, sanctumVars
  <2>2. CASE SanctumNext
    BY <2>2, SanctumStep
  <2>3. QED
    BY <2>1, <2>2
<1>3. SanctumInv => BornIsWhole /\ LintedIsWhole
  BY LintedLists DEF SanctumInv
<1>4. QED
  BY <1>1, <1>2, <1>3, PTL DEF SanctumSpec, SanctumIsWhole

-----------------------------------------------------------------------------
(* The module builder (scaffold-setup-skill.py, scaffold-standalone-        *)
(* module.py, validate-module.py).                                          *)

BuildTypes ==
    /\ setup \in [BuildFiles -> {"", "old", "template", "own"}]
    /\ builder \in [pc : {"idle", "removing", "copying", "SKILL.md", "module.yaml",
                          "module-help.csv", "built"}, todo : SUBSET BuildFiles]
    /\ help \in SUBSET HelpRow

\* An old build and a new one never lie side by side: the old one is removed
\* to the last file first, and the author's help file is written last.
BuildOrder ==
    /\ (\A f \in BuildFiles : setup[f] \in {"", "old"})
         \/ (\A f \in BuildFiles : setup[f] # "old")
    /\ builder.pc = "removing" => \A f \in BuildFiles : setup[f] # "" => f \in builder.todo
    /\ builder.pc = "copying" =>
         \A f \in BuildFiles : setup[f] = IF f \in builder.todo THEN "" ELSE "template"
    /\ builder.pc \in {"SKILL.md", "module.yaml", "module-help.csv", "built"} =>
         \A f \in BuildFiles : setup[f] # "old"
    /\ builder.pc \in {"module.yaml", "module-help.csv", "built"} => setup["SKILL.md"] = "own"
    /\ builder.pc \in {"module-help.csv", "built"} => setup["module.yaml"] = "own"
    /\ setup["module-help.csv"] = "own" => builder.pc = "built"

BuildInv == BuildTypes /\ BuildOrder

(* Every step of the scaffold keeps the order of the two builds.            *)
LEMMA BuildStep ==
    ASSUME BuildInv, BuildNext
    PROVE  BuildInv'
<1> USE DEF BuildInv, BuildTypes, BuildOrder, BuildFiles
<1>1. CASE ScaffoldStart
  BY <1>1 DEF ScaffoldStart
<1>2. ASSUME NEW f \in BuildFiles, ScaffoldFile(f)
      PROVE  BuildInv'
  <2>1. /\ builder.pc \in {"removing", "copying"} /\ f \in builder.todo /\ UNCHANGED help
        /\ setup' = [setup EXCEPT ![f] = IF builder.pc = "removing" THEN "" ELSE "template"]
    BY <1>2 DEF ScaffoldFile
  <2>2. \A g \in BuildFiles : setup'[g] = IF g # f THEN setup[g]
                                          ELSE IF builder.pc = "removing" THEN "" ELSE "template"
    BY <2>1
  <2>3. BuildTypes'
    <3>1. setup' \in [BuildFiles -> {"", "old", "template", "own"}]
      BY <2>1
    <3>2. \/ builder' = [builder EXCEPT !.todo = builder.todo \ {f}]
          \/ builder' = [pc |-> "copying", todo |-> BuildFiles]
          \/ builder' = [pc |-> "SKILL.md", todo |-> {}]
      BY <1>2 DEF ScaffoldFile
    <3>3. builder' \in [pc : {"idle", "removing", "copying", "SKILL.md", "module.yaml",
                              "module-help.csv", "built"}, todo : SUBSET BuildFiles]
      <4>1. builder.todo \ {f} \in SUBSET BuildFiles
        BY DEF BuildInv, BuildTypes
      <4>2. CASE builder' = [builder EXCEPT !.todo = builder.todo \ {f}]
        <5> HIDE DEF BuildFiles, BuildOrder
        <5>1. QED
          BY <4>1, <4>2
      <4>3. CASE builder' = [pc |-> "copying", todo |-> BuildFiles]
        BY <4>3
      <4>4. CASE builder' = [pc |-> "SKILL.md", todo |-> {}]
        BY <4>4
      <4>5. QED
        BY <3>2, <4>2, <4>3, <4>4
    <3>4. QED
      BY <2>1, <3>1, <3>3
  <2>4. CASE builder.pc = "removing"
    <3>1. IF builder.todo \ {f} # {}
          THEN builder'.pc = "removing" /\ builder'.todo = builder.todo \ {f}
          ELSE builder'.pc = "copying" /\ builder'.todo = BuildFiles
      BY <1>2, <2>4 DEF ScaffoldFile
    <3>2. QED
      BY ZenonT(60), <2>2, <2>3, <2>4, <3>1
  <2>5. CASE builder.pc = "copying"
    <3>1. IF builder.todo \ {f} # {}
          THEN builder'.pc = "copying" /\ builder'.todo = builder.todo \ {f}
          ELSE builder'.pc = "SKILL.md"
      BY <1>2, <2>5 DEF ScaffoldFile
    <3>2. QED
      BY <2>1, <2>2, <2>3, <2>5, <3>1
  <2>6. QED
    BY <2>1, <2>4, <2>5
<1>3. CASE ScaffoldWrite
  BY <1>3 DEF ScaffoldWrite
<1>4. CASE ScaffoldKilled
  BY <1>4 DEF ScaffoldKilled, NotBuilding
<1>5. QED
  BY <1>1, <1>2, <1>3, <1>4 DEF BuildNext

(* What passes is one build.                                                *)
LEMMA PassOneBuild ==
    ASSUME BuildInv
    PROVE  PassIsOneBuild
BY DEF BuildInv, BuildTypes, BuildOrder, BuildFiles, PassIsOneBuild, Validate

(* A help file without findings of high severity reaches every skill.       *)
LEMMA PassReachable ==
    ASSUME BuildInv
    PROVE  PassIsReachable
<1> SUFFICES ASSUME HighFindings(help) = {}, NEW f \in Folders
             PROVE  \E r \in help :
                      r.skill = f /\ r.code # "" /\ \A x \in help : x.code = r.code => x = r
  BY DEF PassIsReachable, Validate
<1>1. {x \in Folders : \A r \in help : r.skill # x} = {}
  BY DEF HighFindings
<1>2. ASSUME NEW x \in help, x.code # "", NEW y \in help, y # x
      PROVE  y.code # x.code
  <2>1. SUFFICES ASSUME y.code = x.code PROVE FALSE
    OBVIOUS
  <2>2. x \in {z \in help : z.code # "" /\ \E w \in help : w # z /\ w.code = z.code}
    BY <1>2, <2>1
  <2>3. <<"duplicate-menu-code", x.code>> \in HighFindings(help)
    BY <2>2 DEF HighFindings
  <2>4. QED
    BY <2>3
<1>3. {x \in help : x.code = ""} = {}
  BY DEF HighFindings
<1>4. PICK r \in help : r.skill = f
  BY <1>1
<1>5. r.code # ""
  BY <1>3
<1>6. \A x \in help : x.code = r.code => x = r
  BY <1>2, <1>5
<1>7. QED
  BY <1>4, <1>5, <1>6

StandaloneTypes ==
    /\ skill \in [SkillFiles -> {"", "half", "template", "author", "faulty"}]
    /\ adding \in [pc : {"idle", "added", "marketplace", "module-setup.md"} \cup MergeScripts,
                   writing : BOOLEAN]
    /\ found \subseteq MergeScripts
    /\ killed \in BOOLEAN

\* What a run has written before it comes to a file, and what it found there.
RunSoFar ==
    /\ adding.pc \in MergeScripts \cup {"marketplace", "added"} =>
         skill["module-setup.md"] = "template"
    /\ adding.pc \in {"merge-help-csv.py", "marketplace", "added"} =>
         "merge-config.py" \in found \/ skill["merge-config.py"] = "template"
    /\ adding.pc \in {"marketplace", "added"} =>
         "merge-help-csv.py" \in found \/ skill["merge-help-csv.py"] = "template"
    /\ adding.pc \in {"module-setup.md", "merge-config.py"} /\ skill["merge-config.py"] # "" =>
         "merge-config.py" \in found \/ (adding.pc = "merge-config.py" /\ adding.writing)
    /\ adding.pc \in {"module-setup.md"} \cup MergeScripts /\ skill["merge-help-csv.py"] # "" =>
         "merge-help-csv.py" \in found \/ (adding.pc = "merge-help-csv.py" /\ adding.writing)
    /\ adding.pc = "added" => market = "whole"

\* Without a kill a file is half written only while the scaffold has it open.
StandaloneInv ==
    /\ StandaloneTypes /\ RunSoFar
    /\ adding.writing => adding.pc \notin {"idle", "added"}
    /\ adding.writing /\ adding.pc \in SkillFiles => skill[adding.pc] = "half"
    /\ \A f \in SkillFiles :
         /\ skill[f] = "half" => killed \/ (adding.writing /\ adding.pc = f)
         /\ skill[f] = "faulty" => f \in Judged

(* Every step of the scaffold and of the author keeps that, and no step of  *)
(* the scaffold the author's scripts.                                       *)
LEMMA StandaloneStep ==
    ASSUME StandaloneInv, StandaloneNext
    PROVE  StandaloneInv' /\ OwnScriptsKept
<1> USE DEF StandaloneInv, StandaloneTypes, RunSoFar, OwnScriptsKept, SkillFiles,
            MergeScripts, Judged, Adding
<1>1. CASE AddStart
  BY <1>1 DEF AddStart
<1>2. CASE AddSkip
  BY <1>2 DEF AddSkip, After, Skips
<1>3. CASE AddOpen
  BY <1>3 DEF AddOpen, Skips
<1>4. CASE AddFill
  BY <1>4 DEF AddFill, After
<1>5. CASE MarketOpen
  BY <1>5 DEF MarketOpen
<1>6. CASE MarketFill
  BY <1>6 DEF MarketFill
<1>7. CASE AddKilled
  BY <1>7 DEF AddKilled
<1>8. ASSUME NEW f \in SkillFiles, AuthorWrites(f)
      PROVE  StandaloneInv' /\ OwnScriptsKept
  <2>1. PICK v \in {"author"} \cup {x \in {"faulty"} : f \in Judged} :
               skill' = [skill EXCEPT ![f] = v]
    BY <1>8 DEF AuthorWrites
  <2>2. (v = "author" \/ v = "faulty") /\ (v = "faulty" => f \in Judged)
    OBVIOUS
  <2>3. /\ adding.pc \in {"idle", "added"} /\ adding' = [pc |-> "idle", writing |-> FALSE]
        /\ UNCHANGED <<market, runsMade, found, killed>>
    BY <1>8 DEF AuthorWrites
  <2>4. StandaloneTypes'
    BY <2>1, <2>2, <2>3
  <2>5. QED
    BY <2>1, <2>2, <2>3, <2>4
<1>9. ASSUME NEW f \in MergeScripts, AuthorRemoves(f)
      PROVE  StandaloneInv' /\ OwnScriptsKept
  BY <1>9 DEF AuthorRemoves
<1>10. QED
  BY <1>1, <1>2, <1>3, <1>4, <1>5, <1>6, <1>7, <1>8, <1>9 DEF StandaloneNext

(* ValidatedIsWhole of the two scaffolds and validate-module.py, for any    *)
(* skills, menu codes and help files and any number of runs and kills: a    *)
(* setup skill that passes is one build whose skills can be reached; a      *)
(* skill that passes is whole if no run was killed, and after a run that    *)
(* finished but for the merge scripts it found; the author's scripts stay.  *)
THEOREM BuildCorrect == BuildSpec /\ StandaloneSpec => ValidatedIsWhole
<1>1. BuildInit /\ StandaloneInit => BuildInv /\ StandaloneInv
  <2>1. BuildInit => BuildInv
    <3> SUFFICES ASSUME BuildInit PROVE BuildInv
      OBVIOUS
    <3>1. PICK v \in {"", "old"} : setup = [f \in BuildFiles |-> v]
      BY DEF BuildInit
    <3>2. setup \in [BuildFiles -> {"", "old", "template", "own"}]
      BY <3>1
    <3>3. \A f \in BuildFiles : setup[f] \in {"", "old"}
      BY <3>1
    <3>4. builder = [pc |-> "idle", todo |-> {}] /\ help \in SUBSET HelpRow
      BY BuildAssumption DEF BuildInit, NotBuilding
    <3>5. QED
      BY <3>2, <3>3, <3>4 DEF BuildInv, BuildTypes, BuildOrder, BuildFiles
  <2>2. StandaloneInit => StandaloneInv
    <3> SUFFICES ASSUME StandaloneInit PROVE StandaloneInv
      OBVIOUS
    <3>1. skill = [f \in SkillFiles |-> ""]
      BY DEF StandaloneInit
    <3>2. skill \in [SkillFiles -> {"", "half", "template", "author", "faulty"}]
      BY <3>1
    <3>3. \A f \in SkillFiles : skill[f] = ""
      BY <3>1
    <3>4. adding = [pc |-> "idle", writing |-> FALSE] /\ found = {} /\ killed = FALSE
      BY DEF StandaloneInit, Adding
    <3>5. StandaloneTypes
      BY <3>2, <3>4 DEF StandaloneTypes
    <3>6. /\ adding.pc = "idle" /\ ~adding.writing
          /\ \A f \in SkillFiles : skill[f] # "half" /\ skill[f] # "faulty"
      BY <3>3, <3>4
    <3>7. RunSoFar
      BY <3>6 DEF RunSoFar, MergeScripts
    <3>8. QED
      BY <3>5, <3>6, <3>7 DEF StandaloneInv
  <2>3. QED
    BY <2>1, <2>2
<1>2. BuildInv /\ [BuildNext]_buildVars => BuildInv'
  <2>1. BuildInv /\ UNCHANGED buildVars => BuildInv'
    BY DEF BuildInv, BuildTypes, BuildOrder, buildVars
  <2>2. QED
    BY <2>1, BuildStep
<1>3. StandaloneInv /\ [StandaloneNext]_standaloneVars => StandaloneInv' /\ OwnScriptsKept
  <2>1. ASSUME StandaloneInv, UNCHANGED standaloneVars PROVE StandaloneInv' /\ OwnScriptsKept
    <3>1. UNCHANGED <<skill, market, adding, found, killed>>
      BY <2>1 DEF standaloneVars
    <3>2. StandaloneTypes' /\ RunSoFar'
      BY <2>1, <3>1 DEF StandaloneInv, StandaloneTypes, RunSoFar
    <3>3. QED
      BY <2>1, <3>1, <3>2 DEF StandaloneInv, OwnScriptsKept
  <2>2. QED
    BY <2>1, StandaloneStep
<1>4. BuildInv => PassIsOneBuild /\ PassIsReachable
  BY PassOneBuild, PassReachable
<1>5. StandaloneInv => PassedIsWhole /\ FinishedIsWhole
  <2>1. StandaloneInv => PassedIsWhole
    BY DEF StandaloneInv, StandaloneTypes, PassedIsWhole, StandalonePasses, Complete,
           RequiredFiles, SkillFiles
  <2>2. StandaloneInv => FinishedIsWhole
    BY DEF StandaloneInv, RunSoFar, FinishedIsWhole, MergeScripts
  <2>3. QED
    BY <2>1, <2>2
<1>6. QED
  BY <1>1, <1>2, <1>3, <1>4, <1>5, PTL DEF BuildSpec, StandaloneSpec, ValidatedIsWhole

-----------------------------------------------------------------------------
(* The setup scripts (merge-config.py, merge-help-csv.py, cleanup-legacy.py)*)

Settings == [Keys -> Values]
ConfigSet == [root : Settings, nested : Settings,
              section : Settings, others : SUBSET Others]
RowSet == [Others \cup {"module"} -> {"", "old", "source"}]
LegacySet == [Dirs -> [there : BOOLEAN, values : Settings, help : BOOLEAN]]
Places == {"idle", "config", "config opened", "user", "user opened", "written",
           "delete module", "delete core", "csv", "csv opened", "drop module", "drop core",
           "remove module", "remove core"}
JobSet == [pc : Places, config : ConfigSet, user : Settings, rows : RowSet,
           option : BOOLEAN]

\* What merge-config.py is about to write: nothing private in the shared file,
\* the other modules' sections, every value of the legacy files it will delete
\* and of those that were deleted before.
MergePlanned ==
    job.pc \in {"config", "config opened"} =>
        /\ \A k \in Private : job.config.root[k] = ""
        /\ "config" \notin cut => job.config.others = Others
        /\ \A d \in Dirs, k \in Core : legacy[d].values[k] # "" =>
             /\ legacy[d].there /\ job.option =>
                  (IF k \in Shared THEN job.config.root[k] ELSE job.user[k]) # ""
             /\ ~legacy[d].there /\ "legacy" \notin cut /\ k \in Shared => job.config.root[k] # ""

\* The same once config.yaml is written and config.user.yaml is not.
UserPlanned ==
    job.pc \in {"user", "user opened"} =>
        \A d \in Dirs, k \in Core : legacy[d].values[k] # "" =>
            /\ legacy[d].there /\ job.option =>
                 (IF k \in Shared THEN config.root[k] ELSE job.user[k]) # ""
            /\ ~legacy[d].there /\ "legacy" \notin cut /\ k \notin Shared => job.user[k] # ""

\* Before a legacy file is deleted its values are in the two files.
StoredFirst ==
    (job.pc = "written" /\ job.option) \/ job.pc \in {"delete module", "delete core"} =>
        \A d \in Dirs, k \in Core : legacy[d].values[k] # "" /\ legacy[d].there =>
            (IF k \in Shared THEN config.root[k] ELSE user[k]) # ""

\* The rows merge-help-csv.py will write, and has written when it deletes.
RowsPlanned ==
    /\ job.pc \in {"csv", "csv opened"} =>
         /\ job.rows["module"] # ""
         /\ "csv" \notin cut => \A m \in Others : job.rows[m] = "old"
    /\ job.pc \in {"drop module", "drop core"} => rows["module"] # ""

\* What cleanup-legacy.py checked stays true while it removes.
RemovalVerified ==
    job.option /\ job.pc \in {"remove module", "remove core"} =>
        \A d \in Dirs : dirs[d] \subseteq installed

\* What stands in the two files is in what will be written over them.
ValuesPlanned ==
    /\ job.pc = "config" =>
         \A k \in Shared : config.root[k] # "" \/ config.nested[k] # "" => job.config.root[k] # ""
    /\ job.pc = "user" => \A k \in Keys : user[k] # "" => job.user[k] # ""

JobPlanned == MergePlanned /\ UserPlanned /\ StoredFirst /\ RowsPlanned /\ RemovalVerified

SetupInv ==
    /\ TypeOK /\ job \in JobSet
    /\ LegacyNotLost /\ OthersKept /\ PrivateStaysPrivate
    /\ JobPlanned

(* dict.update: the second dictionary wins.                                 *)
LEMMA UpdateFacts ==
    ASSUME NEW f \in Settings, NEW g \in Settings
    PROVE  /\ Update(f, g) \in Settings
           /\ \A k \in Keys : Update(f, g)[k] = IF g[k] = "" THEN f[k] ELSE g[k]
<1> HIDE DEF Keys, Values
<1>1. Update(f, g) \in Settings
  BY DEF Update, Settings
<1>2. QED
  BY <1>1 DEF Update

(* A selection of keys.                                                     *)
LEMMA OnlyFacts ==
    ASSUME NEW f \in Settings, NEW S
    PROVE  /\ Only(f, S) \in Settings
           /\ \A k \in Keys : Only(f, S)[k] = IF k \in S THEN f[k] ELSE ""
<1>1. "" \in Values
  BY DEF Values
<1> HIDE DEF Keys, Values
<1>2. Only(f, S) \in Settings
  BY <1>1 DEF Only, Settings
<1>3. QED
  BY <1>2 DEF Only

(* Every kind of key is a key.                                              *)
LEMMA KeySets ==
    /\ Shared \in SUBSET Keys /\ Private \in SUBSET Keys /\ Core \in SUBSET Keys
    /\ Variables \in SUBSET Keys
BY DEF Keys, Core

(* What an emptied file loads as, and no script running.                    *)
LEMMA SetupConstants ==
    /\ Blank \in Settings /\ \A k \in Keys : Blank[k] = ""
    /\ EmptyConfig \in ConfigSet /\ EmptyConfig.root = Blank /\ EmptyConfig.nested = Blank
    /\ NoRows \in RowSet /\ NoJob \in JobSet /\ NoJob.pc = "idle" /\ ~NoJob.option
<1>1. "" \in Values
  BY DEF Values
<1>2. Blank \in Settings /\ \A k \in Keys : Blank[k] = ""
  BY <1>1 DEF Blank, Settings
<1>3. EmptyConfig \in ConfigSet /\ EmptyConfig.root = Blank /\ EmptyConfig.nested = Blank
  BY <1>2 DEF EmptyConfig, ConfigSet
<1>4. NoRows \in RowSet
  BY DEF NoRows, RowSet
<1>5. NoJob \in JobSet /\ NoJob.pc = "idle" /\ ~NoJob.option
  BY <1>2, <1>3, <1>4 DEF NoJob, JobSet, Places
<1>6. QED
  BY <1>2, <1>3, <1>4, <1>5

(* merge_config keeps every shared value, answered or stored, and the other *)
(* modules, and writes no private value.                                    *)
LEMMA MergeFacts ==
    ASSUME NEW c \in ConfigSet, NEW ans \in Settings
    PROVE  /\ MergeConfig(c, ans) \in ConfigSet
           /\ MergeConfig(c, ans).others = c.others
           /\ \A k \in Private : MergeConfig(c, ans).root[k] = ""
           /\ \A k \in Shared : c.root[k] # "" \/ c.nested[k] # "" \/ ans[k] # ""
                               => MergeConfig(c, ans).root[k] # ""
<1>1. c.root \in Settings /\ c.nested \in Settings /\ c.others \in SUBSET Others
  BY DEF ConfigSet
<1> DEFINE A == Only(ans, Shared)
           N == Update(c.root, c.nested)
           B == Only(N, Shared)
           R == Update(B, A)
           V == Only(ans, Variables)
<1>2. A \in Settings /\ \A k \in Keys : A[k] = IF k \in Shared THEN ans[k] ELSE ""
  BY OnlyFacts
<1>3. /\ N \in Settings
      /\ \A k \in Keys : N[k] = IF c.nested[k] = "" THEN c.root[k] ELSE c.nested[k]
  BY <1>1, UpdateFacts
<1> HIDE DEF N, A
<1>4. B \in Settings /\ \A k \in Keys : B[k] = IF k \in Shared THEN N[k] ELSE ""
  BY ZenonT(60), <1>3, OnlyFacts
<1> HIDE DEF B
<1>5. R \in Settings /\ \A k \in Keys : R[k] = IF A[k] = "" THEN B[k] ELSE A[k]
  BY <1>2, <1>4, UpdateFacts
<1> HIDE DEF R
<1>6. V \in Settings
  BY OnlyFacts
<1> HIDE DEF V
<1>7. ApplyResultTemplates(V) \in Settings
  <2>1. \A k \in Keys : (CASE V[k] = "answer" -> "answer/"
                           [] V[k] = "legacy" -> "legacy/"
                           [] OTHER -> V[k]) \in Values
    BY <1>6 DEF Values, Settings
  <2> HIDE DEF Keys, Values
  <2>2. QED
    BY <2>1 DEF ApplyResultTemplates, Settings
<1>8. MergeConfig(c, ans) = [root |-> R, nested |-> Blank, section |-> ApplyResultTemplates(V),
                             others |-> c.others]
  BY DEF MergeConfig, R, B, N, A, V
<1>9. MergeConfig(c, ans) \in ConfigSet
  <2>1. R \in Settings /\ Blank \in Settings
    BY <1>5, SetupConstants
  <2> DEFINE T == ApplyResultTemplates(V)
  <2>2. T \in Settings /\ c.others \in SUBSET Others
    BY <1>1, <1>7
  <2> HIDE DEF T
  <2>3. [root |-> R, nested |-> Blank, section |-> T, others |-> c.others] \in ConfigSet
    BY <2>1, <2>2 DEF ConfigSet
  <2>4. QED
    BY <1>8, <2>3 DEF T
<1>10. MergeConfig(c, ans).others = c.others /\ MergeConfig(c, ans).root = R
  BY <1>8
<1>11. \A k \in Private : k \in Keys /\ k \notin Shared
  BY SetupAssumption DEF Keys, Core
<1>12. \A k \in Private : R[k] = ""
  BY <1>2, <1>4, <1>5, <1>11
<1>13. \A k \in Shared : k \in Keys
  BY DEF Keys, Core
<1>14. \A k \in Shared : c.root[k] # "" \/ c.nested[k] # "" \/ ans[k] # "" => R[k] # ""
  BY <1>2, <1>3, <1>4, <1>5, <1>13
<1>15. QED
  BY <1>9, <1>10, <1>12, <1>14

(* load_legacy_values misses no core value of a legacy file that is there.  *)
LEMMA LegacyFacts ==
    ASSUME legacy \in LegacySet
    PROVE  /\ LegacyValues \in Settings
           /\ \A d \in Dirs, k \in Core :
                legacy[d].there /\ legacy[d].values[k] # "" => LegacyValues[k] # ""
<1> DEFINE of(d) == IF legacy[d].there THEN legacy[d].values ELSE Blank
           C == Only(of("core"), Core)
<1>1. \A d \in Dirs : of(d) \in Settings
  BY SetupConstants DEF LegacySet, Dirs
<1>2. of("core") \in Settings /\ of("module") \in Settings
  BY <1>1 DEF Dirs
<1>3. LegacyValues = Update(of("module"), C)
  BY DEF LegacyValues
<1>4. \A d \in Dirs : legacy[d].there => of(d) = legacy[d].values
  OBVIOUS
<1> HIDE DEF of
<1>5. C \in Settings /\ \A k \in Keys : C[k] = IF k \in Core THEN of("core")[k] ELSE ""
  BY <1>2, OnlyFacts
<1> HIDE DEF C
<1>6. /\ LegacyValues \in Settings
      /\ \A k \in Keys : LegacyValues[k] = IF C[k] = "" THEN of("module")[k] ELSE C[k]
  BY <1>2, <1>3, <1>5, UpdateFacts
<1>7. ASSUME NEW k \in Core, NEW d \in Dirs, legacy[d].there, legacy[d].values[k] # ""
      PROVE  LegacyValues[k] # ""
  <2>1. k \in Keys /\ d \in {"module", "core"} /\ of(d)[k] # ""
    BY <1>4, <1>7 DEF Keys, Dirs
  <2>2. QED
    BY <1>5, <1>6, <2>1
<1>8. QED
  BY <1>6, <1>7

(* The three promises about the files, when no file changes.                *)
FilesKept == LegacyNotLost /\ OthersKept /\ PrivateStaysPrivate

(* merge-config.py reads, and keeps in memory what it will write.           *)
LEMMA MergeStartStep ==
    ASSUME SetupInv, MergeConfigStart
    PROVE  SetupInv' /\ VerifiedRemoval /\ ValuesPlanned' /\ job'.pc = "config"
<1>1. /\ job.pc = "idle" /\ UNCHANGED <<config, user, legacy, rows, dirs, installed, cut>>
      /\ config \in ConfigSet /\ legacy \in LegacySet
  BY DEF MergeConfigStart, SetupInv, TypeOK, Settings, ConfigSet, LegacySet
<1>2. PICK answered \in SUBSET Keys, migrate \in BOOLEAN :
         LET given == [k \in Keys |-> IF k \in answered THEN "answer" ELSE ""]
             ans == IF migrate THEN ApplyLegacyDefaults(given) ELSE given IN
         job' = [NoJob EXCEPT !.pc = "config", !.config = MergeConfig(config, ans),
                              !.user = UserSettings(ans), !.option = migrate]
  BY Zenon DEF MergeConfigStart
<1> DEFINE given == [k \in Keys |-> IF k \in answered THEN "answer" ELSE ""]
           ans == IF migrate THEN ApplyLegacyDefaults(given) ELSE given
           M == MergeConfig(config, ans)
           U == UserSettings(ans)
<1>3. given \in Settings
  <2>1. "answer" \in Values /\ "" \in Values
    BY DEF Values
  <2> HIDE DEF Keys, Values
  <2>2. QED
    BY <2>1 DEF Settings
<1> HIDE DEF given
<1>4. /\ ans \in Settings
      /\ \A d \in Dirs, k \in Core :
           migrate /\ legacy[d].there /\ legacy[d].values[k] # "" => ans[k] # ""
  <2>1. CASE migrate
    <3>1. ans = Update(LegacyValues, given)
      BY <2>1 DEF ApplyLegacyDefaults
    <3>2. LegacyValues \in Settings
      BY <1>1, LegacyFacts
    <3> HIDE DEF ans
    <3>3. /\ ans \in Settings
          /\ \A k \in Keys : ans[k] = IF given[k] = "" THEN LegacyValues[k] ELSE given[k]
      BY <1>3, <3>1, <3>2, UpdateFacts
    <3>4. \A k \in Core : k \in Keys
      BY DEF Keys
    <3>5. QED
      BY <1>1, <3>3, <3>4, LegacyFacts
  <2>2. CASE ~migrate
    BY <1>3, <2>2
  <2>3. QED
    BY <2>1, <2>2
<1> HIDE DEF ans
<1>5. /\ M \in ConfigSet /\ M.others = config.others /\ \A k \in Private : M.root[k] = ""
      /\ \A k \in Shared : config.root[k] # "" \/ config.nested[k] # "" \/ ans[k] # ""
                          => M.root[k] # ""
  BY <1>1, <1>4, MergeFacts
<1>6. U \in Settings /\ \A k \in Private : U[k] = ans[k]
  <2> DEFINE S == Private \cup UserVariables
  <2>1. U = Only(ans, S) /\ Private \subseteq S
    BY DEF UserSettings
  <2> HIDE DEF U, S
  <2>2. ans \in Settings
    BY <1>4
  <2>3. U \in Settings /\ \A k \in Keys : U[k] = IF k \in S THEN ans[k] ELSE ""
    BY ZenonT(60), <2>1, <2>2, OnlyFacts
  <2>4. QED
    BY <2>1, <2>3, KeySets
<1>7. job' = [NoJob EXCEPT !.pc = "config", !.config = M, !.user = U, !.option = migrate]
  BY <1>2, Zenon DEF M, U, ans, given
<1> HIDE DEF M, U
<1>8. /\ job'.pc = "config" /\ job'.config = M /\ job'.user = U /\ job'.option = migrate
      /\ job' \in JobSet
  <2>1. job' = [pc |-> "config", config |-> M, user |-> U, rows |-> NoRows, option |-> migrate]
    BY <1>7 DEF NoJob
  <2>2. NoRows \in RowSet
    BY SetupConstants
  <2>3. job' \in JobSet
    BY <1>5, <1>6, <2>1, <2>2 DEF JobSet, Places
  <2>4. QED
    BY <2>1, <2>3
<1>9. FilesKept' /\ TypeOK'
  <2>1. Config' = Config /\ User' = User /\ Rows' = Rows
    BY <1>1, <1>8 DEF Config, User, Rows
  <2>2. TypeOK'
    BY <1>1 DEF SetupInv, TypeOK, Settings
  <2>3. LegacyNotLost'
    BY <1>1, <2>1 DEF SetupInv, LegacyNotLost
  <2>4. OthersKept' /\ PrivateStaysPrivate'
    BY <1>1, <2>1 DEF SetupInv, OthersKept, PrivateStaysPrivate
  <2>5. QED
    BY <2>2, <2>3, <2>4 DEF FilesKept
<1>10. MergePlanned'
  <2>1. \A d \in Dirs, k \in Core : legacy[d].values[k] # "" /\ legacy[d].there /\ migrate =>
          (IF k \in Shared THEN M.root[k] ELSE U[k]) # ""
    BY <1>4, <1>5, <1>6 DEF Core
  <2>2. \A d \in Dirs, k \in Core :
          /\ legacy[d].values[k] # "" /\ ~legacy[d].there /\ "legacy" \notin cut /\ k \in Shared
          => M.root[k] # ""
    BY <1>1, <1>5 DEF SetupInv, LegacyNotLost, Config
  <2>3. "config" \notin cut => M.others = Others
    BY <1>1, <1>5 DEF SetupInv, OthersKept, Config
  <2>4. QED
    BY <1>1, <1>5, <1>8, <2>1, <2>2, <2>3 DEF MergePlanned
<1>11. JobPlanned'
  BY <1>8, <1>10 DEF JobPlanned, UserPlanned, StoredFirst, RowsPlanned, RemovalVerified
<1>12. VerifiedRemoval
  BY <1>1 DEF VerifiedRemoval
<1>13. ValuesPlanned'
  BY <1>1, <1>5, <1>8 DEF ValuesPlanned
<1>14. QED
  BY <1>8, <1>9, <1>11, <1>12, <1>13 DEF SetupInv, FilesKept

(* config.yaml is opened and written, then config.user.yaml is.             *)
LEMMA MergeWriteStep ==
    ASSUME SetupInv, OpenConfig \/ WriteConfig \/ OpenUser \/ WriteUser \/ MergeDone
    PROVE  SetupInv' /\ VerifiedRemoval
<1>1. /\ config \in ConfigSet /\ user \in Settings /\ rows \in RowSet
      /\ legacy \in LegacySet /\ job \in JobSet
      /\ job.config \in ConfigSet /\ job.user \in Settings
  BY DEF SetupInv, TypeOK, Settings, ConfigSet, LegacySet, RowSet, JobSet
<1>2. UNCHANGED <<legacy, rows, dirs, installed, cut>>
  BY DEF OpenConfig, WriteConfig, OpenUser, WriteUser, MergeDone
<1>3. VerifiedRemoval
  BY <1>2 DEF VerifiedRemoval
<1>4. ASSUME config' \in ConfigSet, user' \in Settings
      PROVE  TypeOK'
  BY <1>2, <1>4 DEF SetupInv, TypeOK, Settings, ConfigSet
<1>5. job.pc \in {"config", "config opened", "user", "user opened", "written"}
      => Rows = rows
  BY DEF Rows
<1>6. CASE OpenConfig
  <2>1. /\ job.pc = "config" /\ config' = EmptyConfig /\ user' = user
        /\ job' = [job EXCEPT !.pc = "config opened"]
    BY <1>6 DEF OpenConfig, Goes
  <2>2. /\ job'.pc = "config opened" /\ job'.config = job.config /\ job'.user = job.user
        /\ job'.option = job.option /\ job' \in JobSet
    BY <1>1, <2>1 DEF JobSet, Places
  <2>3. /\ Config' = job.config /\ Config = config /\ User' = user /\ User = user
        /\ Rows' = rows /\ Rows = rows
    BY <1>2, <2>1, <2>2 DEF Config, User, Rows
  <2>4. TypeOK'
    BY <1>1, <1>4, <2>1, SetupConstants
  <2>5. LegacyNotLost'
    BY <1>2, <2>1, <2>3 DEF SetupInv, LegacyNotLost, JobPlanned, MergePlanned
  <2>6. OthersKept'
    BY <1>2, <2>1, <2>3 DEF SetupInv, OthersKept, JobPlanned, MergePlanned
  <2>7. PrivateStaysPrivate'
    BY <2>1, SetupConstants, KeySets DEF PrivateStaysPrivate
  <2>8. JobPlanned'
    BY ZenonT(60), <1>2, <2>1, <2>2 DEF SetupInv, JobPlanned, MergePlanned, UserPlanned, StoredFirst,
                            RowsPlanned, RemovalVerified
  <2>9. QED
    BY <1>3, <2>2, <2>4, <2>5, <2>6, <2>7, <2>8 DEF SetupInv
<1>7. CASE WriteConfig
  <2> DEFINE W == Update(user, job.user)
  <2>1. /\ job.pc = "config opened" /\ config' = job.config /\ user' = user
        /\ job' = [job EXCEPT !.config = EmptyConfig, !.user = W,
                              !.pc = IF job.user = Blank THEN "written" ELSE "user"]
    BY <1>7 DEF WriteConfig
  <2>2. /\ W \in Settings
        /\ \A k \in Keys : W[k] = IF job.user[k] = "" THEN user[k] ELSE job.user[k]
    BY <1>1, UpdateFacts
  <2> HIDE DEF W
  <2>3. /\ job'.pc = (IF job.user = Blank THEN "written" ELSE "user") /\ job'.user = W
        /\ job'.option = job.option /\ job' \in JobSet
    <3>1. EmptyConfig \in ConfigSet
      BY SetupConstants
    <3>2. job' = [pc |-> IF job.user = Blank THEN "written" ELSE "user", config |-> EmptyConfig,
                  user |-> W, rows |-> job.rows, option |-> job.option]
      BY <1>1, <2>1 DEF JobSet
    <3>3. job.rows \in RowSet /\ job.option \in BOOLEAN
      BY <1>1 DEF JobSet
    <3>4. job' \in JobSet
      BY <2>2, <3>1, <3>2, <3>3 DEF JobSet, Places
    <3>5. QED
      BY <3>2, <3>4
  <2>4. /\ Config' = job.config /\ Config = job.config /\ User' = user /\ User = user
        /\ Rows' = rows /\ Rows = rows
    <3>1. job'.pc \in {"written", "user"}
      BY <2>3
    <3>2. QED
      BY <1>2, <2>1, <3>1 DEF Config, User, Rows
  <2>5. TypeOK'
    BY <1>1, <1>4, <2>1
  <2>6. LegacyNotLost' /\ OthersKept'
    BY <1>2, <2>4 DEF SetupInv, LegacyNotLost, OthersKept
  <2>7. PrivateStaysPrivate'
    BY <2>1 DEF PrivateStaysPrivate, SetupInv, JobPlanned, MergePlanned
  <2>8. \A d \in Dirs, k \in Core :
          legacy[d].values[k] # "" /\ legacy[d].there /\ job.option =>
            (IF k \in Shared THEN job.config.root[k] ELSE job.user[k]) # ""
    BY <2>1 DEF SetupInv, JobPlanned, MergePlanned
  <2>9. \A d \in Dirs, k \in Core :
          legacy[d].values[k] # "" /\ ~legacy[d].there /\ "legacy" \notin cut /\ k \notin Shared
            => user[k] # ""
    BY <2>4 DEF SetupInv, LegacyNotLost
  <2>10. \A k \in Core : k \in Keys
    BY KeySets
  <2>11. \A k \in Keys : job.user[k] # "" \/ user[k] # "" => W[k] # ""
    BY <2>2
  <2>12. CASE job.user = Blank
    <3>1. \A k \in Core : job.user[k] = ""
      BY <2>10, <2>12, SetupConstants
    <3>2. StoredFirst'
      <4>1. job'.pc = "written" /\ job'.option = job.option
        BY <2>3, <2>12
      <4>2. \A d \in Dirs, k \in Core :
              legacy[d].values[k] # "" /\ legacy[d].there /\ job.option =>
                (IF k \in Shared THEN config'.root[k] ELSE user'[k]) # ""
        BY <2>1, <2>8, <3>1
      <4>3. QED
        BY <1>2, <4>1, <4>2 DEF StoredFirst
    <3>3. JobPlanned'
      BY <2>3, <2>12, <3>2 DEF JobPlanned, MergePlanned, UserPlanned, RowsPlanned,
                               RemovalVerified
    <3>4. QED
      BY <1>3, <2>3, <2>5, <2>6, <2>7, <3>3 DEF SetupInv
  <2>13. CASE job.user # Blank
    <3>1. UserPlanned'
      BY <1>2, <2>1, <2>3, <2>8, <2>9, <2>10, <2>11, <2>13 DEF UserPlanned
    <3>2. JobPlanned'
      BY <2>3, <2>13, <3>1 DEF JobPlanned, MergePlanned, StoredFirst, RowsPlanned,
                               RemovalVerified
    <3>3. QED
      BY <1>3, <2>3, <2>5, <2>6, <2>7, <3>2 DEF SetupInv
  <2>14. QED
    BY <2>12, <2>13
<1>8. CASE OpenUser
  <2>1. /\ job.pc = "user" /\ user' = Blank /\ config' = config
        /\ job' = [job EXCEPT !.pc = "user opened"]
    BY <1>8 DEF OpenUser, Goes
  <2>2. /\ job'.pc = "user opened" /\ job'.user = job.user /\ job'.option = job.option
        /\ job' \in JobSet
    BY <1>1, <2>1 DEF JobSet, Places
  <2>3. /\ Config' = config /\ Config = config /\ User' = job.user /\ User = user
        /\ Rows' = rows /\ Rows = rows
    BY <1>2, <2>1, <2>2 DEF Config, User, Rows
  <2>4. TypeOK'
    BY <1>1, <1>4, <2>1, SetupConstants
  <2>5. LegacyNotLost'
    BY <1>2, <2>1, <2>3 DEF SetupInv, LegacyNotLost, JobPlanned, UserPlanned
  <2>6. OthersKept' /\ PrivateStaysPrivate'
    BY <1>2, <2>1, <2>3 DEF SetupInv, OthersKept, PrivateStaysPrivate
  <2>7. JobPlanned'
    BY <1>2, <2>1, <2>2 DEF SetupInv, JobPlanned, MergePlanned, UserPlanned, StoredFirst,
                            RowsPlanned, RemovalVerified
  <2>8. QED
    BY <1>3, <2>2, <2>4, <2>5, <2>6, <2>7 DEF SetupInv
<1>9. CASE WriteUser
  <2>1. /\ job.pc = "user opened" /\ user' = job.user /\ config' = config
        /\ job' = [job EXCEPT !.pc = "written"]
    BY <1>9 DEF WriteUser, Goes
  <2>2. /\ job'.pc = "written" /\ job'.option = job.option /\ job' \in JobSet
    BY <1>1, <2>1 DEF JobSet, Places
  <2>3. /\ Config' = config /\ Config = config /\ User' = job.user /\ User = job.user
        /\ Rows' = rows /\ Rows = rows
    BY <1>2, <2>1, <2>2 DEF Config, User, Rows
  <2>4. TypeOK'
    BY <1>1, <1>4, <2>1
  <2>5. LegacyNotLost' /\ OthersKept' /\ PrivateStaysPrivate'
    BY <1>2, <2>1, <2>3 DEF SetupInv, LegacyNotLost, OthersKept, PrivateStaysPrivate
  <2>6. StoredFirst'
    BY <1>2, <2>1, <2>2 DEF SetupInv, JobPlanned, UserPlanned, StoredFirst
  <2>7. JobPlanned'
    BY <2>2, <2>6 DEF JobPlanned, MergePlanned, UserPlanned, RowsPlanned, RemovalVerified
  <2>8. QED
    BY <1>3, <2>2, <2>4, <2>5, <2>7 DEF SetupInv
<1>10. CASE MergeDone
  <2>1. /\ job.pc = "written" /\ UNCHANGED <<config, user>>
        /\ job' = IF job.option THEN [NoJob EXCEPT !.pc = "delete module"] ELSE NoJob
    BY <1>10 DEF MergeDone
  <2>2. /\ job'.pc = (IF job.option THEN "delete module" ELSE "idle") /\ ~job'.option
        /\ job' \in JobSet
    BY <2>1, SetupConstants DEF JobSet, Places
  <2>3. /\ Config' = config /\ Config = config /\ User' = user /\ User = user
        /\ Rows' = rows /\ Rows = rows
    <3>1. job'.pc \in {"delete module", "idle"}
      BY <2>2
    <3>2. QED
      BY <1>2, <2>1, <3>1 DEF Config, User, Rows
  <2>4. TypeOK'
    BY <1>1, <1>4, <2>1
  <2>5. LegacyNotLost' /\ OthersKept' /\ PrivateStaysPrivate'
    BY <1>2, <2>1, <2>3 DEF SetupInv, LegacyNotLost, OthersKept, PrivateStaysPrivate
  <2>6. StoredFirst'
    BY <1>2, <2>1, <2>2 DEF SetupInv, JobPlanned, StoredFirst
  <2>7. JobPlanned'
    BY <2>2, <2>6 DEF JobPlanned, MergePlanned, UserPlanned, RowsPlanned, RemovalVerified
  <2>8. QED
    BY <1>3, <2>2, <2>4, <2>5, <2>7 DEF SetupInv
<1>11. QED
  BY <1>6, <1>7, <1>8, <1>9, <1>10

(* The legacy files go only after their values and rows are stored.         *)
LEMMA LegacyDeleteStep ==
    ASSUME SetupInv, NEW e \in Dirs, DeleteLegacy(e) \/ DeleteLegacyCsv(e)
    PROVE  SetupInv' /\ VerifiedRemoval
<1>1. UNCHANGED <<config, user, rows, dirs, installed, cut>> /\ VerifiedRemoval
  BY DEF DeleteLegacy, DeleteLegacyCsv, VerifiedRemoval
<1>2. job.pc \in {"delete module", "delete core", "drop module", "drop core"}
  BY DEF DeleteLegacy, DeleteLegacyCsv
<1>3. legacy \in LegacySet /\ job \in JobSet
  BY DEF SetupInv, TypeOK, Settings, LegacySet
<1>4. /\ legacy' \in LegacySet
      /\ \A d \in Dirs : legacy'[d].values = legacy[d].values /\ (legacy'[d].there => legacy[d].there)
  <2>1. \/ legacy' = [legacy EXCEPT ![e] = [legacy[e] EXCEPT !.there = FALSE]]
        \/ legacy' = [legacy EXCEPT ![e] = [legacy[e] EXCEPT !.help = FALSE]]
    BY DEF DeleteLegacy, DeleteLegacyCsv
  <2>2. /\ legacy[e] \in [there : BOOLEAN, values : Settings, help : BOOLEAN]
        /\ [legacy[e] EXCEPT !.there = FALSE] \in [there : BOOLEAN, values : Settings,
                                                   help : BOOLEAN]
        /\ [legacy[e] EXCEPT !.help = FALSE] \in [there : BOOLEAN, values : Settings,
                                                  help : BOOLEAN]
    BY <1>3 DEF LegacySet
  <2>3. QED
    BY ZenonT(60), <1>3, <2>1, <2>2 DEF LegacySet
<1>5. /\ job'.pc \in {"delete core", "drop core", "idle"}
      /\ job'.pc = "delete core" => job.pc = "delete module"
      /\ job'.pc = "drop core" => job.pc = "drop module"
      /\ job'.option => job.option
      /\ job' \in JobSet
  <2>1. \/ job' = NoJob
        \/ job.pc = "delete module" /\ job' = [job EXCEPT !.pc = "delete core"]
        \/ job.pc = "drop module" /\ job' = [job EXCEPT !.pc = "drop core"]
    BY DEF DeleteLegacy, DeleteLegacyCsv
  <2>2. CASE job' = NoJob
    BY <2>2, SetupConstants
  <2>3. CASE job' # NoJob
    BY <1>3, <2>1, <2>3 DEF JobSet, Places
  <2>4. QED
    BY <2>2, <2>3
<1>6. /\ Config' = config /\ Config = config /\ User' = user /\ User = user
      /\ Rows' = rows /\ Rows = rows
  BY <1>1, <1>2, <1>5 DEF Config, User, Rows
<1>7. TypeOK'
  BY <1>1, <1>4 DEF SetupInv, TypeOK, Settings, LegacySet
<1>8. LegacyNotLost'
  <2>1. CASE \E d \in Dirs : DeleteLegacy(d)
    <3>1. job.pc \in {"delete module", "delete core"}
      BY <2>1 DEF DeleteLegacy
    <3>2. \A d \in Dirs : legacy'[d].help = legacy[d].help
      <4>1. PICK d \in Dirs : legacy' = [legacy EXCEPT ![d] = [legacy[d] EXCEPT !.there = FALSE]]
        BY <2>1 DEF DeleteLegacy
      <4>2. QED
        BY <1>3, <4>1 DEF LegacySet
    <3>3. ASSUME NEW d \in Dirs, NEW k \in Core, legacy[d].values[k] # "", "legacy" \notin cut
          PROVE  (IF k \in Shared THEN config.root[k] ELSE user[k]) # ""
      BY <1>6, <3>1, <3>3 DEF SetupInv, JobPlanned, StoredFirst, LegacyNotLost
    <3>4. QED
      BY ZenonT(60), <1>1, <1>4, <1>6, <3>2, <3>3 DEF SetupInv, LegacyNotLost
  <2>2. CASE \E d \in Dirs : DeleteLegacyCsv(d)
    <3>1. rows["module"] # ""
      BY <2>2 DEF DeleteLegacyCsv, SetupInv, JobPlanned, RowsPlanned
    <3>2. \A d \in Dirs : legacy'[d].there = legacy[d].there
      <4>1. PICK d \in Dirs : legacy' = [legacy EXCEPT ![d] = [legacy[d] EXCEPT !.help = FALSE]]
        BY <2>2 DEF DeleteLegacyCsv
      <4>2. QED
        BY <1>3, <4>1 DEF LegacySet
    <3>3. QED
      BY ZenonT(60), <1>1, <1>4, <1>6, <3>1, <3>2 DEF SetupInv, LegacyNotLost
  <2>3. QED
    BY <2>1, <2>2
<1>9. OthersKept' /\ PrivateStaysPrivate'
  BY <1>1, <1>6 DEF SetupInv, OthersKept, PrivateStaysPrivate
<1>10. StoredFirst' /\ RowsPlanned'
  BY <1>1, <1>4, <1>5 DEF SetupInv, JobPlanned, StoredFirst, RowsPlanned
<1>11. JobPlanned'
  BY <1>5, <1>10 DEF JobPlanned, MergePlanned, UserPlanned, RemovalVerified
<1>12. QED
  BY <1>1, <1>5, <1>7, <1>8, <1>9, <1>11 DEF SetupInv

(* merge-help-csv.py, cleanup-legacy.py's check, and whoever installs a     *)
(* skill: no file of settings changes.                                      *)
LEMMA HelpStep ==
    ASSUME SetupInv, MergeHelpStart \/ OpenCsv \/ WriteCsv \/ CleanupStart \/ InstallSkill
    PROVE  SetupInv' /\ VerifiedRemoval
<1>1. UNCHANGED <<config, user, legacy, dirs, cut>> /\ VerifiedRemoval
  BY DEF MergeHelpStart, OpenCsv, WriteCsv, CleanupStart, InstallSkill, VerifiedRemoval
<1>2. rows \in RowSet /\ job \in JobSet /\ job.rows \in RowSet
  BY DEF SetupInv, TypeOK, Settings, RowSet, JobSet
<1>3. ASSUME rows' \in RowSet, installed' = installed
      PROVE  TypeOK'
  BY <1>1, <1>3 DEF SetupInv, TypeOK, Settings, RowSet
<1>4. ASSUME Config' = Config, User' = User,
             cut \cap {"csv", "legacy"} = {} =>
                (Rows["module"] # "" => Rows'["module"] # ""),
             "csv" \notin cut => \A m \in Others : Rows'[m] = "old"
      PROVE  LegacyNotLost' /\ OthersKept' /\ PrivateStaysPrivate'
  <2>1. LegacyNotLost'
    BY <1>1, <1>4 DEF SetupInv, LegacyNotLost
  <2>2. OthersKept'
    BY <1>1, <1>4 DEF SetupInv, OthersKept
  <2>3. PrivateStaysPrivate'
    BY <1>1 DEF SetupInv, PrivateStaysPrivate
  <2>4. QED
    BY <2>1, <2>2, <2>3
<1>5. "csv" \notin cut => \A m \in Others : Rows[m] = "old"
  BY DEF SetupInv, OthersKept
<1>6. CASE MergeHelpStart
  <2> DEFINE kept == FilterRows(rows)
             R == [kept EXCEPT !["module"] = IF kept["module"] = "" THEN "source" ELSE "doubled"]
  <2>1. job.pc = "idle" /\ UNCHANGED <<rows, installed>>
    BY <1>6 DEF MergeHelpStart
  <2>2. PICK migrate \in BOOLEAN :
          job' = [NoJob EXCEPT !.pc = "csv", !.option = migrate, !.rows = R]
    BY <1>6 DEF MergeHelpStart
  <2>3. kept \in [Others \cup {"module"} -> {"", "old", "source"}] /\ kept["module"] = ""
        /\ \A m \in Others : kept[m] = rows[m]
    BY <1>2, SetupAssumption DEF FilterRows, RowSet
  <2> HIDE DEF kept
  <2>4. /\ R \in RowSet /\ R["module"] = "source"
        /\ \A m \in Others : R[m] = rows[m]
    BY <2>3, SetupAssumption DEF RowSet
  <2> HIDE DEF R
  <2>5. job'.pc = "csv" /\ job'.rows = R /\ job' \in JobSet
    <3>1. EmptyConfig \in ConfigSet /\ Blank \in Settings
      BY SetupConstants
    <3>2. job' = [pc |-> "csv", config |-> EmptyConfig, user |-> Blank, rows |-> R,
                  option |-> migrate]
      BY <2>2 DEF NoJob
    <3>3. job' \in JobSet
      BY <2>4, <3>1, <3>2 DEF JobSet, Places
    <3>4. QED
      BY <3>2, <3>3
  <2>6. Config' = Config /\ User' = User /\ Rows' = Rows /\ Rows = rows
    BY <1>1, <2>1, <2>5 DEF Config, User, Rows
  <2>7. TypeOK'
    BY <1>2, <1>3, <2>1
  <2>8. LegacyNotLost' /\ OthersKept' /\ PrivateStaysPrivate'
    BY <1>4, <1>5, <2>6
  <2>9. RowsPlanned'
    BY <1>1, <1>5, <2>4, <2>5, <2>6 DEF RowsPlanned
  <2>10. JobPlanned'
    BY <2>5, <2>9 DEF JobPlanned, MergePlanned, UserPlanned, StoredFirst, RemovalVerified
  <2>11. QED
    BY <1>1, <2>5, <2>7, <2>8, <2>10 DEF SetupInv
<1>7. CASE OpenCsv
  <2>1. /\ job.pc = "csv" /\ job' = [job EXCEPT !.pc = "csv opened"] /\ rows' = NoRows
        /\ UNCHANGED installed
    BY <1>7 DEF OpenCsv, Goes
  <2>2. job'.pc = "csv opened" /\ job'.rows = job.rows /\ job' \in JobSet
    BY <1>2, <2>1 DEF JobSet, Places
  <2>3. Config' = Config /\ User' = User /\ Rows' = job.rows /\ Rows = rows
    BY <1>1, <2>1, <2>2 DEF Config, User, Rows
  <2>4. TypeOK'
    BY <1>3, <2>1, SetupConstants
  <2>5. /\ job.rows["module"] # ""
        /\ "csv" \notin cut => \A m \in Others : job.rows[m] = "old"
    BY <2>1 DEF SetupInv, JobPlanned, RowsPlanned
  <2>6. LegacyNotLost' /\ OthersKept' /\ PrivateStaysPrivate'
    BY <1>4, <2>3, <2>5
  <2>7. RowsPlanned'
    BY <1>1, <2>2, <2>5 DEF RowsPlanned
  <2>8. JobPlanned'
    BY <2>2, <2>7 DEF JobPlanned, MergePlanned, UserPlanned, StoredFirst, RemovalVerified
  <2>9. QED
    BY <1>1, <2>2, <2>4, <2>6, <2>8 DEF SetupInv
<1>8. CASE WriteCsv
  <2>1. /\ job.pc = "csv opened" /\ rows' = job.rows /\ UNCHANGED installed
        /\ job' = IF job.option THEN [NoJob EXCEPT !.pc = "drop module"] ELSE NoJob
    BY <1>8 DEF WriteCsv
  <2>2. job'.pc \in {"drop module", "idle"} /\ job' \in JobSet
    BY <2>1, SetupConstants DEF JobSet, Places
  <2>3. Config' = Config /\ User' = User /\ Rows' = job.rows /\ Rows = job.rows
    BY <1>1, <2>1, <2>2 DEF Config, User, Rows
  <2>4. TypeOK'
    BY <1>2, <1>3, <2>1
  <2>5. LegacyNotLost' /\ OthersKept' /\ PrivateStaysPrivate'
    BY <1>4, <1>5, <2>3
  <2>6. RowsPlanned'
    BY <2>1, <2>2 DEF SetupInv, JobPlanned, RowsPlanned
  <2>7. JobPlanned'
    BY <2>2, <2>6 DEF JobPlanned, MergePlanned, UserPlanned, StoredFirst, RemovalVerified
  <2>8. QED
    BY <1>1, <2>2, <2>4, <2>5, <2>7 DEF SetupInv
<1>9. CASE CleanupStart
  <2>1. job.pc = "idle" /\ UNCHANGED <<rows, installed>>
    BY <1>9 DEF CleanupStart
  <2>2. PICK verify \in BOOLEAN :
          /\ verify => MissingSkills = {}
          /\ job' = [NoJob EXCEPT !.pc = "remove module", !.option = verify]
    BY <1>9 DEF CleanupStart
  <2>3. job'.pc = "remove module" /\ job'.option = verify /\ job' \in JobSet
    BY <2>2, SetupConstants DEF JobSet, Places
  <2>4. Config' = Config /\ User' = User /\ Rows' = Rows
    BY <1>1, <2>1, <2>3 DEF Config, User, Rows
  <2>5. TypeOK'
    BY <1>2, <1>3, <2>1
  <2>6. LegacyNotLost' /\ OthersKept' /\ PrivateStaysPrivate'
    BY <1>4, <1>5, <2>4
  <2>7. verify => \A d \in Dirs : dirs[d] \subseteq installed
    <3>1. SUFFICES ASSUME verify, NEW d \in Dirs, NEW s \in dirs[d], s \notin installed
                   PROVE  FALSE
      OBVIOUS
    <3>2. s \in UNION {dirs[x] : x \in Dirs}
      OBVIOUS
    <3>3. s \in MissingSkills
      BY <3>1, <3>2 DEF MissingSkills
    <3>4. QED
      BY <2>2, <3>1, <3>3
  <2>8. RemovalVerified'
    BY <1>1, <2>1, <2>3, <2>7 DEF RemovalVerified
  <2>9. JobPlanned'
    BY <2>3, <2>8 DEF JobPlanned, MergePlanned, UserPlanned, StoredFirst, RowsPlanned
  <2>10. QED
    BY <1>1, <2>3, <2>5, <2>6, <2>9 DEF SetupInv
<1>10. CASE InstallSkill
  <2>1. /\ UNCHANGED <<rows, job>> /\ installed \subseteq installed'
        /\ installed' \subseteq Skills
    BY <1>10 DEF InstallSkill, SetupInv, TypeOK, Settings
  <2>2. Config' = Config /\ User' = User /\ Rows' = Rows
    BY <1>1, <2>1 DEF Config, User, Rows
  <2>3. TypeOK'
    BY <1>1, <2>1 DEF SetupInv, TypeOK, Settings
  <2>4. LegacyNotLost' /\ OthersKept' /\ PrivateStaysPrivate'
    BY <1>4, <1>5, <2>2
  <2>5. RemovalVerified'
    BY <1>1, <2>1 DEF SetupInv, JobPlanned, RemovalVerified
  <2>6. JobPlanned'
    BY <1>1, <2>1, <2>5 DEF SetupInv, JobPlanned, MergePlanned, UserPlanned, StoredFirst,
                            RowsPlanned
  <2>7. QED
    BY <1>1, <1>2, <2>1, <2>3, <2>4, <2>6 DEF SetupInv
<1>11. QED
  BY <1>6, <1>7, <1>8, <1>9, <1>10

(* cleanup-legacy.py removes, as far as it gets.                            *)
LEMMA RemoveStep ==
    ASSUME SetupInv, NEW e \in Dirs, RemoveDirectory(e) \/ RemoveFails(e)
    PROVE  SetupInv' /\ VerifiedRemoval
<1>1. PICK skills \in SUBSET dirs[e], kept \in SUBSET {"config", "csv"} :
         /\ Leaves(e, skills, kept)
         /\ job' = NoJob \/ (job.pc = "remove module" /\ job' = [job EXCEPT !.pc = "remove core"])
  <2>1. CASE RemoveDirectory(e)
    <3>1. Leaves(e, {}, {})
      BY <2>1 DEF RemoveDirectory
    <3>2. job' = NoJob \/ (job.pc = "remove module" /\ job' = [job EXCEPT !.pc = "remove core"])
      BY <2>1 DEF RemoveDirectory, Leaves
    <3>3. QED
      BY <3>1, <3>2
  <2>2. CASE RemoveFails(e)
    BY <2>2 DEF RemoveFails
  <2>3. QED
    BY <2>1, <2>2
<1>2. /\ job.pc \in {"remove module", "remove core"}
      /\ dirs' = [dirs EXCEPT ![e] = skills]
      /\ cut' = IF legacy' = legacy THEN cut ELSE cut \cup {"legacy"}
      /\ UNCHANGED <<config, user, rows, installed>>
  BY <1>1 DEF Leaves
<1>3. legacy \in LegacySet /\ job \in JobSet /\ dirs \in [Dirs -> SUBSET Skills]
  BY DEF SetupInv, TypeOK, Settings, LegacySet
<1>4. legacy' \in LegacySet /\ \A d \in Dirs : legacy'[d].values = legacy[d].values
  <2>1. PICK a \in BOOLEAN : a = (legacy[e].there /\ "config" \in kept)
    OBVIOUS
  <2>2. PICK b \in BOOLEAN : b = (legacy[e].help /\ "csv" \in kept)
    OBVIOUS
  <2> DEFINE L == [legacy[e] EXCEPT !.there = a, !.help = b]
  <2>3. legacy' = [legacy EXCEPT ![e] = L]
    BY <1>1, <2>1, <2>2 DEF Leaves
  <2>4. legacy[e] \in [there : BOOLEAN, values : Settings, help : BOOLEAN]
    BY <1>3 DEF LegacySet
  <2>5. L \in [there : BOOLEAN, values : Settings, help : BOOLEAN]
        /\ L.values = legacy[e].values
    BY <2>1, <2>2, <2>4
  <2> HIDE DEF L
  <2>6. QED
    BY <1>3, <2>3, <2>5 DEF LegacySet
<1>5. \A d \in Dirs : dirs'[d] \subseteq dirs[d]
  BY <1>2, <1>3
<1>6. dirs' \in [Dirs -> SUBSET Skills]
  BY <1>2, <1>3
<1>7. /\ job'.pc \in {"idle", "remove core"} /\ job' \in JobSet
      /\ job'.option => job.option
  <2>1. CASE job' = NoJob
    BY <2>1, SetupConstants
  <2>2. CASE job' = [job EXCEPT !.pc = "remove core"]
    BY <1>3, <2>2 DEF JobSet, Places
  <2>3. QED
    BY <1>1, <2>1, <2>2
<1>8. /\ Config' = config /\ Config = config /\ User' = user /\ User = user
      /\ Rows' = rows /\ Rows = rows
  BY <1>2, <1>7 DEF Config, User, Rows
<1>9. TypeOK'
  <2>1. cut' \subseteq {"config", "csv", "legacy"}
    BY <1>2 DEF SetupInv, TypeOK, Settings
  <2>2. QED
    BY <1>2, <1>4, <1>6, <2>1 DEF SetupInv, TypeOK, Settings, LegacySet
<1>10. LegacyNotLost'
  BY <1>2, <1>8 DEF SetupInv, LegacyNotLost
<1>11. OthersKept' /\ PrivateStaysPrivate'
  BY <1>2, <1>8 DEF SetupInv, OthersKept, PrivateStaysPrivate
<1>12. RemovalVerified'
  BY <1>2, <1>5, <1>7 DEF SetupInv, JobPlanned, RemovalVerified
<1>13. JobPlanned'
  BY <1>7, <1>12 DEF JobPlanned, MergePlanned, UserPlanned, StoredFirst, RowsPlanned
<1>14. VerifiedRemoval
  BY <1>2 DEF VerifiedRemoval, SetupInv, JobPlanned, RemovalVerified
<1>15. QED
  BY <1>7, <1>9, <1>10, <1>11, <1>13, <1>14 DEF SetupInv

(* A kill loses what an opened file held, and the history records it.       *)
LEMMA SetupKillStep ==
    ASSUME SetupInv, Killed
    PROVE  SetupInv' /\ VerifiedRemoval
<1> DEFINE gone == {x \in {"legacy"} : \E d \in Dirs : ~legacy[d].there /\ legacy[d].values # Blank}
<1>1. job' = NoJob /\ UNCHANGED <<config, user, legacy, rows, dirs, installed>>
  BY DEF Killed
<1>2. /\ job.pc = "config opened" => cut' = cut \cup {"config"} \cup gone
      /\ job.pc = "user opened" => cut' = cut \cup gone
      /\ job.pc = "csv opened" => cut' = cut \cup {"csv"}
      /\ job.pc \notin {"config opened", "user opened", "csv opened"} => cut' = cut
  BY DEF Killed
<1>3. /\ job'.pc = "idle" /\ ~job'.option /\ job' \in JobSet
      /\ Config' = config /\ User' = user /\ Rows' = rows
  BY <1>1, SetupConstants DEF Config, User, Rows
<1>4. gone \subseteq {"legacy"}
  OBVIOUS
<1>5. cut \subseteq cut' /\ cut' \subseteq {"config", "csv", "legacy"}
  <2>1. cut \subseteq {"config", "csv", "legacy"}
    BY DEF SetupInv, TypeOK, Settings
  <2> HIDE DEF gone
  <2>2. QED
    BY <1>2, <1>4, <2>1
<1>6. TypeOK'
  BY <1>1, <1>5 DEF SetupInv, TypeOK, Settings
<1>7. VerifiedRemoval
  BY <1>1 DEF VerifiedRemoval
<1>8. OthersKept' /\ PrivateStaysPrivate'
  <2>1. "config" \notin cut' => config.others = Others
    BY <1>2, <1>5 DEF SetupInv, OthersKept, Config
  <2>2. "csv" \notin cut' => \A m \in Others : rows[m] = "old"
    BY <1>2, <1>5 DEF SetupInv, OthersKept, Rows
  <2>3. QED
    BY <1>1, <1>3, <2>1, <2>2 DEF SetupInv, OthersKept, PrivateStaysPrivate
<1>9. LegacyNotLost'
  <2>1. ASSUME NEW d \in Dirs, ~legacy[d].there, "legacy" \notin cut', NEW k \in Core,
               legacy[d].values[k] # ""
        PROVE  (IF k \in Shared THEN config.root[k] ELSE user[k]) # ""
    <3>1. legacy[d].values # Blank
      BY <2>1, KeySets, SetupConstants
    <3>2. "legacy" \in gone
      BY <2>1, <3>1
    <3> HIDE DEF gone
    <3>3. job.pc \notin {"config opened", "user opened"}
      BY <1>2, <2>1, <3>2
    <3>4. Config = config /\ User = user /\ "legacy" \notin cut
      BY <1>5, <2>1, <3>3 DEF Config, User
    <3>5. QED
      BY <2>1, <3>4 DEF SetupInv, LegacyNotLost
  <2>2. ASSUME NEW d \in Dirs, ~legacy[d].help, cut' \cap {"csv", "legacy"} = {}
        PROVE  rows["module"] # ""
    <3>1. job.pc # "csv opened"
      BY <1>2, <2>2
    <3>2. Rows = rows /\ cut \cap {"csv", "legacy"} = {}
      BY <1>5, <2>2, <3>1 DEF Rows
    <3>3. QED
      BY <2>2, <3>2 DEF SetupInv, LegacyNotLost
  <2>3. QED
    BY <1>1, <1>3, <2>1, <2>2 DEF LegacyNotLost
<1>10. JobPlanned'
  BY <1>3 DEF JobPlanned, MergePlanned, UserPlanned, StoredFirst, RowsPlanned, RemovalVerified
<1>11. QED
  BY <1>3, <1>6, <1>7, <1>8, <1>9, <1>10 DEF SetupInv

(* Before the first script runs nothing is lost.                            *)
LEMMA SetupStart == Init => SetupInv
<1> SUFFICES ASSUME Init PROVE SetupInv
  OBVIOUS
<1>1. PICK old \in SUBSET Core :
         config = [EmptyConfig EXCEPT
                     !.nested = [k \in Keys |-> IF k \in old THEN "old" ELSE ""],
                     !.section = [k \in Keys |-> IF k \in Variables THEN "old" ELSE ""],
                     !.others = Others]
  BY DEF Init
<1>2. PICK there \in SUBSET Dirs :
         legacy = [d \in Dirs |-> [there |-> d \in there, help |-> TRUE,
                     values |-> [k \in Keys |-> IF d \notin there THEN ""
                                                ELSE IF d = "core" THEN "legacy"
                                                ELSE "legacy/"]]]
  BY DEF Init
<1>3. /\ user = Blank /\ dirs \in [Dirs -> SUBSET Skills] /\ installed = {} /\ job = NoJob
      /\ cut = {}
      /\ rows = [m \in Others \cup {"module"} |-> IF m = "module" THEN "" ELSE "old"]
  BY DEF Init
<1>4. /\ config \in ConfigSet /\ config.others = Others
      /\ \A k \in Private : config.root[k] = ""
  <2> DEFINE N == [k \in Keys |-> IF k \in old THEN "old" ELSE ""]
             S == [k \in Keys |-> IF k \in Variables THEN "old" ELSE ""]
  <2>1. "" \in Values /\ "old" \in Values
    BY DEF Values
  <2>2. N \in Settings /\ S \in Settings
    <3> HIDE DEF Keys, Values
    <3>1. QED
      BY <2>1 DEF Settings
  <2> HIDE DEF N, S
  <2>3. config = [root |-> Blank, nested |-> N, section |-> S, others |-> Others]
    BY <1>1 DEF EmptyConfig, N, S
  <2>4. QED
    BY <2>2, <2>3, SetupConstants, KeySets DEF ConfigSet
<1>5. legacy \in LegacySet
  <2> DEFINE V(d) == [k \in Keys |-> IF d \notin there THEN "" ELSE IF d = "core" THEN "legacy"
                                     ELSE "legacy/"]
  <2>1. "" \in Values /\ "legacy" \in Values /\ "legacy/" \in Values
    BY DEF Values
  <2>2. \A d \in Dirs : V(d) \in Settings
    <3> HIDE DEF Keys, Values
    <3>1. QED
      BY <2>1 DEF Settings
  <2>3. legacy = [d \in Dirs |-> [there |-> d \in there, help |-> TRUE, values |-> V(d)]]
    BY <1>2
  <2> HIDE DEF V
  <2>4. QED
    BY <2>2, <2>3 DEF LegacySet
<1>6. \A d \in Dirs, k \in Core : ~legacy[d].there => legacy[d].values[k] = ""
  BY <1>2, KeySets
<1>7. \A d \in Dirs : legacy[d].help
  BY <1>2
<1>8. rows \in RowSet /\ \A m \in Others : rows[m] = "old"
  BY <1>3, SetupAssumption DEF RowSet
<1>9. /\ job.pc = "idle" /\ ~job.option /\ job \in JobSet /\ user \in Settings
  BY <1>3, SetupConstants
<1>10. Config = config /\ User = user /\ Rows = rows
  BY <1>9 DEF Config, User, Rows
<1>11. TypeOK
  BY <1>3, <1>4, <1>5, <1>8, <1>9 DEF TypeOK, Settings, ConfigSet, LegacySet, RowSet
<1>12. LegacyNotLost
  BY <1>6, <1>7 DEF LegacyNotLost
<1>13. OthersKept /\ PrivateStaysPrivate
  BY <1>4, <1>8, <1>10 DEF OthersKept, PrivateStaysPrivate
<1>14. JobPlanned
  BY <1>9 DEF JobPlanned, MergePlanned, UserPlanned, StoredFirst, RowsPlanned, RemovalVerified
<1>15. QED
  BY <1>9, <1>11, <1>12, <1>13, <1>14 DEF SetupInv

(* What is written over a file holds what stood in it.                      *)
LEMMA ValuesStep ==
    ASSUME SetupInv, ValuesPlanned, [Next]_vars
    PROVE  ValuesPlanned' /\ ValuesKept
<1>1. user \in Settings /\ job \in JobSet /\ job.user \in Settings
  BY DEF SetupInv, TypeOK, Settings, JobSet
\* The scripts that leave both files alone, and what they have in mind.
<1>2. ASSUME UNCHANGED <<config, user>>,
             job.pc \notin {"config opened", "user opened"},
             job'.pc \notin {"config", "config opened", "user", "user opened"}
      PROVE  ValuesPlanned' /\ ValuesKept
  <2>1. Config' = Config /\ User' = User
    BY <1>2 DEF Config, User
  <2>2. ValuesKept
    BY <2>1 DEF ValuesKept, InConfig
  <2>3. ValuesPlanned'
    BY <1>2, Zenon DEF ValuesPlanned
  <2>4. QED
    BY <2>2, <2>3
<1>3. CASE MergeConfigStart
  <2>1. UNCHANGED <<config, user>> /\ job.pc = "idle" /\ job'.pc = "config"
    BY <1>3, MergeStartStep DEF MergeConfigStart
  <2>2. UNCHANGED <<Config, User>>
    BY <2>1 DEF Config, User
  <2>3. ValuesKept
    BY <2>1, <2>2 DEF ValuesKept, InConfig
  <2>4. QED
    BY <1>3, <2>3, MergeStartStep
<1>4. CASE OpenConfig
  <2>1. /\ job.pc = "config" /\ user' = user
        /\ job' = [job EXCEPT !.pc = "config opened"]
    BY <1>4 DEF OpenConfig, Goes
  <2>2. job'.pc = "config opened" /\ job'.config = job.config
    BY <1>1, <2>1 DEF JobSet
  <2>3. Config = config /\ Config' = job.config /\ User' = User
    BY <2>1, <2>2 DEF Config, User
  <2>4. QED
    BY <2>1, <2>2, <2>3 DEF ValuesPlanned, ValuesKept, InConfig
<1>5. CASE WriteConfig
  <2> DEFINE W == Update(user, job.user)
  <2>1. /\ job.pc = "config opened" /\ config' = job.config /\ user' = user
        /\ job' = [job EXCEPT !.config = EmptyConfig, !.user = W,
                              !.pc = IF job.user = Blank THEN "written" ELSE "user"]
    BY <1>5 DEF WriteConfig
  <2>2. \A k \in Keys : W[k] = IF job.user[k] = "" THEN user[k] ELSE job.user[k]
    BY <1>1, UpdateFacts
  <2> HIDE DEF W
  <2>3. job'.pc \in {"written", "user"} /\ job'.user = W
    BY <1>1, <2>1 DEF JobSet
  <2>4. Config' = Config /\ User' = User
    BY <2>1, <2>3 DEF Config, User
  <2>5. QED
    BY <2>1, <2>2, <2>3, <2>4 DEF ValuesPlanned, ValuesKept, InConfig
<1>6. CASE OpenUser
  <2>1. /\ job.pc = "user" /\ config' = config
        /\ job' = [job EXCEPT !.pc = "user opened"]
    BY <1>6 DEF OpenUser, Goes
  <2>2. job'.pc = "user opened" /\ job'.user = job.user
    BY <1>1, <2>1 DEF JobSet
  <2>3. Config' = Config /\ User = user /\ User' = job.user
    BY <2>1, <2>2 DEF Config, User
  <2>4. QED
    BY <2>1, <2>2, <2>3 DEF ValuesPlanned, ValuesKept, InConfig
<1>7. CASE WriteUser
  <2>1. /\ job.pc = "user opened" /\ user' = job.user /\ config' = config
        /\ job' = [job EXCEPT !.pc = "written"]
    BY <1>7 DEF WriteUser, Goes
  <2>2. job'.pc = "written"
    BY <1>1, <2>1 DEF JobSet
  <2>3. Config' = Config /\ User' = User
    BY <2>1, <2>2 DEF Config, User
  <2>4. QED
    BY <2>1, <2>2, <2>3 DEF ValuesPlanned, ValuesKept, InConfig
<1>8. CASE MergeDone \/ MergeHelpStart \/ OpenCsv \/ WriteCsv \/ CleanupStart
  <2>1. job'.pc \in {"delete module", "idle", "csv", "csv opened", "drop module", "remove module"}
    BY <1>1, <1>8, SetupConstants
       DEF MergeDone, MergeHelpStart, OpenCsv, WriteCsv, CleanupStart, Goes, JobSet, NoJob
  <2>2. QED
    BY <1>2, <1>8, <2>1 DEF MergeDone, MergeHelpStart, OpenCsv, WriteCsv, CleanupStart
<1>9. CASE \E d \in Dirs : \/ DeleteLegacy(d) \/ DeleteLegacyCsv(d)
                           \/ RemoveDirectory(d) \/ RemoveFails(d)
  <2>1. /\ job'.pc \in {"delete core", "drop core", "remove core", "idle"}
        /\ job.pc \notin {"config opened", "user opened"}
    BY <1>1, <1>9, SetupConstants
       DEF DeleteLegacy, DeleteLegacyCsv, RemoveDirectory, RemoveFails, Leaves, JobSet
  <2>2. QED
    BY <1>2, <1>9, <2>1 DEF DeleteLegacy, DeleteLegacyCsv, RemoveDirectory, RemoveFails, Leaves
<1>10. CASE Killed
  <2>1. UNCHANGED <<config, user>> /\ job'.pc = "idle"
    BY <1>10, SetupConstants DEF Killed
  <2>2. /\ job.pc # "config opened" => Config' = Config
        /\ job.pc # "user opened" => User' = User
    BY <2>1 DEF Config, User
  <2>3. QED
    BY <2>1, <2>2 DEF ValuesPlanned, ValuesKept, InConfig
<1>11. CASE InstallSkill \/ UNCHANGED vars
  <2>1. UNCHANGED <<config, user, job>>
    BY <1>11 DEF InstallSkill, vars
  <2>2. UNCHANGED <<Config, User>>
    BY <2>1 DEF Config, User
  <2>3. QED
    BY <2>1, <2>2 DEF ValuesPlanned, ValuesKept, InConfig
<1>12. QED
  BY <1>3, <1>4, <1>5, <1>6, <1>7, <1>8, <1>9, <1>10, <1>11 DEF Next

(* SetupKeepsValues of the setup scripts, killed between any two writes and *)
(* run again with any answers, for any keys, modules and skills.            *)
THEOREM SetupCorrect == Spec => SetupKeepsValues
<1>1. SetupInv /\ [Next]_vars => SetupInv' /\ [VerifiedRemoval]_vars
  <2> SUFFICES ASSUME SetupInv, [Next]_vars PROVE SetupInv' /\ [VerifiedRemoval]_vars
    OBVIOUS
  <2>1. CASE UNCHANGED vars
    <3>1. UNCHANGED <<config, user, legacy, rows, dirs, installed, job, cut>>
      BY <2>1 DEF vars
    <3>2. UNCHANGED <<Config, User, Rows>>
      BY <3>1 DEF Config, User, Rows
    <3>3. TypeOK' /\ job' \in JobSet
      BY <3>1 DEF SetupInv, TypeOK, Settings
    <3>4. LegacyNotLost' /\ OthersKept' /\ PrivateStaysPrivate'
      BY <3>1, <3>2 DEF SetupInv, LegacyNotLost, OthersKept, PrivateStaysPrivate
    <3>5. JobPlanned'
      BY <3>1 DEF SetupInv, JobPlanned, MergePlanned, UserPlanned, StoredFirst, RowsPlanned,
                  RemovalVerified
    <3>6. QED
      BY <2>1, <3>3, <3>4, <3>5 DEF SetupInv
  <2>2. CASE Next
    BY <2>2, MergeStartStep, MergeWriteStep, LegacyDeleteStep, HelpStep, RemoveStep,
       SetupKillStep DEF Next
  <2>3. QED
    BY <2>1, <2>2
<1>2. SetupInv => TypeOK /\ LegacyNotLost /\ OthersKept /\ PrivateStaysPrivate
  BY DEF SetupInv
<1>3. SetupInv /\ ValuesPlanned /\ [Next]_vars => ValuesPlanned' /\ [ValuesKept]_vars
  BY ValuesStep
<1>4. Init => ValuesPlanned
  BY SetupConstants DEF Init, ValuesPlanned
<1>5. QED
  BY <1>1, <1>2, <1>3, <1>4, SetupStart, PTL DEF Spec, SetupKeepsValues
=============================================================================
