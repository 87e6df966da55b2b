----------------------------- MODULE BenchGate -----------------------------
(* The bench gate of CI: run-bench-gate.py runs a bench and then a gate     *)
(* (check-shim-bench-p99.py, check-daemon-bench-p99.py) on the summary file *)
(* the bench wrote, and measures once more when the gate exits with 1.      *)
(* target/ may hold files of an earlier run, and the wrapper only asks      *)
(* whether there is a summary, not whose it is.                             *)
EXTENDS Integers

CONSTANTS
    Shapes,          \* the shapes the daemon's bench measures
    ShimShape,       \* the only one of the shim's bench
    Nanos,           \* p99 values a bench can measure
    Baselines,       \* committed baselines: [state, p99, budget, ratio]
    DefaultBudget    \* DEFAULT_ABSOLUTE_BUDGET_NS

ASSUME BenchAssumption ==
    /\ Nanos \subseteq Nat /\ DefaultBudget \in Nat /\ ShimShape \in Shapes
    /\ \A b \in Baselines : b.p99 \in [Shapes -> Nat] /\ b.budget \in Nat /\ b.ratio \in Int

\* A summary file: the attempt that wrote it (0: an earlier run), its numbers,
\* and what is wrong with it: "missing", "unreadable" (no JSON, another schema,
\* no p99), "partial" (mean_nanos is not there), or "ok".
NoSummary == [state |-> "missing", by |-> 0, p99 |-> [s \in Shapes |-> 0]]

Null == -1     \* regression_max_ratio: null.  A ratio is in percent.

VARIABLES
    kind,       \* the gate: "shim" or "daemon"
    baseline,   \* the committed baseline
    summary,    \* the summary file
    attempt1,   \* <summary>.attempt1.json
    step,       \* where main is: [pc, attempt]
    gates,      \* history: the gate's exit code at each attempt
    wrote,      \* history: the attempts whose bench wrote the summary
    exit        \* the wrapper's exit code, -1 while it runs

benchVars == <<kind, baseline, summary, attempt1, step, gates, wrote, exit>>

-----------------------------------------------------------------------------
\* absolute_budget_nanos or the default: 0 and null count as absent.
Budget(b) == IF b.budget = 0 THEN DefaultBudget ELSE b.budget

\* The regression gate.
Regressed(p99, base, ratio) == ratio # Null /\ p99 * 100 > base * ratio

\* main of the shim's gate.  A field that load_summary does not ask for and
\* main reads (mean_nanos) is a KeyError, which ends Python with exit code 1.
ShimGate(s, b) ==
    IF s.state \in {"missing", "unreadable"} THEN 2
    ELSE IF s.state = "partial" THEN 1
    ELSE IF b.state # "ok" THEN 2
    ELSE IF \/ s.p99[ShimShape] > Budget(b)
            \/ Regressed(s.p99[ShimShape], b.p99[ShimShape], b.ratio)
    THEN 1 ELSE 0

\* main of the daemon's gate: every shape; a baseline of zero is skipped.
DaemonGate(s, b) ==
    IF s.state \in {"missing", "unreadable"} \/ b.state # "ok" THEN 2
    ELSE IF \E x \in Shapes :
              \/ s.p99[x] > Budget(b)
              \/ b.p99[x] > 0 /\ Regressed(s.p99[x], b.p99[x], b.ratio)
    THEN 1 ELSE 0

GateExit(k, s, b) == IF k = "shim" THEN ShimGate(s, b) ELSE DaemonGate(s, b)

-----------------------------------------------------------------------------
\* Where the wrapper goes, or the exit code it ends with.
Goto(pc, attempt) == step' = [pc |-> pc, attempt |-> attempt] /\ UNCHANGED exit
End(code) == step' = [pc |-> "done", attempt |-> step.attempt] /\ exit' = code

\* Fault: a stale attempt-1 file stays.
BenchStart_KeepsStale ==
    /\ step.pc = "start" /\ Goto("bench", 1)
    /\ UNCHANGED <<kind, baseline, summary, attempt1, gates, wrote>>

\* main removes the attempt-1 file of an earlier run.
BenchStart ==
    /\ step.pc = "start" /\ Goto("bench", 1)
    /\ attempt1' = NoSummary
    /\ UNCHANGED <<kind, baseline, summary, gates, wrote>>

\* run_bench: the command fails or cannot be spawned; its code is the job's ...
BenchBreaks ==
    /\ step.pc = "bench"
    /\ \E code \in {1, 2, 101} :
         step' = [step EXCEPT !.pc = "propagated"] /\ exit' = code
    /\ \/ UNCHANGED <<summary, wrote>>
       \/ /\ summary' = [summary EXCEPT !.state = "unreadable", !.by = step.attempt]
          /\ wrote' = wrote \cup {step.attempt}
    /\ UNCHANGED <<kind, baseline, attempt1, gates>>

\* ... or it exits 0 having measured ...
BenchMeasures ==
    /\ step.pc = "bench" /\ Goto("gate", step.attempt)
    /\ \E p \in [Shapes -> Nanos], st \in {"ok", "unreadable", "partial"} :
         summary' = [state |-> st, by |-> step.attempt, p99 |-> p]
    /\ wrote' = wrote \cup {step.attempt}
    /\ UNCHANGED <<kind, baseline, attempt1, gates>>

\* ... or without having written: breakage, if there is no file at all.  A
\* file of an earlier run, or of attempt 1, passes for its own.
BenchWritesNothing ==
    /\ step.pc = "bench"
    /\ IF summary.state = "missing" THEN End(2) ELSE Goto("gate", step.attempt)
    /\ UNCHANGED <<kind, baseline, summary, attempt1, gates, wrote>>

\* What the wrapper makes of the gate's exit code.
NextAfterGate(code, attempt) ==
    CASE code = 0 -> "pass"
      [] code \notin {0, 1} -> "broken"
      [] code = 1 -> IF attempt = 1 THEN "retry" ELSE "fail"

\* run: the gate judges the file, is killed, or cannot be spawned; on exit 1
\* the numbers are kept, if they can be copied, and measured again.
GateRuns ==
    /\ step.pc = "gate"
    /\ \E code \in {GateExit(kind, summary, baseline), 2, 137} :
         /\ gates' = [gates EXCEPT ![step.attempt] = code]
         /\ CASE NextAfterGate(code, step.attempt) = "pass" -> End(0) /\ UNCHANGED attempt1
              [] NextAfterGate(code, step.attempt) = "broken" -> End(2) /\ UNCHANGED attempt1
              [] NextAfterGate(code, step.attempt) = "fail" -> End(1) /\ UNCHANGED attempt1
              [] OTHER -> Goto("bench", 2) /\ attempt1' \in {attempt1, summary}
    /\ UNCHANGED <<kind, baseline, summary, wrote>>

BenchInit ==
    /\ kind \in {"shim", "daemon"}
    /\ baseline \in Baselines
    /\ summary \in {NoSummary} \cup
         {[state |-> "ok", by |-> 0, p99 |-> p] : p \in [Shapes -> Nanos]}
    /\ attempt1 \in {NoSummary, [NoSummary EXCEPT !.state = "ok"]}
    /\ step = [pc |-> "start", attempt |-> 1]
    /\ gates = [a \in {1, 2} |-> -1]
    /\ wrote = {}
    /\ exit = -1

BenchNext == BenchStart \/ BenchBreaks \/ BenchMeasures \/ BenchWritesNothing \/ GateRuns

BenchSpec == BenchInit /\ [][BenchNext]_benchVars

-----------------------------------------------------------------------------
(* A red job: exit 1, unless it is the bench's own, means two attempts      *)
(* whose gate exited with 1, and a gate that broke or passed is never       *)
(* measured again (run-bench-gate.py, exit codes).  For the shim's gate 1   *)
(* is also how it ends on a summary without mean_nanos.                     *)
OnlyExit1IsRetried ==
    /\ step.attempt = 2 => gates[1] = 1
    /\ exit = 1 /\ step.pc = "done" => gates[1] = 1 /\ gates[2] = 1

(* A green job: no shape of the summary it leaves that this bench measures  *)
(* is over the budget or over a committed baseline times its ratio.         *)
GreenIsWithinPolicy ==
    exit = 0 =>
        /\ summary.state # "missing" /\ baseline.state = "ok"
        /\ \A s \in IF kind = "shim" THEN {ShimShape} ELSE Shapes :
             /\ summary.p99[s] <= IF baseline.budget = 0 THEN DefaultBudget ELSE baseline.budget
             /\ baseline.ratio # Null /\ baseline.p99[s] > 0 =>
                  summary.p99[s] * 100 <= baseline.p99[s] * baseline.ratio

(* Green is about numbers this job measured: on the second attempt they are *)
(* the second bench's, so a summary the gate turned down never passes by    *)
(* being looked at again; on the first they are the first bench's, unless   *)
(* it exited 0 without writing and an earlier job left a summary.  (The     *)
(* docstring, lines 25-26, has that end with exit 2.)                       *)
GreenIsMeasured ==
    exit = 0 => \/ summary.by = step.attempt
                \/ step.attempt = 1 /\ 1 \notin wrote /\ summary.by = 0

(* The attempt-1 file of a finished job holds numbers the gate turned down  *)
(* in this job, and an earlier job's only if the first bench exited 0       *)
(* without writing over them.  (The docstring, lines 39-40, says never.)    *)
NoiseIsCountable ==
    exit # -1 /\ attempt1.state # "missing" =>
        /\ step.attempt = 2 /\ gates[1] = 1
        /\ GateExit(kind, attempt1, baseline) = 1
        /\ attempt1.by = 1 \/ (attempt1.by = 0 /\ 1 \notin wrote)

(* What the wrapper says of a bench: green is within policy and measured by *)
(* the attempt that passed, only exit 1 is measured again, and the numbers  *)
(* that failed are kept beside the others.                                  *)
GateIsHonest == OnlyExit1IsRetried /\ GreenIsWithinPolicy /\ GreenIsMeasured /\ NoiseIsCountable
=============================================================================
