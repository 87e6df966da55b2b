---------------------------- MODULE MCSessions ----------------------------
(* The three programs that drive an agent's session and must not outlive   *)
(* it: a tmux session with its monitors, a run of evals, the pty runner.   *)
(* They share nothing, so one run checks them side by side: `driver` says  *)
(* which of them this behaviour is about, the others rest in an initial    *)
(* state.  Every behaviour of each one alone is a behaviour of the sum.    *)
EXTENDS TmuxProperties, EvalRun, PtyRun

VARIABLE driver

\* Two items of the eval file have the same id.
EvalIds == [e \in Evals |-> IF e = "e3" THEN "x" ELSE "y"]

SessionsInit ==
    /\ driver \in {"tmux", "evals", "pty"}
    /\ Init /\ (driver # "tmux" => mode = "runner" /\ agent = "claude")
    /\ EvalInit /\ (driver # "evals" => isolation = "local")
    /\ PtyInit

SessionsNext ==
    \/ driver = "tmux" /\ Next /\ UNCHANGED <<driver, evalVars, ptyVars>>
    \/ driver = "evals" /\ EvalNext /\ UNCHANGED <<driver, vars, ptyVars>>
    \/ driver = "pty" /\ PtyNext /\ UNCHANGED <<driver, vars, evalVars>>

\* The fairness of each specification, for the one that runs.
SessionsFairness ==
    /\ WF_vars(driver = "tmux" /\ Spawn) /\ WF_vars(driver = "tmux" /\ Run)
    /\ \A o \in Observers : WF_vars(driver = "tmux" /\ Poll(o))
    /\ WF_evalVars(driver = "evals" /\ EvalSummary)
    /\ \A e \in Evals : WF_evalVars(driver = "evals" /\ Thread(e))
    /\ WF_ptyVars(driver = "pty" /\ RunnerStep)

SessionsSpec ==
    SessionsInit /\ [][SessionsNext]_<<driver, vars, evalVars, ptyVars>> /\ SessionsFairness

(* No driver outlives a session that hangs: monitors, the run of evals and  *)
(* the pty runner all return.                                               *)
EverythingReturns == MonitorsReturn /\ EvalsReturn /\ PtyReturns
=============================================================================
