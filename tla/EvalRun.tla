------------------------------ MODULE EvalRun ------------------------------
(* run_evals.py of the eval runner: a pool of threads runs the evals of a   *)
(* skill, each in a workspace of its own, made from its id.  Locally the    *)
(* thread compares the workspace before and after; in docker the container  *)
(* copies its workspace out itself.  claude may fail or hang; the timeout   *)
(* kills only the process that was started, not what it left behind.        *)
EXTENDS Integers, FiniteSets

CONSTANTS
    Evals,      \* the items of evals.json
    IdOf,       \* [Evals -> ids]; ids may repeat
    Workers,    \* --workers
    NewFiles    \* files a claude session may create

ASSUME EvalAssumption == Workers \in Nat \ {0} /\ DOMAIN IdOf = Evals

Ids == {IdOf[e] : e \in Evals}
Alone(e) == \A x \in Evals : IdOf[x] = IdOf[e] => x = e

VARIABLES
    isolation,  \* "local" or "docker"
    task,       \* [Evals -> [pc, before, rc]]
    space,      \* the files in each workspace, each with the eval that made it
    artifacts,  \* [Ids -> the files in artifacts/]
    metrics,    \* [Ids -> the files metrics.json counts, and its return code]
    loose,      \* evals whose processes outlived the timeout
    results,    \* the results main has collected: [Evals -> return code], 9: none
    evalSummary \* execution-summary.json: [done, executed, failures]

evalVars == <<isolation, task, space, artifacts, metrics, loose, results, evalSummary>>

NoResult == 9
\* Locally the workspace is under the id, a container has its own.
Places == ({"local"} \X Ids) \cup ({"docker"} \X Evals)
Place(e) == <<isolation, IF isolation = "local" THEN IdOf[e] ELSE e>>

Advance(e, pc) == task' = [task EXCEPT ![e] = [@ EXCEPT !.pc = pc]]
Running == {e \in Evals : task[e].pc \notin {"queued", "returned", "raised", "collected"}}
Names(S) == {x[1] : x \in S}

-----------------------------------------------------------------------------
\* stage_workspace_local copies the project, the overlay, the skill and the
\* fixtures; rsync or a copy may raise.
EvalStage(e) == \E pc \in {"snapshot", "raised"} : Advance(e, pc)

\* A thread of the pool takes an item, makes its directories and stages it.
EvalStart(e) ==
    /\ task[e].pc = "queued" /\ Cardinality(Running) < Workers
    /\ EvalStage(e)
    /\ UNCHANGED <<isolation, space, artifacts, metrics, loose, results, evalSummary>>

\* Fault: the files are listed when the session is over.
EvalSnapshot_Late(e) ==
    /\ task[e].pc = "snapshot"
    /\ task' = [task EXCEPT ![e] = [@ EXCEPT !.pc = "running", !.before = NewFiles]]
    /\ UNCHANGED <<isolation, space, artifacts, metrics, loose, results, evalSummary>>

\* snapshot_files.
EvalSnapshot(e) ==
    /\ task[e].pc = "snapshot"
    /\ task' = [task EXCEPT ![e] =
                  [@ EXCEPT !.pc = "running", !.before = Names(space[Place(e)])]]
    /\ UNCHANGED <<isolation, space, artifacts, metrics, loose, results, evalSummary>>

\* The session creates a file: while it runs, or after the timeout.
SessionWrites(e) ==
    /\ task[e].pc = "running" \/ e \in loose
    /\ \E f \in NewFiles \ Names(space[Place(e)]) :
         space' = [space EXCEPT ![Place(e)] = @ \cup {<<f, e>>}]
    /\ UNCHANGED <<isolation, task, artifacts, metrics, loose, results, evalSummary>>

\* Copying files into a directory replaces those of the same name.
Into(dir, new) == {x \in dir : x[1] \notin Names(new)} \cup new

\* The container copies its workspace out before it ends.
CopiedOut(e) == IF isolation = "docker"
                THEN [artifacts EXCEPT ![IdOf[e]] = Into(@, space[Place(e)])]
                ELSE artifacts

\* The session ends with a return code.  The container's script ends with 0
\* whatever claude returned (|| true), or it failed and copied nothing.
SessionEnds(e) ==
    /\ task[e].pc = "running"
    /\ \E rc \in {0, 1} :
         /\ task' = [task EXCEPT ![e] = [@ EXCEPT !.pc = "sync", !.rc = rc]]
         /\ artifacts' = IF rc = 0 THEN CopiedOut(e) ELSE artifacts
    /\ UNCHANGED <<isolation, space, metrics, loose, results, evalSummary>>

\* subprocess.run's timeout kills the child; its children go on.
SessionTimeout(e) ==
    /\ task[e].pc = "running"
    /\ task' = [task EXCEPT ![e] = [@ EXCEPT !.pc = "sync", !.rc = -1]]
    /\ \E l \in {loose, loose \cup {e}} : loose' = l
    /\ UNCHANGED <<isolation, space, artifacts, metrics, results, evalSummary>>

\* A container that the timeout left running ends later.
LooseEnds(e) ==
    /\ e \in loose /\ loose' = loose \ {e}
    /\ artifacts' = CopiedOut(e)
    /\ UNCHANGED <<isolation, task, space, metrics, results, evalSummary>>

\* diff_workspace and sync_artifacts: files whose name was not there before.
DiffWorkspace(e) == {x \in space[Place(e)] : x[1] \notin task[e].before}

EvalSync(e) ==
    /\ task[e].pc = "sync"
    /\ task' = [task EXCEPT ![e] = [@ EXCEPT !.pc = "measure", !.before = {}]]
    /\ artifacts' = IF isolation = "docker" THEN artifacts
                    ELSE [artifacts EXCEPT ![IdOf[e]] = Into(@, DiffWorkspace(e))]
    /\ UNCHANGED <<isolation, space, metrics, loose, results, evalSummary>>

\* compute_metrics; metrics.json is written and the thread returns.
EvalMeasure(e) ==
    /\ task[e].pc = "measure" /\ Advance(e, "returned")
    /\ metrics' = [metrics EXCEPT ![IdOf[e]] = [files |-> artifacts[IdOf[e]], rc |-> task[e].rc]]
    /\ UNCHANGED <<isolation, space, artifacts, loose, results, evalSummary>>

\* main, as_completed: an exception counts as return code -1.
EvalCollect(e) ==
    /\ task[e].pc \in {"returned", "raised"} /\ Advance(e, "collected")
    /\ results' = [results EXCEPT ![e] = IF task[e].pc = "raised" THEN -1 ELSE task[e].rc]
    /\ UNCHANGED <<isolation, space, artifacts, metrics, loose, evalSummary>>

EvalSummary ==
    /\ ~evalSummary.done /\ \A e \in Evals : task[e].pc = "collected"
    /\ evalSummary' = [done |-> TRUE,
                   executed |-> Cardinality({e \in Evals : results[e] # NoResult}),
                   failures |-> Cardinality({e \in Evals : results[e] \notin {0, NoResult}})]
    /\ UNCHANGED <<isolation, task, space, artifacts, metrics, loose, results>>

EvalInit ==
    /\ task = [e \in Evals |-> [pc |-> "queued", before |-> {}, rc |-> 0]]
    /\ isolation \in {"local", "docker"}
    /\ space = [p \in Places |-> {}]
    /\ artifacts = [i \in Ids |-> {}]
    /\ metrics = [i \in Ids |-> [files |-> {}, rc |-> NoResult]]
    /\ loose = {}
    /\ results = [e \in Evals |-> NoResult]
    /\ evalSummary = [done |-> FALSE, executed |-> 0, failures |-> 0]

Thread(e) == \/ EvalStart(e) \/ EvalSnapshot(e) \/ SessionTimeout(e)
             \/ EvalSync(e) \/ EvalMeasure(e) \/ EvalCollect(e)

EvalNext == \/ \E e \in Evals : Thread(e) \/ SessionWrites(e) \/ SessionEnds(e) \/ LooseEnds(e)
            \/ EvalSummary

\* Threads run and timeouts expire; a session need never end by itself.
EvalFairness == WF_evalVars(EvalSummary) /\ \A e \in Evals : WF_evalVars(Thread(e))

EvalSpec == EvalInit /\ [][EvalNext]_evalVars /\ EvalFairness

-----------------------------------------------------------------------------
(* The artifacts an eval is graded on are files its own session made, if no *)
(* other item has its id.                                                   *)
OwnArtifacts ==
    \A e \in Evals : Alone(e) => \A x \in artifacts[IdOf[e]] : x[2] = e

(* An eval that ended well, or locally with any return code, left all the   *)
(* files it had made as artifacts, and its metrics count them all.          *)
NothingMissed ==
    evalSummary.done => \A e \in Evals :
        Alone(e) /\ (results[e] = 0 \/ (results[e] = 1 /\ isolation = "local")) =>
            /\ artifacts[IdOf[e]] = space[Place(e)]
            /\ metrics[IdOf[e]] = [files |-> space[Place(e)], rc |-> results[e]]

(* The summary accounts for every item, also one whose thread raised, and   *)
(* counts as execution failures exactly the items without return code 0.    *)
SummaryAccounts ==
    evalSummary.done =>
        /\ evalSummary.executed = Cardinality(Evals)
        /\ evalSummary.failures =
             Cardinality({e \in Evals : ~(task[e].pc = "collected" /\ results[e] = 0)})

(* run_evals.py ends, with fewer threads than evals and sessions that hang: *)
(* once an eval has begun the summary of the run is written.                *)
EvalsReturn == (\E e \in Evals : task[e].pc # "queued") ~> evalSummary.done

(* run_evals.py grades every eval on its own files, all of them, and counts *)
(* every item of the eval file, with threads that share a workspace root,   *)
(* sessions that outlive their timeout and threads that raise.              *)
EvalsAccounted == OwnArtifacts /\ NothingMissed /\ SummaryAccounts
=============================================================================
