-------------------------- MODULE StoryProperties --------------------------
(* What the commands of a run owe it.                                       *)
EXTENDS StoryRun

\* An empty document is what a write that was cut short leaves.
Torn(r) == docs[r] = EmptyDoc

\* The types of the run's files and of the command being executed.
TypeOK ==
    /\ snaps \in [Runs -> Policies] /\ pin \in [Runs -> Policies]
    /\ docs \in [Runs -> Docs]
    /\ call.pol \in Policies /\ call.text \in Docs
    /\ counts \in [Runs -> [Triggers -> Nat]]
    /\ copies \in 0..2 /\ edits \in 0..MaxEdits

\* A document on disk that names a snapshot names one that is on disk with the
\* content it was made with, whatever build or update was killed half way (or
\* somebody has edited the run's files since): the snapshot is written first.
SnapshotBeforeDocument ==
    edits = 0 => \A r \in Runs : docs[r].file => snaps[r] = docs[r].hash

\* The cycles and retries granted to a run that names its document stay within
\* the budget of the policy it was started with, although override,
\* environment, snapshot and document change under it; only a document emptied
\* by a killed write is exempt.
BudgetIsPinned ==
    \A r \in Runs, t \in Triggers :
        pin[r] # NoPolicy /\ ~Torn(r) => counts[r][t] <= pin[r].limit[t]

\* A command that finds the run through the marker follows the run whose marker
\* was created last: its pinned policy or, for a document without one, the
\* bundled one, or it fails safe.  A heartbeat that read the marker before it
\* was replaced is the exemption.
MarkerNamesPolicy ==
    LET r == during.owner IN
    call.pc = "decide" /\ ~call.named /\ r # "unknown" =>
        /\ r # "none"
        /\ call.pol.limit \in {pin[r].limit, Bundled}
        /\ call.pol.limit # pin[r].limit => pin[r] = NoPolicy \/ Torn(r)

\* A review is verified only by a source that the pinned contract names and that
\* said "done" at some moment of the command, unless the contract's file was
\* changed after it was compared with its hash.
VerifiedByPinnedContract ==
    [][(/\ call'.out = "verified" /\ ~CallFree
        /\ call.named /\ pin[call.run] # NoPolicy /\ ~Torn(call.run)
        /\ ~during.contract) =>
           \/ "sprint" \in Sources[pin[call.run].contract] /\ during.sprint # {}
           \/ "file" \in Sources[pin[call.run].contract] /\ during.file # {}]_vars

\* The stop hook holds back the orchestrating session exactly while a run with
\* stories left is marked, and never a session that the automator started;
\* heartbeats in between change nothing, except one that overlaps a create or
\* a remove.
StopFollowsRun ==
    ~stale => \A child \in BOOLEAN :
        StopHookBlocks(child) <=> ~child /\ active.there /\ active.remaining > 0

(* A run keeps the policy it began with: the snapshot is there before the   *)
(* document names it, and the budgets granted are the pinned ones.          *)
PolicyIsPinned == TypeOK /\ SnapshotBeforeDocument /\ BudgetIsPinned

(* The marker leads the stop hook and the commands without a state file to  *)
(* the run it was made for.                                                 *)
MarkerLeadsToRun == MarkerNamesPolicy /\ StopFollowsRun
=============================================================================
