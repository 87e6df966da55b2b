------------------------------ MODULE StoryRun ------------------------------
(* A run of the story automator as its helper commands see it: the state    *)
(* document a run keeps, the policy snapshot it is pinned to, the marker     *)
(* that says a run is active, the heartbeats that refresh the marker, the    *)
(* stop hook that reads it, and the commands that decide how a run goes on   *)
(* (`escalate`, `verify-step` and their relatives).  Every command is a      *)
(* process of its own; it reads several files one after the other while the  *)
(* user, the agents and the other commands change them, and it may be killed *)
(* between two of its writes.                                               *)
EXTENDS Integers, FiniteSets

CONSTANTS
    Runs,        \* state documents; a run is known by its document
    Stories,     \* the stories of the epic
    Triggers,    \* escalations with a budget: "review-loop", "session-crash"
    Limits,      \* budgets an override or the environment may set
    Bundled,     \* [trigger -> budget] of orchestration-policy.json
    Versions,    \* contents of the files a policy points to
    Sources,     \* [Versions -> what the review contract looks at]
    MaxEdits     \* bound: changes made from outside

Unset == -1
NotAnInteger == -2

ASSUME StoryAssumption ==
    /\ Limits \subseteq Nat
    /\ Bundled \in [Triggers -> Nat]
    /\ Sources \in [Versions -> SUBSET {"sprint", "file"}]
    /\ MaxEdits \in Nat
    /\ Runs \cap {"none", "unknown"} = {} /\ "none" \notin Versions

VARIABLES
    override,   \* the budgets in story-automator.policy.json
    env,        \* MAX_REVIEW_CYCLES, MAX_CRASH_RETRIES
    data,       \* the files a policy points to: prompts (and schemas), contract
    snaps,      \* the snapshot file of each run's policy
    docs,       \* the state documents
    marker,     \* the active-run marker
    call,       \* the helper command being executed
    beat,       \* the heartbeat being executed
    counts,     \* review cycles and crash retries a run has been granted
    sprint,     \* sprint-status.yaml: status of each story
    storyFile,  \* the Status field of each story's file
    copies,     \* number of files of the story
    edits,      \* changes made from outside
    pin, active, stale, during   \* history: see StoryProperties

outside == <<override, env, data, sprint, storyFile, copies>>
history == <<pin, active, stale, during>>
vars == <<outside, snaps, docs, marker, call, beat, counts, edits, history>>

-----------------------------------------------------------------------------
(* Policies                                                                 *)

\* What a policy decides here, and the hashes of the files it points to
\* ("none": not recorded yet).
Hashes == Versions \cup {"none"}
Policies == [limit : [Triggers -> Nat \cup {Unset}], prompts : Hashes, contract : Hashes]
NoPolicy == [limit |-> [t \in Triggers |-> Unset], prompts |-> "none",
             contract |-> "none"]

\* load_bundled_policy, before its paths are resolved.
BundledPolicy == [NoPolicy EXCEPT !.limit = Bundled]

\* _deep_merge, where an override names a key.
DeepMerge(base, over) ==
    [t \in Triggers |-> IF over[t] = Unset THEN base[t] ELSE over[t]]

\* _apply_legacy_env, the last word.
ApplyLegacyEnv(limit) ==
    [t \in Triggers |-> IF env[t] = Unset THEN limit[t] ELSE env[t]]

\* load_effective_policy raises for an invalid override or environment.
EffectiveFails == \E t \in Triggers : NotAnInteger \in {override[t], env[t]}

EffectivePolicy ==
    [NoPolicy EXCEPT !.limit = ApplyLegacyEnv(DeepMerge(Bundled, override))]

\* Fault: the hash that is recorded is not compared.
HashHolds_Unchecked(expected, actual) == TRUE

\* _set_or_verify_hash: a recorded hash must match.
HashHolds(expected, actual) == expected \in {"none", actual}

\* _resolve_step_assets and _resolve_data_path: a required asset, a prompt or a
\* schema is not where it may be.
AssetMissing == data.prompts = "none"

\* _resolve_policy_paths, and _resolve_success_paths when only the contract is
\* needed: each hash is verified, or recorded.
ResolveFails(pol, all) ==
    \/ all /\ (AssetMissing \/ ~HashHolds(pol.prompts, data.prompts))
    \/ ~HashHolds(pol.contract, data.contract)

Resolved(pol, all) ==
    [pol EXCEPT !.prompts = IF all THEN data.prompts ELSE @,
                !.contract = data.contract]

-----------------------------------------------------------------------------
(* State documents.  A file opened for writing is empty until it is written: *)
(* all of its fields are missing then.                                       *)

Statuses == {"", "READY", "IN_PROGRESS", "COMPLETE"}
Docs == [there : BOOLEAN, file : BOOLEAN, hash : Policies, version : BOOLEAN,
         legacy : {"", "true", "false"}, status : Statuses]

NoDoc == [there |-> FALSE, file |-> FALSE, hash |-> NoPolicy, version |-> FALSE,
          legacy |-> "", status |-> ""]
EmptyDoc == [NoDoc EXCEPT !.there = TRUE]

\* A document of a version of the tool that had no policies.
LegacyDoc == [EmptyDoc EXCEPT !.status = "IN_PROGRESS"]

\* _state_policy_mode.
StatePolicyMode(d) ==
    IF d.file \/ d.hash # NoPolicy THEN
        IF d.file /\ d.hash # NoPolicy /\ d.legacy # "true" THEN "snapshot"
                                                            ELSE "error"
    ELSE IF d.legacy = "false" \/ d.version THEN "error" ELSE "legacy"

NoMarker == [there |-> FALSE, run |-> "none", remaining |-> 0]

\* History: who is active, and what was done since the command began.
DuringNothing == [contract |-> FALSE, owner |-> "unknown", sprint |-> {},
                  file |-> {}]
DuringFrom(owner) ==
    [contract |-> FALSE, owner |-> owner,
     sprint |-> {s \in Stories : sprint[s] = "done"},
     file |-> {s \in Stories : storyFile[s] = "done"}]

Idle == [cmd |-> "none", pc |-> "idle", run |-> "none", named |-> FALSE,
         target |-> "none", pol |-> NoPolicy, text |-> NoDoc,
         seen |-> "none", out |-> "none"]

CallFree == call.pc = "idle"

Goes(pc) == call' = [call EXCEPT !.pc = pc]

\* What the caller is told: "go" (no escalation, step verified), "verified" (the
\* review is), "stop" (escalate, not verified; also for every error: the commands fail safe) or nothing.
Returns(out) == call' = [Idle EXCEPT !.out = out]

-----------------------------------------------------------------------------
(* build-state-doc and state-update                                         *)

NewDoc(pol) ==
    [EmptyDoc EXCEPT !.file = TRUE, !.hash = pol, !.version = TRUE,
                     !.legacy = "false", !.status = "READY"]

\* Fault: the document is written before the snapshot it names.
BuildSnapshot_AfterDoc(r) ==
    /\ CallFree /\ ~docs[r].there
    /\ ~EffectiveFails /\ ~AssetMissing
    /\ LET pol == Resolved(EffectivePolicy, TRUE) IN
         /\ docs' = [docs EXCEPT ![r] = NewDoc(pol)]
         /\ pin' = [pin EXCEPT ![r] = pol]
         /\ call' = [Idle EXCEPT !.cmd = "build", !.pc = "open", !.run = r,
                        !.text = NewDoc(pol)]
    /\ UNCHANGED <<outside, snaps, marker, beat, counts, edits, active,
                   stale, during>>

\* snapshot_effective_policy: computed, then written in one go; then the text
\* of the document is made.
BuildSnapshot(r) ==
    /\ CallFree /\ ~docs[r].there
    /\ ~EffectiveFails /\ ~AssetMissing
    /\ LET pol == Resolved(EffectivePolicy, TRUE) IN
         /\ snaps' = [snaps EXCEPT ![r] = pol]
         /\ pin' = [pin EXCEPT ![r] = pol]
         /\ call' = [Idle EXCEPT !.cmd = "build", !.pc = "open", !.run = r,
                        !.text = NewDoc(pol)]
    /\ UNCHANGED <<outside, docs, marker, beat, counts, edits, active,
                   stale, during>>

\* The document is read and its new text made; a key that is not in it is not
\* set, and nothing is written when none was.
UpdateRead(r) ==
    /\ CallFree /\ docs[r].status \notin {"", "COMPLETE"}
    /\ \E s \in {"IN_PROGRESS", "COMPLETE"} \ {docs[r].status} :
         call' = [Idle EXCEPT !.cmd = "update", !.pc = "open", !.run = r,
                     !.text = [docs[r] EXCEPT !.status = s]]
    /\ UNCHANGED <<outside, snaps, docs, marker, beat, counts, edits,
                   history>>

\* `write_text` opens the document, which empties it, and then writes it.
OpenForWriting ==
    /\ call.pc = "open" /\ Goes("write")
    /\ docs' = [docs EXCEPT ![call.run] = EmptyDoc]
    /\ UNCHANGED <<outside, snaps, marker, beat, counts, edits, history>>

WriteText ==
    /\ call.pc = "write" /\ Returns("none")
    /\ docs' = [docs EXCEPT ![call.run] = call.text]
    /\ UNCHANGED <<outside, snaps, marker, beat, counts, edits, history>>

\* A command is killed, or its terminal goes.
Killed ==
    /\ ~CallFree /\ call' = Idle /\ during' = DuringNothing
    /\ UNCHANGED <<outside, snaps, docs, marker, beat, counts, edits, pin, active,
                   stale>>

-----------------------------------------------------------------------------
(* The marker                                                               *)

\* A heartbeat that has read the marker will write what it read.
SetMarker(m) ==
    /\ marker' = m
    /\ stale' = (beat # NoMarker)
    /\ active' = IF stale' THEN NoMarker ELSE m
    /\ UNCHANGED <<outside, snaps, docs, call, beat, counts, edits, pin,
                   during>>

\* state-latest-incomplete: the newest of the documents that are not complete;
\* an empty document has no date and comes last, the others in any order.
Incomplete == {r \in Runs : docs[r].there /\ docs[r].status # "COMPLETE"}
LatestIncomplete ==
    {r \in Incomplete : \A q \in Incomplete :
        docs[q].status # "" => docs[r].status # ""}

\* `marker create`, for the run just built or the one a later session resumes;
\* the state file may be left out.
MarkerCreate ==
    /\ CallFree
    /\ \E r \in LatestIncomplete \cup {"none"}, n \in 0..1 :
         SetMarker([there |-> TRUE, run |-> r, remaining |-> n])

MarkerRemove ==
    /\ CallFree /\ marker.there
    /\ SetMarker(NoMarker)

\* `marker heartbeat` reads the marker and later writes it back with a new time.
HeartbeatRead ==
    /\ beat = NoMarker /\ marker.there
    /\ beat' = marker
    /\ UNCHANGED <<outside, snaps, docs, marker, call, counts, edits,
                   history>>

\* Fault: the marker is made anew, without the stories that remain.
HeartbeatWrite_FreshPayload ==
    /\ beat # NoMarker
    /\ marker' = [beat EXCEPT !.remaining = 0] /\ beat' = NoMarker
    /\ UNCHANGED <<outside, snaps, docs, call, counts, edits, history>>

HeartbeatWrite ==
    /\ beat # NoMarker
    /\ marker' = beat /\ beat' = NoMarker
    /\ UNCHANGED <<outside, snaps, docs, call, counts, edits, history>>

\* cmd_stop_hook (`child`: of a session that the automator started).
StopHookBlocks(child) == ~child /\ marker.there /\ marker.remaining > 0

-----------------------------------------------------------------------------
(* Commands that decide: the policy is loaded step by step.                 *)

\* `named`: --state-file (or STORY_AUTOMATOR_STATE_FILE) names the document.
Begin(cmd) ==
    /\ CallFree
    /\ \E r \in Runs \cup {"none"} :
         call' = [Idle EXCEPT !.cmd = cmd, !.pc = "resolve", !.run = r,
                              !.named = (r # "none")]
    /\ during' = DuringFrom(IF stale \/ ~active.there THEN "unknown" ELSE active.run)
    /\ UNCHANGED <<outside, snaps, docs, marker, beat, counts, edits, pin,
                   active, stale>>

Escalate == Begin("escalate")
VerifyStep == Begin("verify")

DecisionFrame ==
    /\ during' = IF call'.pc = "idle" THEN DuringNothing ELSE during
    /\ UNCHANGED <<outside, snaps, docs, marker, beat, edits, pin, active, stale>>

\* resolve_policy_state_file and load_runtime_policy: the named document, or the
\* marker's, or none at all.
ResolvePolicyStateFile ==
    /\ call.pc = "resolve"
    /\ LET r == IF call.named THEN call.run ELSE marker.run IN
         CASE ~call.named /\ ~marker.there -> Goes("live")
           [] ~call.named /\ marker.there /\ marker.run = "none" -> Returns("stop")
           [] ~call.named /\ marker.there /\ marker.run # "none" /\ ~docs[r].there ->
                Returns("stop")
           [] OTHER -> call' = [call EXCEPT !.pc = "doc", !.target = r]
    /\ UNCHANGED counts /\ DecisionFrame

\* load_policy_for_state.
ReadDoc ==
    /\ call.pc = "doc"
    /\ LET d == docs[call.target] IN
         CASE ~d.there \/ StatePolicyMode(d) = "error" -> Returns("stop")
           [] d.there /\ StatePolicyMode(d) = "legacy" ->
                call' = [call EXCEPT !.pc = "data", !.pol = BundledPolicy]
           [] d.there /\ StatePolicyMode(d) = "snapshot" ->
                call' = [call EXCEPT !.pc = "snapshot", !.text = d]
    /\ UNCHANGED counts /\ DecisionFrame

\* load_policy_snapshot: missing, or not what was hashed, is an error.
LoadPolicySnapshot ==
    /\ call.pc = "snapshot"
    /\ LET s == snaps[call.target] IN
         IF s = NoPolicy \/ s # call.text.hash THEN Returns("stop")
         ELSE call' = [call EXCEPT !.pc = "data", !.pol = s, !.text = NoDoc]
    /\ UNCHANGED counts /\ DecisionFrame

LoadEffectivePolicy ==
    /\ call.pc = "live"
    /\ IF EffectiveFails THEN Returns("stop")
       ELSE call' = [call EXCEPT !.pc = "data", !.pol = EffectivePolicy]
    /\ UNCHANGED counts /\ DecisionFrame

\* The files the policy points to; `escalate` looks at all of them.
ResolvePaths ==
    /\ call.pc = "data"
    /\ LET all == call.cmd = "escalate" IN
         IF ResolveFails(call.pol, all) THEN Returns("stop")
         ELSE call' = [call EXCEPT !.pc = "decide", !.pol = Resolved(@, all)]
    /\ UNCHANGED counts /\ DecisionFrame

Exhausted(pol, trigger, n) == n >= pol.limit[trigger]

\* _escalate: "stop" is an escalation, "go" lets the run go on.  A caller that
\* names its document counts what it has been granted.
DecideEscalation ==
    /\ call.pc = "decide" /\ call.cmd = "escalate"
    /\ \/ Returns(IF copies = 1 THEN "go" ELSE "stop") /\ UNCHANGED counts
       \/ \E t \in Triggers, n \in 0..1 :
            CASE ~call.named ->
                   /\ Returns(IF Exhausted(call.pol, t, n) THEN "stop" ELSE "go")
                   /\ UNCHANGED counts
              [] call.named /\ Exhausted(call.pol, t, counts[call.run][t]) ->
                   Returns("stop") /\ UNCHANGED counts
              [] OTHER ->
                   Returns("go") /\ counts' = [counts EXCEPT ![call.run][t] = @ + 1]
    /\ DecisionFrame

-----------------------------------------------------------------------------
(* Verifiers                                                                *)

\* sprint_status_epic: every story of the epic that is listed is done.
EpicComplete ==
    LET listed == {s \in Stories : sprint[s] # "none"} IN
    listed # {} /\ \A s \in listed : sprint[s] = "done"

CreateStoryArtifact == copies = 1

\* run_success_verifier with the verifiers of create, dev and auto, and retro.
RunSuccessVerifier ==
    /\ call.pc = "decide" /\ call.cmd = "verify"
    /\ \E verified \in {CreateStoryArtifact, TRUE, EpicComplete} :
         Returns(IF verified THEN "go" ELSE "stop")
    /\ UNCHANGED counts /\ DecisionFrame

\* review_completion reads the contract again, then the sprint status ...
ReviewCompletion(s) ==
    /\ call.pc = "decide" /\ call.cmd = "verify"
    /\ LET sources == Sources[data.contract] IN
         CASE sources = {} -> Returns("stop")
           [] "sprint" \in sources /\ sprint[s] = "done" -> Returns("verified")
           [] OTHER -> IF "file" \in sources
                       THEN call' = [call EXCEPT !.pc = "file", !.seen = s]
                       ELSE Returns("stop")
    /\ UNCHANGED counts /\ DecisionFrame

\* ... and the story's own file.
ReviewStoryFile ==
    /\ call.pc = "file"
    /\ Returns(IF storyFile[call.seen] = "done" THEN "verified" ELSE "stop")
    /\ UNCHANGED counts /\ DecisionFrame

-----------------------------------------------------------------------------
(* Everything that changes from outside while the commands run.             *)

Edit ==
    /\ edits < MaxEdits /\ edits' = edits + 1
    /\ UNCHANGED <<marker, call, beat, counts, pin, active, stale>>

EditOverride ==
    /\ Edit
    /\ \E t \in Triggers, n \in Limits \cup {Unset, NotAnInteger} :
         \/ override' = [override EXCEPT ![t] = n] /\ UNCHANGED env
         \/ env' = [env EXCEPT ![t] = n] /\ UNCHANGED override
    /\ UNCHANGED <<data, sprint, storyFile, copies, snaps, docs, during>>

EditData ==
    /\ Edit
    /\ \E k \in {"prompts", "contract"}, v \in Hashes :
         /\ v # data[k] /\ (k = "contract" => v # "none")
         /\ data' = [data EXCEPT ![k] = v]
         /\ during' = [during EXCEPT !.contract = @ \/ (k = "contract" /\ ~CallFree)]
    /\ UNCHANGED <<override, env, sprint, storyFile, copies, snaps, docs>>

\* A snapshot is changed or deleted, or a field of a document edited away.
EditRun(r) ==
    /\ Edit
    /\ \/ /\ snaps[r] # NoPolicy /\ UNCHANGED docs
          /\ \E p \in {NoPolicy, [snaps[r] EXCEPT !.limit = [t \in Triggers |-> 9]]} :
               snaps' = [snaps EXCEPT ![r] = p]
       \/ /\ docs[r].file /\ UNCHANGED snaps
          /\ docs' \in {[docs EXCEPT ![r].hash = NoPolicy],
                        [docs EXCEPT ![r].file = FALSE, ![r].hash = NoPolicy],
                        [docs EXCEPT ![r].legacy = "true"]}
    /\ UNCHANGED <<outside, during>>

\* The agents' sessions: sprint status and story files.
AgentsWrite ==
    /\ Edit
    /\ \/ \E s \in Stories, v \in {"open", "done"} :
            /\ sprint' = [sprint EXCEPT ![s] = v]
            /\ during' = [during EXCEPT !.sprint = @ \cup {x \in {s} : v = "done" /\ ~CallFree}]
            /\ UNCHANGED <<storyFile, copies>>
       \/ \E s \in Stories, v \in {"open", "done"} :
            /\ storyFile' = [storyFile EXCEPT ![s] = v]
            /\ during' = [during EXCEPT !.file = @ \cup {x \in {s} : v = "done" /\ ~CallFree}]
            /\ UNCHANGED <<sprint, copies>>
       \/ copies' = (copies + 1) % 3 /\ UNCHANGED <<sprint, storyFile, during>>
    /\ UNCHANGED <<override, env, data, snaps, docs>>

-----------------------------------------------------------------------------
Init ==
    /\ override = [t \in Triggers |-> Unset]
    /\ env = [t \in Triggers |-> Unset]
    /\ data \in {[prompts |-> v, contract |-> v] : v \in Versions}
    /\ snaps = [r \in Runs |-> NoPolicy]
    /\ docs \in [Runs -> {NoDoc, LegacyDoc}]
    /\ marker = NoMarker /\ beat = NoMarker /\ active = NoMarker
    /\ call = Idle
    /\ counts = [r \in Runs |-> [t \in Triggers |-> 0]]
    /\ sprint = [s \in Stories |-> "none"]
    /\ storyFile = [s \in Stories |-> "none"]
    /\ copies = 0 /\ edits = 0
    /\ pin = [r \in Runs |-> NoPolicy]
    /\ stale = FALSE /\ during = DuringNothing

Documents == (\E r \in Runs : BuildSnapshot(r) \/ UpdateRead(r))
             \/ OpenForWriting \/ WriteText \/ Killed
Marking == MarkerCreate \/ MarkerRemove \/ HeartbeatRead
           \/ HeartbeatWrite
Deciding == Escalate \/ VerifyStep \/ ResolvePolicyStateFile \/ ReadDoc
            \/ LoadPolicySnapshot \/ LoadEffectivePolicy \/ ResolvePaths
            \/ DecideEscalation \/ RunSuccessVerifier
            \/ (\E s \in Stories : ReviewCompletion(s))
            \/ ReviewStoryFile
Editing == EditOverride \/ EditData \/ AgentsWrite \/ (\E r \in Runs : EditRun(r))

Next == Documents \/ Marking \/ Deciding \/ Editing

Spec == Init /\ [][Next]_vars
=============================================================================
