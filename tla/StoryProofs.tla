---------------------------- MODULE StoryProofs ----------------------------
(***************************************************************************)
(* A run of the story automator keeps its policy and its marker leads to   *)
(* it, for any runs, stories, budgets and versions of the policy's files   *)
(* and any number of edits.                                                *)
(***************************************************************************)
EXTENDS StoryProperties, TLAPS

-----------------------------------------------------------------------------
(* The inductive invariant.                                                *)

Settings == [Triggers -> Limits \cup {Unset, NotAnInteger}]
Markers == [there : BOOLEAN, run : Runs \cup {"none"}, remaining : Nat]
StoryStatuses == [Stories -> {"none", "open", "done"}]
Calls == [cmd : {"none", "build", "update", "escalate", "verify"},
          pc : {"idle", "open", "write", "resolve", "live", "doc", "snapshot", "data",
                "decide", "file"},
          run : Runs \cup {"none"}, named : BOOLEAN, target : Runs \cup {"none"},
          pol : Policies, text : Docs, seen : Stories \cup {"none"},
          out : {"none", "go", "stop", "verified"}]
Spans == [contract : BOOLEAN, owner : Runs \cup {"none", "unknown"},
          sprint : SUBSET Stories, file : SUBSET Stories]

\* Types, of the files, of the command and of the history.
OutsideOK ==
    /\ override \in Settings /\ env \in Settings
    /\ data \in [prompts : Hashes, contract : Versions]
    /\ sprint \in StoryStatuses /\ storyFile \in StoryStatuses /\ copies \in 0..2
RunOK ==
    /\ snaps \in [Runs -> Policies] /\ docs \in [Runs -> Docs]
    /\ counts \in [Runs -> [Triggers -> Nat]]
HistoryOK == pin \in [Runs -> Policies] /\ during \in Spans
MarkOK == marker \in Markers /\ beat \in Markers /\ active \in Markers /\ stale \in BOOLEAN

TypeInv ==
    /\ OutsideOK /\ RunOK /\ HistoryOK /\ MarkOK
    /\ call \in Calls /\ edits \in 0..MaxEdits

\* A command that loads a policy and decides.
IsDecision(c) == c.pc \in {"resolve", "live", "doc", "snapshot", "data", "decide", "file"}

\* Where the command is, and what its locals are there.
CallInv ==
    /\ ~CallFree => call.out = "none"
    /\ call.pc \in {"open", "write"} => call.run \in Runs
    /\ IsDecision(call) => call.named = (call.run # "none")
    /\ call.pc \in {"resolve", "live"} => call.target = "none"
    /\ call.pc \in {"doc", "snapshot"} => call.target \in Runs
    /\ call.pc \in {"doc", "snapshot", "data", "decide", "file"} /\ call.named =>
         call.target = call.run
    /\ call.pc = "file" => call.seen \in Stories

\* The pinned policy has a budget for every trigger and names its contract.
PinInv ==
    \A r \in Runs : pin[r] # NoPolicy =>
        pin[r].limit \in [Triggers -> Nat] /\ pin[r].contract \in Versions

\* A whole document is of a run with a pinned policy, which it names unless it
\* was edited, or of one that never had any.
Whole(d, r) ==
    /\ d.there
    /\ \/ d.version /\ pin[r] # NoPolicy /\ d.hash \in {NoPolicy, pin[r]}
       \/ ~d.version /\ ~d.file /\ d.hash = NoPolicy /\ d.status # "" /\ pin[r] = NoPolicy

WithinBudget(r) ==
    pin[r] # NoPolicy => \A t \in Triggers : counts[r][t] <= pin[r].limit[t]

\* The documents: absent, emptied or whole.  The budget holds also while a
\* write under way has emptied the document.
DocInv ==
    \A r \in Runs :
        /\ docs[r] = NoDoc \/ Torn(r) \/ Whole(docs[r], r)
        /\ ~docs[r].there => \A t \in Triggers : counts[r][t] = 0
        /\ ~Torn(r) \/ (call.pc = "write" /\ call.run = r) => WithinBudget(r)

\* The text about to be written.
TextInv ==
    /\ call.pc \in {"open", "write"} => Whole(call.text, call.run)
    /\ call.pc = "open" => ~Torn(call.run)

\* What the command has loaded of the run it is for.
LoadedInv ==
    /\ call.pc = "snapshot" => call.text.hash = pin[call.target] /\ pin[call.target] # NoPolicy
    /\ call.pc \in {"snapshot", "data", "decide", "file"} /\ call.target # "none" =>
         docs[call.target].there
    /\ call.pc \in {"data", "decide", "file"} /\ call.target # "none" =>
         \/ /\ pin[call.target] # NoPolicy
            /\ call.pol.limit = pin[call.target].limit
            /\ call.pol.contract = pin[call.target].contract
         \/ /\ pin[call.target] = NoPolicy \/ Torn(call.target)
            /\ call.pol.limit = Bundled

\* The snapshot is written before the document that names it.
SnapInv ==
    edits = 0 =>
        /\ \A r \in Runs : docs[r].file => snaps[r] = docs[r].hash
        /\ call.pc \in {"open", "write"} /\ call.text.file =>
             snaps[call.run] = call.text.hash

\* Without a heartbeat that overlapped a create or a remove, the marker is the
\* one made last, and it does not change under a command.
MarkInv ==
    /\ ~stale => marker = active /\ beat \in {NoMarker, marker}
    /\ during.owner # "unknown" =>
         IsDecision(call) /\ ~stale /\ marker.there /\ marker.run = during.owner
    /\ call.pc \in {"doc", "snapshot", "data", "decide", "file"} /\ ~call.named
         /\ during.owner # "unknown" => call.target = during.owner /\ call.target # "none"
    /\ call.pc = "live" => ~call.named /\ during.owner = "unknown"

\* What a decision has seen since it began.
SpanInv ==
    /\ IsDecision(call) => \A s \in Stories :
         /\ sprint[s] = "done" => s \in during.sprint
         /\ storyFile[s] = "done" => s \in during.file
    /\ call.pc \in {"decide", "file"} /\ ~during.contract => call.pol.contract = data.contract
    /\ call.pc = "file" /\ ~during.contract => "file" \in Sources[data.contract]

StoryInv ==
    /\ TypeInv /\ CallInv /\ PinInv /\ DocInv /\ TextInv /\ LoadedInv /\ SnapInv
    /\ MarkInv /\ SpanInv

-----------------------------------------------------------------------------
(* Parts of the state that a step leaves alone.                            *)

\* What a step leaves alone keeps its kind.
LEMMA KeepTypes ==
    /\ OutsideOK /\ UNCHANGED outside => OutsideOK'
    /\ RunOK /\ UNCHANGED <<snaps, docs, counts>> => RunOK'
    /\ HistoryOK /\ UNCHANGED <<pin, during>> => HistoryOK'
    /\ MarkOK /\ UNCHANGED <<marker, beat, active, stale>> => MarkOK'
<1>1. OutsideOK /\ UNCHANGED outside => OutsideOK'  BY DEF OutsideOK, outside
<1>2. RunOK /\ UNCHANGED <<snaps, docs, counts>> => RunOK'  BY DEF RunOK
<1>3. HistoryOK /\ UNCHANGED <<pin, during>> => HistoryOK'  BY DEF HistoryOK
<1>4. MarkOK /\ UNCHANGED <<marker, beat, active, stale>> => MarkOK'  BY DEF MarkOK
<1> QED  BY <1>1, <1>2, <1>3, <1>4

(* The documents stay, and no write begins.                                *)
LEMMA KeepDocs ==
    ASSUME DocInv, UNCHANGED <<docs, pin, counts>>,
           call'.pc = "write" => call.pc = "write" /\ call'.run = call.run
    PROVE  DocInv'
  BY DEF DocInv, Torn, Whole, WithinBudget

(* The types of a policy, a document and a command at rest.                *)
LEMMA Constant ==
    /\ NoPolicy \in Policies /\ BundledPolicy \in Policies
    /\ BundledPolicy.limit = Bundled
    /\ NoDoc \in Docs /\ EmptyDoc \in Docs /\ LegacyDoc \in Docs
    /\ ~NoDoc.there /\ ~NoDoc.file
    /\ EmptyDoc.there /\ ~EmptyDoc.file /\ ~EmptyDoc.version
    /\ EmptyDoc.hash = NoPolicy /\ EmptyDoc.status = "" /\ EmptyDoc.legacy = ""
    /\ LegacyDoc.there /\ ~LegacyDoc.file /\ ~LegacyDoc.version
    /\ LegacyDoc.hash = NoPolicy /\ LegacyDoc.status # ""
    /\ Idle \in Calls
    /\ NoMarker \in Markers /\ DuringNothing \in Spans
<1>1. NoPolicy \in Policies
  BY DEF NoPolicy, Policies, Unset, Hashes
<1>2. BundledPolicy \in Policies /\ BundledPolicy.limit = Bundled
  BY StoryAssumption DEF BundledPolicy, NoPolicy, Policies, Unset, Hashes
<1>3. NoDoc \in Docs
  BY <1>1 DEF NoDoc, Docs, Statuses
<1>4. /\ ~NoDoc.there /\ ~NoDoc.file
      /\ EmptyDoc.there /\ ~EmptyDoc.file /\ ~EmptyDoc.version
      /\ EmptyDoc.hash = NoPolicy /\ EmptyDoc.status = "" /\ EmptyDoc.legacy = ""
      /\ LegacyDoc.there /\ ~LegacyDoc.file /\ ~LegacyDoc.version
      /\ LegacyDoc.hash = NoPolicy /\ LegacyDoc.status # ""
  BY DEF LegacyDoc, EmptyDoc, NoDoc
<1>5. EmptyDoc \in Docs
  BY <1>3 DEF EmptyDoc, Docs
<1>6. LegacyDoc \in Docs
  BY <1>5 DEF LegacyDoc, Docs, Statuses
<1>7. Idle \in Calls
  BY <1>1, <1>3 DEF Idle, Calls
<1>8. NoMarker \in Markers
  BY DEF NoMarker, Markers
<1>9. DuringNothing \in Spans
  BY DEF DuringNothing, Spans
<1> QED  BY <1>1, <1>2, <1>3, <1>4, <1>5, <1>6, <1>7, <1>8, <1>9

(* A command returns: nothing is left of it.                               *)
LEMMA ReturnKeeps ==
    ASSUME StoryInv, NEW out \in {"none", "go", "stop", "verified"},
           Returns(out), DecisionFrame, RunOK', DocInv'
    PROVE  StoryInv'
<1>1. /\ UNCHANGED <<outside, snaps, docs, marker, beat, edits, pin, active, stale>>
      /\ call' = [Idle EXCEPT !.out = out]
  BY DEF DecisionFrame, Returns
<1>2. call' \in Calls /\ call'.pc = "idle"
  BY <1>1, Constant DEF Idle, Calls
<1>3. during' = DuringNothing /\ during'.owner = "unknown"
  BY <1>2 DEF DecisionFrame, DuringNothing
<1>4. TypeInv'
  <2>1. HistoryOK'
    BY <1>1, <1>3, Constant DEF StoryInv, TypeInv, HistoryOK
  <2> QED  BY <1>1, <1>2, <2>1, KeepTypes DEF StoryInv, TypeInv
<1>5. CallInv' /\ TextInv' /\ LoadedInv'
  BY <1>2 DEF CallInv, CallFree, IsDecision, TextInv, LoadedInv
<1>6. PinInv'
  BY <1>1 DEF StoryInv, PinInv
<1>7. SnapInv' /\ MarkInv' /\ SpanInv'
  BY <1>1, <1>2, <1>3 DEF StoryInv, SnapInv, MarkInv, SpanInv, IsDecision
<1> QED  BY <1>4, <1>5, <1>6, <1>7 DEF StoryInv

\* A command answers, and changed no file.
LEMMA AnswerKeeps ==
    ASSUME StoryInv, NEW out \in {"none", "go", "stop", "verified"},
           Returns(out), DecisionFrame, UNCHANGED counts
    PROVE  StoryInv'
<1>1. UNCHANGED <<snaps, docs, pin, counts>> /\ call'.pc = "idle"
  BY DEF DecisionFrame, Returns, Idle
<1>2. RunOK' /\ DocInv'
  BY <1>1, KeepTypes, KeepDocs DEF StoryInv, TypeInv
<1> QED  BY <1>2, ReturnKeeps

(* A decision goes one step on.                                            *)
LEMMA AdvanceKeeps ==
    ASSUME StoryInv, IsDecision(call), IsDecision(call)', UNCHANGED counts, DecisionFrame,
           call' \in Calls, UNCHANGED <<call.named, call.run, call.out>>,
           call'.pc \in {"resolve", "live"} => call'.target = "none",
           call'.pc \in {"doc", "snapshot"} => call'.target \in Runs,
           call'.pc \in {"doc", "snapshot", "data", "decide", "file"} /\ call.named =>
             call'.target = call.run,
           call'.pc = "file" => call'.seen \in Stories,
           LoadedInv',
           call'.pc \in {"doc", "snapshot", "data", "decide", "file"} /\ ~call.named
             /\ during.owner # "unknown" => call'.target = during.owner /\ call'.target # "none",
           call'.pc = "live" => ~call.named /\ during.owner = "unknown",
           call'.pc \in {"decide", "file"} /\ ~during.contract =>
             call'.pol.contract = data.contract,
           call'.pc = "file" /\ ~during.contract => "file" \in Sources[data.contract]
    PROVE  StoryInv'
<1>1. UNCHANGED <<outside, snaps, docs, marker, beat, edits, pin, active, stale, counts, during>>
  BY DEF DecisionFrame, IsDecision
<1>2. call.pc \notin {"idle", "open", "write"} /\ call'.pc \notin {"idle", "open", "write"}
  BY DEF IsDecision
<1>3. TypeInv'
  BY <1>1, KeepTypes DEF StoryInv, TypeInv
<1>4. CallInv'
  BY <1>2 DEF StoryInv, CallInv, CallFree, IsDecision
<1>5. PinInv' /\ DocInv' /\ TextInv'
  BY <1>1, <1>2, KeepDocs DEF StoryInv, PinInv, TextInv
<1>6. SnapInv'
  BY <1>1, <1>2 DEF StoryInv, SnapInv
<1>7. MarkInv'
  BY <1>1, <1>2 DEF StoryInv, MarkInv, IsDecision
<1>8. SpanInv'
  BY <1>1 DEF StoryInv, SpanInv, outside
<1> QED  BY <1>3, <1>4, <1>5, <1>6, <1>7, <1>8 DEF StoryInv

-----------------------------------------------------------------------------
(* The policies.                                                           *)

(* An effective policy has a budget for every trigger.                     *)
LEMMA EffectiveBudget ==
    ASSUME OutsideOK, ~EffectiveFails
    PROVE  /\ EffectivePolicy \in Policies
           /\ EffectivePolicy.limit \in [Triggers -> Nat]
<1>1. \A t \in Triggers : override[t] \in Nat \cup {Unset} /\ env[t] \in Nat \cup {Unset}
  BY StoryAssumption DEF OutsideOK, EffectiveFails, Settings
<1>2. ApplyLegacyEnv(DeepMerge(Bundled, override)) \in [Triggers -> Nat]
  BY <1>1, StoryAssumption DEF ApplyLegacyEnv, DeepMerge
<1>3. EffectivePolicy = [limit |-> ApplyLegacyEnv(DeepMerge(Bundled, override)),
                         prompts |-> "none", contract |-> "none"]
  BY DEF EffectivePolicy, NoPolicy
<1>4. EffectivePolicy.limit \in [Triggers -> Nat \cup {Unset}]
  BY <1>2, <1>3
<1> QED  BY <1>2, <1>3, <1>4 DEF Policies, Hashes

(* Resolving the paths fills in the hashes.                                *)
LEMMA ResolvedShape ==
    ASSUME OutsideOK, NEW pol \in Policies, NEW all \in BOOLEAN
    PROVE  /\ Resolved(pol, all) \in Policies
           /\ Resolved(pol, all).limit = pol.limit
           /\ Resolved(pol, all).contract = data.contract
           /\ all => Resolved(pol, all).prompts = data.prompts
<1>1. data.prompts \in Hashes /\ data.contract \in Hashes
  BY DEF OutsideOK, Hashes
<1>2. pol.prompts \in Hashes
  BY DEF Policies
<1>3. PICK p \in Hashes : p = IF all THEN data.prompts ELSE pol.prompts
  BY <1>1, <1>2
<1>4. Resolved(pol, all) = [pol EXCEPT !.prompts = p, !.contract = data.contract]
  BY <1>3 DEF Resolved
<1>5. /\ Resolved(pol, all) \in Policies
      /\ Resolved(pol, all).limit = pol.limit
      /\ Resolved(pol, all).contract = data.contract
      /\ Resolved(pol, all).prompts = p
  BY <1>1, <1>4 DEF Policies
<1> QED  BY <1>3, <1>5

-----------------------------------------------------------------------------
(* The initial states.                                                     *)
LEMMA InitStory == ASSUME Init PROVE StoryInv
<1>1. call = Idle /\ call.pc = "idle" /\ call \in Calls
  BY Constant DEF Init, Idle
<1>2. OutsideOK
  BY DEF Init, OutsideOK, Settings, Hashes, StoryStatuses
<1>3. \A r \in Runs : docs[r] \in {NoDoc, LegacyDoc}
  BY DEF Init
<1>4. RunOK
  <2>1. docs \in [Runs -> Docs]
    BY Constant DEF Init
  <2> QED  BY <2>1, Constant DEF Init, RunOK
<1>5. TypeInv
  <2>1. HistoryOK
    BY Constant DEF Init, HistoryOK
  <2>2. MarkOK
    BY Constant, Zenon DEF Init, MarkOK
  <2>3. edits \in 0..MaxEdits
    BY StoryAssumption DEF Init
  <2> QED  BY <1>1, <1>2, <1>4, <2>1, <2>2, <2>3 DEF TypeInv
<1>6. CallInv /\ TextInv /\ LoadedInv
  BY <1>1 DEF CallInv, CallFree, IsDecision, TextInv, LoadedInv
<1>7. PinInv
  BY DEF Init, PinInv
<1>8. DocInv
  <2> SUFFICES ASSUME NEW r \in Runs
               PROVE  docs[r] = NoDoc \/ Whole(docs[r], r)
    BY DEF Init, DocInv, WithinBudget
  <2> QED  BY <1>3, Constant DEF Init, Whole
<1>9. SnapInv
  BY <1>1, <1>3, Constant DEF SnapInv
<1>10. MarkInv /\ SpanInv
  BY <1>1 DEF Init, MarkInv, SpanInv, IsDecision, DuringNothing
<1> QED  BY <1>5, <1>6, <1>7, <1>8, <1>9, <1>10 DEF StoryInv

-----------------------------------------------------------------------------
(* build-state-doc, state-update and commands that are killed.             *)

(* A document that is there but for a torn write is whole.                 *)
LEMMA DocCases ==
    ASSUME StoryInv, NEW r \in Runs
    PROVE  /\ ~docs[r].there => docs[r] = NoDoc
           /\ docs[r].status # "" => ~Torn(r) /\ docs[r].there /\ Whole(docs[r], r)
           /\ Whole(docs[r], r) => ~Torn(r)
           /\ NoDoc # EmptyDoc
<1>1. docs[r] = NoDoc \/ docs[r] = EmptyDoc \/ Whole(docs[r], r)
  BY DEF StoryInv, DocInv, Torn
<1>2. NoDoc.status = ""
  BY DEF NoDoc
<1>3. NoDoc # EmptyDoc
  BY Constant
<1>4. Whole(docs[r], r) => docs[r] # EmptyDoc
  BY Constant DEF Whole
<1> QED  BY <1>1, <1>2, <1>3, <1>4, Constant DEF Torn, Whole

(* The command that a build or an update has become.                       *)
LEMMA WriterCall ==
    ASSUME NEW cmd \in {"build", "update"}, NEW r \in Runs, NEW d \in Docs,
           call' = [Idle EXCEPT !.cmd = cmd, !.pc = "open", !.run = r, !.text = d]
    PROVE  /\ call' \in Calls /\ call'.pc = "open" /\ call'.run = r /\ call'.text = d
           /\ call'.out = "none"
  BY Constant DEF Idle, Calls

(* The snapshot is written, and the run is pinned to it.                   *)
LEMMA BuildKeeps == ASSUME StoryInv, NEW r \in Runs, BuildSnapshot(r) PROVE StoryInv'
<1>1. /\ UNCHANGED <<outside, docs, marker, beat, counts, edits, active, stale, during>>
      /\ call.pc = "idle" /\ ~docs[r].there
      /\ ~EffectiveFails /\ data.prompts # "none"
  BY DEF BuildSnapshot, CallFree, AssetMissing
<1>2. /\ OutsideOK /\ snaps \in [Runs -> Policies] /\ pin \in [Runs -> Policies]
      /\ docs \in [Runs -> Docs] /\ counts \in [Runs -> [Triggers -> Nat]]
  BY DEF StoryInv, TypeInv, RunOK, HistoryOK
<1>3. PICK pol \in Policies :
        /\ snaps' = [snaps EXCEPT ![r] = pol] /\ pin' = [pin EXCEPT ![r] = pol]
        /\ call' = [Idle EXCEPT !.cmd = "build", !.pc = "open", !.run = r, !.text = NewDoc(pol)]
        /\ pol.limit \in [Triggers -> Nat] /\ pol.contract = data.contract
        /\ pol.prompts = data.prompts
  <2>1. /\ Resolved(EffectivePolicy, TRUE) \in Policies
        /\ Resolved(EffectivePolicy, TRUE).limit \in [Triggers -> Nat]
        /\ Resolved(EffectivePolicy, TRUE).contract = data.contract
        /\ Resolved(EffectivePolicy, TRUE).prompts = data.prompts
    BY <1>1, <1>2, EffectiveBudget, ResolvedShape
  <2> QED  BY <2>1 DEF BuildSnapshot
<1>4. pol # NoPolicy /\ pol.contract \in Versions
  BY <1>1, <1>2, <1>3 DEF NoPolicy, OutsideOK
<1>5. /\ NewDoc(pol) \in Docs /\ NewDoc(pol).there /\ NewDoc(pol).version
      /\ NewDoc(pol).hash = pol
  BY Constant DEF NewDoc, Docs, Statuses
<1>6. /\ call' \in Calls /\ call'.pc = "open" /\ call'.run = r /\ call'.text = NewDoc(pol)
      /\ call'.out = "none"
  BY <1>3, <1>5, WriterCall
<1>7. docs[r] = NoDoc
  BY <1>1, DocCases
<1>8. /\ pin'[r] = pol /\ snaps'[r] = pol
      /\ \A q \in Runs : q # r => pin'[q] = pin[q] /\ snaps'[q] = snaps[q]
  BY <1>2, <1>3
<1>9. TypeInv'
  <2>1. RunOK'
    BY <1>1, <1>2, <1>3 DEF RunOK
  <2>2. HistoryOK'
    BY <1>1, <1>2, <1>3 DEF HistoryOK, StoryInv, TypeInv
  <2> QED  BY <1>1, <1>6, <2>1, <2>2, KeepTypes DEF StoryInv, TypeInv
<1>10. CallInv' /\ LoadedInv' /\ SpanInv'
  BY <1>6 DEF CallInv, CallFree, IsDecision, LoadedInv, SpanInv
<1>11. PinInv'
  BY <1>3, <1>4, <1>8 DEF StoryInv, PinInv
<1>12. DocInv'
  <2> SUFFICES ASSUME NEW q \in Runs
               PROVE  /\ docs[q] = NoDoc \/ docs[q] = EmptyDoc \/ Whole(docs[q], q)'
                      /\ ~docs[q].there => \A t \in Triggers : counts[q][t] = 0
                      /\ docs[q] # EmptyDoc => WithinBudget(q)'
    BY <1>1, <1>6 DEF DocInv, Torn
  <2>1. /\ docs[q] = NoDoc \/ docs[q] = EmptyDoc \/ Whole(docs[q], q)
        /\ ~docs[q].there => \A t \in Triggers : counts[q][t] = 0
        /\ docs[q] # EmptyDoc => WithinBudget(q)
    BY DEF StoryInv, DocInv, Torn
  <2>2. CASE q = r
    <3>1. WithinBudget(q)'
      BY <1>1, <1>3, <1>8, <2>1, <2>2 DEF WithinBudget
    <3> QED  BY <1>7, <2>1, <2>2, <3>1
  <2>3. CASE q # r
    BY <1>1, <1>8, <2>1, <2>3 DEF Whole, WithinBudget
  <2> QED  BY <2>2, <2>3
<1>13. TextInv'
  <2>1. Whole(NewDoc(pol), r)'
    BY <1>4, <1>5, <1>8 DEF Whole
  <2> QED  BY <1>1, <1>6, <1>7, <2>1, DocCases DEF TextInv, Torn, Whole
<1>14. SnapInv'
  BY <1>1, <1>5, <1>6, <1>7, <1>8, Constant DEF StoryInv, SnapInv
<1>15. MarkInv'
  BY <1>1, <1>6 DEF StoryInv, MarkInv, IsDecision
<1> QED
  BY <1>9, <1>10, <1>11, <1>12, <1>13, <1>14, <1>15 DEF StoryInv

(* A command is killed wherever it was; a document may stay emptied.       *)
LEMMA KilledKeeps == ASSUME StoryInv, Killed PROVE StoryInv'
<1>1. /\ UNCHANGED <<outside, snaps, docs, marker, beat, counts, edits, pin, active, stale>>
      /\ call' = Idle /\ call'.pc = "idle" /\ call' \in Calls
      /\ during' = DuringNothing /\ during'.owner = "unknown" /\ during' \in Spans
  BY Constant DEF Killed, Idle, DuringNothing
<1>2. TypeInv'
  <2>1. HistoryOK'
    BY <1>1 DEF StoryInv, TypeInv, HistoryOK
  <2> QED  BY <1>1, <2>1, KeepTypes DEF StoryInv, TypeInv
<1>3. CallInv' /\ TextInv' /\ LoadedInv'
  BY <1>1 DEF CallInv, CallFree, IsDecision, TextInv, LoadedInv
<1>4. PinInv' /\ DocInv'
  BY <1>1, KeepDocs DEF StoryInv, PinInv
<1>5. SnapInv' /\ MarkInv' /\ SpanInv'
  BY <1>1 DEF StoryInv, SnapInv, MarkInv, SpanInv, IsDecision
<1> QED  BY <1>2, <1>3, <1>4, <1>5 DEF StoryInv

(* The document is read; what will be written differs in its status.       *)
LEMMA UpdateKeeps == ASSUME StoryInv, NEW r \in Runs, UpdateRead(r) PROVE StoryInv'
<1>1. PICK s \in {"IN_PROGRESS", "COMPLETE"} :
        call' = [Idle EXCEPT !.cmd = "update", !.pc = "open", !.run = r,
                             !.text = [docs[r] EXCEPT !.status = s]]
  BY DEF UpdateRead
<1>2. /\ UNCHANGED <<outside, snaps, docs, marker, beat, counts, edits, history>>
      /\ call.pc = "idle" /\ docs[r].status # ""
  BY DEF UpdateRead, CallFree
<1> DEFINE d == [docs[r] EXCEPT !.status = s]
<1>3. docs[r] \in Docs
  BY DEF StoryInv, TypeInv, RunOK
<1>4. /\ d \in Docs /\ d.there = docs[r].there /\ d.file = docs[r].file
      /\ d.hash = docs[r].hash /\ d.version = docs[r].version /\ d.status = s
  BY <1>3 DEF Docs, Statuses
<1>5. call'.text = d /\ call' \in Calls /\ call'.pc = "open" /\ call'.run = r
      /\ call'.out = "none"
  BY <1>1, <1>4, WriterCall
<1> HIDE DEF d
<1>6. ~Torn(r) /\ Whole(docs[r], r)
  BY <1>2, DocCases
<1>7. TypeInv'
  BY <1>2, <1>5, KeepTypes DEF StoryInv, TypeInv, history
<1>8. CallInv' /\ LoadedInv' /\ SpanInv'
  BY <1>5 DEF CallInv, CallFree, IsDecision, LoadedInv, SpanInv
<1>9. PinInv' /\ DocInv'
  BY <1>2, <1>5, KeepDocs DEF StoryInv, PinInv, history
<1>10. TextInv'
  BY <1>2, <1>4, <1>5, <1>6 DEF TextInv, Torn, Whole, history
<1>11. SnapInv' /\ MarkInv'
  BY <1>2, <1>4, <1>5 DEF StoryInv, SnapInv, MarkInv, IsDecision, history
<1> QED  BY <1>7, <1>8, <1>9, <1>10, <1>11 DEF StoryInv

(* write_text empties the document ...                                     *)
LEMMA OpenKeeps == ASSUME StoryInv, OpenForWriting PROVE StoryInv'
<1>1. /\ UNCHANGED <<outside, snaps, marker, beat, counts, edits, history>>
      /\ call.pc = "open" /\ call' = [call EXCEPT !.pc = "write"]
      /\ docs' = [docs EXCEPT ![call.run] = EmptyDoc]
  BY DEF OpenForWriting, Goes
<1>2. call \in Calls /\ call.run \in Runs /\ docs \in [Runs -> Docs]
  BY <1>1 DEF StoryInv, TypeInv, CallInv, RunOK
<1>3. /\ call' \in Calls /\ call'.pc = "write" /\ call'.run = call.run
      /\ call'.text = call.text /\ call'.out = call.out
  BY <1>1, <1>2 DEF Calls
<1>4. docs'[call.run] = EmptyDoc /\ \A q \in Runs : q # call.run => docs'[q] = docs[q]
  BY <1>1, <1>2
<1>5. TypeInv'
  <2>1. RunOK'
    BY <1>1, <1>2, Constant DEF StoryInv, TypeInv, RunOK
  <2> QED  BY <1>1, <1>3, <2>1, KeepTypes DEF StoryInv, TypeInv, history
<1>6. CallInv' /\ LoadedInv' /\ SpanInv'
  BY <1>1, <1>2, <1>3 DEF StoryInv, CallInv, CallFree, IsDecision, LoadedInv, SpanInv
<1>7. PinInv'
  BY <1>1 DEF StoryInv, PinInv, history
<1>8. DocInv'
  <2> SUFFICES ASSUME NEW q \in Runs
               PROVE  /\ docs'[q] = NoDoc \/ docs'[q] = EmptyDoc \/ Whole(docs'[q], q)
                      /\ ~docs'[q].there => \A t \in Triggers : counts[q][t] = 0
                      /\ docs'[q] # EmptyDoc \/ call.run = q => WithinBudget(q)
    BY <1>1, <1>3 DEF DocInv, Torn, Whole, WithinBudget, history
  <2>1. /\ docs[q] = NoDoc \/ docs[q] = EmptyDoc \/ Whole(docs[q], q)
        /\ ~docs[q].there => \A t \in Triggers : counts[q][t] = 0
        /\ docs[q] # EmptyDoc => WithinBudget(q)
    BY DEF StoryInv, DocInv, Torn
  <2>2. docs[call.run] # EmptyDoc
    BY <1>1 DEF StoryInv, TextInv, Torn
  <2> QED  BY <1>4, <2>1, <2>2, Constant
<1>9. TextInv'
  BY <1>1, <1>3 DEF StoryInv, TextInv, Whole, history
<1>10. SnapInv'
  BY <1>1, <1>2, <1>3, <1>4, Constant DEF StoryInv, SnapInv
<1>11. MarkInv'
  BY <1>1, <1>3 DEF StoryInv, MarkInv, IsDecision, history
<1> QED  BY <1>5, <1>6, <1>7, <1>8, <1>9, <1>10, <1>11 DEF StoryInv

(* ... and fills it.                                                       *)
LEMMA WriteKeeps == ASSUME StoryInv, WriteText PROVE StoryInv'
<1>1. /\ UNCHANGED <<outside, snaps, marker, beat, counts, edits, history>>
      /\ call.pc = "write" /\ call' = [Idle EXCEPT !.out = "none"]
      /\ docs' = [docs EXCEPT ![call.run] = call.text]
  BY DEF WriteText, Returns
<1>2. /\ call \in Calls /\ call.run \in Runs /\ docs \in [Runs -> Docs]
      /\ call.text \in Docs
  BY <1>1 DEF StoryInv, TypeInv, CallInv, RunOK, Calls
<1>3. call' \in Calls /\ call'.pc = "idle"
  BY <1>1, Constant DEF Idle, Calls
<1>4. docs'[call.run] = call.text /\ \A q \in Runs : q # call.run => docs'[q] = docs[q]
  BY <1>1, <1>2
<1>5. TypeInv'
  <2>1. RunOK'
    BY <1>1, <1>2 DEF StoryInv, TypeInv, RunOK
  <2> QED  BY <1>1, <1>3, <2>1, KeepTypes DEF StoryInv, TypeInv, history
<1>6. CallInv' /\ LoadedInv' /\ SpanInv' /\ TextInv'
  BY <1>3 DEF CallInv, CallFree, IsDecision, LoadedInv, SpanInv, TextInv
<1>7. PinInv'
  BY <1>1 DEF StoryInv, PinInv, history
<1>8. DocInv'
  <2> SUFFICES ASSUME NEW q \in Runs
               PROVE  /\ docs'[q] = NoDoc \/ docs'[q] = EmptyDoc \/ Whole(docs'[q], q)
                      /\ ~docs'[q].there => \A t \in Triggers : counts[q][t] = 0
                      /\ docs'[q] # EmptyDoc => WithinBudget(q)
    BY <1>1, <1>3 DEF DocInv, Torn, Whole, WithinBudget, history
  <2>1. /\ docs[q] = NoDoc \/ docs[q] = EmptyDoc \/ Whole(docs[q], q)
        /\ ~docs[q].there => \A t \in Triggers : counts[q][t] = 0
        /\ docs[q] # EmptyDoc \/ call.run = q => WithinBudget(q)
    BY <1>1 DEF StoryInv, DocInv, Torn
  <2>2. Whole(call.text, call.run) /\ call.text.there
    BY <1>1 DEF StoryInv, TextInv, Whole
  <2> QED  BY <1>4, <2>1, <2>2
<1>9. SnapInv'
  BY <1>1, <1>2, <1>3, <1>4 DEF StoryInv, SnapInv
<1>10. MarkInv'
  <2>1. during.owner = "unknown"
    BY <1>1 DEF StoryInv, MarkInv, IsDecision
  <2> QED  BY <1>1, <1>3, <2>1 DEF StoryInv, MarkInv, history
<1> QED  BY <1>5, <1>6, <1>7, <1>8, <1>9, <1>10 DEF StoryInv

-----------------------------------------------------------------------------
(* The marker.                                                             *)

(* Only the marker and its history change.                                 *)
LEMMA MarkStep ==
    ASSUME StoryInv, MarkOK', MarkInv',
           UNCHANGED <<outside, snaps, docs, call, counts, edits, pin, during>>
    PROVE  StoryInv'
<1>1. TypeInv'
  BY KeepTypes DEF StoryInv, TypeInv
<1>2. CallInv' /\ TextInv' /\ LoadedInv'
  BY DEF StoryInv, CallInv, CallFree, IsDecision, TextInv, LoadedInv, Torn, Whole
<1>3. PinInv' /\ DocInv'
  BY KeepDocs DEF StoryInv, PinInv
<1>4. SnapInv' /\ SpanInv'
  BY DEF StoryInv, SnapInv, SpanInv, IsDecision, outside
<1> QED  BY <1>1, <1>2, <1>3, <1>4 DEF StoryInv

\* The commands that write the marker keep the invariant.
LEMMA MarkingKeeps == ASSUME StoryInv, Marking PROVE StoryInv'
<1>0. /\ MarkOK /\ MarkInv
  BY DEF StoryInv, TypeInv
<1>1. ASSUME NEW m \in Markers, CallFree, SetMarker(m) PROVE StoryInv'
  <2>1. /\ UNCHANGED <<outside, snaps, docs, call, beat, counts, edits, pin, during>>
        /\ marker' = m /\ (stale' <=> beat # NoMarker) /\ stale' \in BOOLEAN
        /\ active' = IF stale' THEN NoMarker ELSE m
    BY <1>1 DEF SetMarker
  <2>2. MarkOK'
    BY <1>0, <2>1, Constant DEF MarkOK
  <2>3. during.owner = "unknown" /\ ~IsDecision(call) /\ call.pc = "idle"
    BY <1>0, <1>1 DEF MarkInv, CallFree, IsDecision
  <2>4. MarkInv'
    BY <2>1, <2>3 DEF MarkInv
  <2> QED  BY <2>1, <2>2, <2>4, MarkStep
<1>2. CASE MarkerCreate
  <2>1. PICK r \in LatestIncomplete \cup {"none"}, n \in 0..1 :
          SetMarker([there |-> TRUE, run |-> r, remaining |-> n])
    BY <1>2 DEF MarkerCreate
  <2>2. r \in Runs \cup {"none"} /\ n \in Nat
    <3>1. LatestIncomplete \subseteq Runs
      BY Zenon DEF LatestIncomplete, Incomplete
    <3> QED  BY <3>1
  <2>3. [there |-> TRUE, run |-> r, remaining |-> n] \in Markers
    BY <2>2 DEF Markers
  <2> QED  BY <1>1, <1>2, <2>1, <2>3 DEF MarkerCreate
<1>3. CASE MarkerRemove
  BY <1>1, <1>3, Constant DEF MarkerRemove
<1>4. CASE HeartbeatRead
  <2>1. /\ UNCHANGED <<outside, snaps, docs, call, counts, edits, pin, during>>
        /\ UNCHANGED <<marker, active, stale>> /\ beat' = marker
    BY <1>4 DEF HeartbeatRead, history
  <2>2. MarkOK' /\ MarkInv'
    BY <1>0, <2>1 DEF MarkOK, MarkInv, IsDecision
  <2> QED  BY <2>1, <2>2, MarkStep
<1>5. CASE HeartbeatWrite
  <2>1. /\ UNCHANGED <<outside, snaps, docs, call, counts, edits, pin, during>>
        /\ UNCHANGED <<active, stale>> /\ beat # NoMarker /\ marker' = beat /\ beat' = NoMarker
    BY <1>5 DEF HeartbeatWrite, history
  <2>2. MarkOK' /\ MarkInv'
    BY <1>0, <2>1, Constant DEF MarkOK, MarkInv, IsDecision
  <2> QED  BY <2>1, <2>2, MarkStep
<1> QED  BY <1>2, <1>3, <1>4, <1>5 DEF Marking

-----------------------------------------------------------------------------
(* The commands that decide.                                               *)

\* A deciding command finds its run.
LEMMA BeginKeeps ==
    ASSUME StoryInv, NEW cmd \in {"escalate", "verify"}, Begin(cmd) PROVE StoryInv'
<1>1. PICK r \in Runs \cup {"none"} :
        call' = [Idle EXCEPT !.cmd = cmd, !.pc = "resolve", !.run = r, !.named = (r # "none")]
  BY DEF Begin
<1>2. PICK owner \in Runs \cup {"none", "unknown"} :
        /\ owner = IF stale \/ ~active.there THEN "unknown" ELSE active.run
        /\ during' = DuringFrom(owner)
  <2>1. active.run \in Runs \cup {"none"}
    BY DEF StoryInv, TypeInv, MarkOK, Markers
  <2> QED  BY <2>1 DEF Begin
<1>3. /\ UNCHANGED <<outside, snaps, docs, marker, beat, counts, edits, pin, active, stale>>
      /\ call.pc = "idle"
  BY DEF Begin, CallFree
<1>4. /\ call' \in Calls /\ call'.pc = "resolve" /\ call'.run = r
      /\ call'.named = (r # "none") /\ call'.target = "none" /\ call'.out = "none"
  BY <1>1, Constant DEF Idle, Calls
<1>5. /\ during' \in Spans /\ during'.owner = owner
      /\ \A s \in Stories : /\ sprint[s] = "done" => s \in during'.sprint
                            /\ storyFile[s] = "done" => s \in during'.file
  BY <1>2 DEF DuringFrom, Spans
<1>6. TypeInv'
  <2>1. HistoryOK'
    BY <1>3, <1>5 DEF StoryInv, TypeInv, HistoryOK
  <2> QED  BY <1>3, <1>4, <2>1, KeepTypes DEF StoryInv, TypeInv
<1>7. CallInv' /\ TextInv' /\ LoadedInv'
  BY <1>4 DEF CallInv, CallFree, IsDecision, TextInv, LoadedInv
<1>8. PinInv' /\ DocInv'
  BY <1>3, <1>4, KeepDocs DEF StoryInv, PinInv
<1>9. SnapInv' /\ SpanInv'
  BY <1>3, <1>4, <1>5 DEF StoryInv, SnapInv, SpanInv, outside
<1>10. MarkInv'
  <2>1. owner # "unknown" => ~stale /\ active.there /\ active.run = owner
    BY <1>2
  <2> QED  BY <1>3, <1>4, <1>5, <2>1 DEF StoryInv, MarkInv, IsDecision
<1> QED  BY <1>6, <1>7, <1>8, <1>9, <1>10 DEF StoryInv

(* The document is named, or the marker's, or there is none.               *)
LEMMA ResolveKeeps == ASSUME StoryInv, ResolvePolicyStateFile PROVE StoryInv'
<1> DEFINE r == IF call.named THEN call.run ELSE marker.run
<1>1. call.pc = "resolve" /\ UNCHANGED counts /\ DecisionFrame
  BY DEF ResolvePolicyStateFile
<1>2. /\ call \in Calls /\ IsDecision(call) /\ marker.run \in Runs \cup {"none"}
      /\ call.target = "none" /\ call.named = (call.run # "none")
      /\ call.run \in Runs \cup {"none"} /\ call.named \in BOOLEAN
  BY <1>1 DEF StoryInv, TypeInv, MarkOK, Markers, CallInv, IsDecision, Calls
<1>3. \/ ~call.named /\ ~marker.there /\ Goes("live")
      \/ Returns("stop")
      \/ /\ call' = [call EXCEPT !.pc = "doc", !.target = r]
         /\ call.named \/ (marker.there /\ marker.run # "none")
  BY <1>2 DEF ResolvePolicyStateFile
<1>4. CASE Returns("stop")
  BY <1>1, <1>4, AnswerKeeps
<1>5. CASE ~call.named /\ ~marker.there /\ Goes("live")
  <2>1. during.owner = "unknown"
    BY <1>5 DEF StoryInv, MarkInv
  <2>2. /\ call' \in Calls /\ call'.pc = "live" /\ call'.target = call.target
        /\ UNCHANGED <<call.named, call.run, call.out>>
    BY <1>2, <1>5 DEF Goes, Calls
  <2>3. LoadedInv' /\ IsDecision(call)'
    BY <2>2 DEF LoadedInv, IsDecision
  <2> QED  BY <1>1, <1>2, <1>5, <2>1, <2>2, <2>3, AdvanceKeeps
<1>6. CASE /\ call' = [call EXCEPT !.pc = "doc", !.target = r]
           /\ call.named \/ (marker.there /\ marker.run # "none")
  <2>1. /\ r \in Runs /\ r # "none"
        /\ (call.named => r = call.run) /\ (~call.named => r = marker.run)
    BY <1>2, <1>6, StoryAssumption
  <2> HIDE DEF r
  <2>2. /\ call' \in Calls /\ call'.pc = "doc" /\ call'.target = r
        /\ UNCHANGED <<call.named, call.run, call.out>>
    BY <1>2, <1>6, <2>1 DEF Calls
  <2>3. LoadedInv' /\ IsDecision(call)'
    BY <2>2 DEF LoadedInv, IsDecision
  <2>4. during.owner # "unknown" => marker.run = during.owner
    BY DEF StoryInv, MarkInv
  <2> QED  BY <1>1, <1>2, <2>1, <2>2, <2>3, <2>4, AdvanceKeeps
<1> QED  BY <1>3, <1>4, <1>5, <1>6

(* The document says by what it is ruled.                                  *)
LEMMA ReadDocKeeps == ASSUME StoryInv, ReadDoc PROVE StoryInv'
<1>1. call.pc = "doc" /\ UNCHANGED counts /\ DecisionFrame
  BY DEF ReadDoc
<1>2. /\ call \in Calls /\ IsDecision(call) /\ call.target \in Runs
      /\ docs[call.target] \in Docs
      /\ UNCHANGED <<docs, pin>>
  BY <1>1 DEF StoryInv, TypeInv, CallInv, IsDecision, RunOK, DecisionFrame
<1> DEFINE d == docs[call.target]
<1>3. \/ Returns("stop")
      \/ /\ d.there /\ StatePolicyMode(d) = "legacy"
         /\ call' = [call EXCEPT !.pc = "data", !.pol = BundledPolicy]
      \/ /\ d.there /\ StatePolicyMode(d) = "snapshot"
         /\ call' = [call EXCEPT !.pc = "snapshot", !.text = d]
  <2>1. StatePolicyMode(d) \in {"error", "legacy", "snapshot"}
    BY DEF StatePolicyMode
  <2> QED  BY <1>2, <2>1 DEF ReadDoc, Docs
<1>4. docs[call.target] = NoDoc \/ Torn(call.target) \/ Whole(docs[call.target], call.target)
  BY <1>2 DEF StoryInv, DocInv
<1>5. CASE Returns("stop")
  BY <1>1, <1>5, AnswerKeeps
<1>6. CASE /\ d.there /\ StatePolicyMode(d) = "legacy"
           /\ call' = [call EXCEPT !.pc = "data", !.pol = BundledPolicy]
  <2>1. ~d.version
    BY <1>6 DEF StatePolicyMode
  <2>2. pin[call.target] = NoPolicy \/ Torn(call.target)
    BY <1>4, <1>6, <2>1, Constant DEF Whole
  <2>3. /\ call' \in Calls /\ call'.pc = "data" /\ call'.target = call.target
        /\ call'.pol = BundledPolicy
        /\ UNCHANGED <<call.named, call.run, call.out>>
    BY <1>2, <1>6, Constant DEF Calls
  <2>4. LoadedInv' /\ IsDecision(call)'
    BY <1>2, <1>6, <2>2, <2>3, Constant DEF LoadedInv, IsDecision, Torn
  <2> QED  BY <1>1, <1>2, <2>3, <2>4, AdvanceKeeps DEF StoryInv, CallInv, MarkInv
<1>7. CASE /\ d.there /\ StatePolicyMode(d) = "snapshot"
           /\ call' = [call EXCEPT !.pc = "snapshot", !.text = d]
  <2>1. d.hash # NoPolicy
    BY <1>7 DEF StatePolicyMode
  <2>2. d.hash = pin[call.target]
    BY <1>4, <1>7, <2>1, Constant DEF Whole, Torn
  <2>3. /\ call' \in Calls /\ call'.pc = "snapshot" /\ call'.target = call.target
        /\ call'.text = d
        /\ UNCHANGED <<call.named, call.run, call.out>>
    BY <1>2, <1>7 DEF Calls
  <2>4. LoadedInv' /\ IsDecision(call)'
    BY <1>2, <1>7, <2>1, <2>2, <2>3 DEF LoadedInv, IsDecision
  <2> QED  BY <1>1, <1>2, <2>3, <2>4, AdvanceKeeps DEF StoryInv, CallInv, MarkInv
<1> QED  BY <1>3, <1>5, <1>6, <1>7

(* A snapshot that is not the one hashed is refused.                       *)
LEMMA SnapshotKeeps == ASSUME StoryInv, LoadPolicySnapshot PROVE StoryInv'
<1>1. call.pc = "snapshot" /\ UNCHANGED counts /\ DecisionFrame
  BY DEF LoadPolicySnapshot
<1>2. /\ call \in Calls /\ IsDecision(call) /\ call.target \in Runs
      /\ snaps[call.target] \in Policies
      /\ call.text.hash = pin[call.target] /\ pin[call.target] # NoPolicy
      /\ docs[call.target].there /\ call.target # "none"
      /\ UNCHANGED <<docs, pin>>
  BY <1>1, StoryAssumption
     DEF StoryInv, TypeInv, CallInv, IsDecision, RunOK, LoadedInv, DecisionFrame
<1>3. \/ Returns("stop")
      \/ /\ snaps[call.target] = call.text.hash
         /\ call' = [call EXCEPT !.pc = "data", !.pol = snaps[call.target], !.text = NoDoc]
  BY DEF LoadPolicySnapshot
<1>4. CASE Returns("stop")
  BY <1>1, <1>4, AnswerKeeps
<1>5. CASE /\ snaps[call.target] = call.text.hash
           /\ call' = [call EXCEPT !.pc = "data", !.pol = snaps[call.target], !.text = NoDoc]
  <2>1. /\ call' \in Calls /\ call'.pc = "data" /\ call'.target = call.target
        /\ call'.pol = snaps[call.target]
        /\ UNCHANGED <<call.named, call.run, call.out>>
    BY <1>2, <1>5, Constant DEF Calls
  <2>2. LoadedInv' /\ IsDecision(call)'
    BY <1>2, <1>5, <2>1 DEF LoadedInv, IsDecision
  <2> QED  BY <1>1, <1>2, <2>1, <2>2, AdvanceKeeps DEF StoryInv, CallInv, MarkInv
<1> QED  BY <1>3, <1>4, <1>5

(* Without a run, the files as they are now.                               *)
LEMMA EffectiveKeeps == ASSUME StoryInv, LoadEffectivePolicy PROVE StoryInv'
<1>1. call.pc = "live" /\ UNCHANGED counts /\ DecisionFrame
  BY DEF LoadEffectivePolicy
<1>2. /\ call \in Calls /\ IsDecision(call) /\ call.target = "none"
      /\ ~call.named /\ during.owner = "unknown" /\ OutsideOK
  BY <1>1 DEF StoryInv, TypeInv, CallInv, IsDecision, MarkInv
<1>3. CASE Returns("stop")
  BY <1>1, <1>3, AnswerKeeps
<1>4. CASE ~EffectiveFails /\ call' = [call EXCEPT !.pc = "data", !.pol = EffectivePolicy]
  <2>1. /\ call' \in Calls /\ call'.pc = "data" /\ call'.target = call.target
        /\ UNCHANGED <<call.named, call.run, call.out>>
    BY <1>2, <1>4, EffectiveBudget DEF Calls
  <2>2. LoadedInv' /\ IsDecision(call)'
    BY <1>2, <2>1 DEF LoadedInv, IsDecision
  <2> QED  BY <1>1, <1>2, <2>1, <2>2, AdvanceKeeps
<1> QED  BY <1>3, <1>4 DEF LoadEffectivePolicy

(* The files the policy points to are the ones it was made with.           *)
LEMMA PathsKeep == ASSUME StoryInv, ResolvePaths PROVE StoryInv'
<1>1. call.pc = "data" /\ UNCHANGED counts /\ DecisionFrame
  BY DEF ResolvePaths
<1>2. /\ call \in Calls /\ IsDecision(call) /\ OutsideOK /\ call.pol \in Policies
      /\ UNCHANGED <<docs, pin>>
  BY <1>1 DEF StoryInv, TypeInv, IsDecision, Calls, DecisionFrame
<1>3. PICK all \in BOOLEAN : all = (call.cmd = "escalate")
  OBVIOUS
<1>4. \/ Returns("stop")
      \/ /\ ~ResolveFails(call.pol, all)
         /\ call' = [call EXCEPT !.pc = "decide", !.pol = Resolved(call.pol, all)]
  BY <1>2, <1>3 DEF ResolvePaths, Calls
<1>5. CASE Returns("stop")
  BY <1>1, <1>5, AnswerKeeps
<1>6. CASE /\ ~ResolveFails(call.pol, all)
           /\ call' = [call EXCEPT !.pc = "decide", !.pol = Resolved(call.pol, all)]
  <2>1. /\ Resolved(call.pol, all) \in Policies
        /\ Resolved(call.pol, all).limit = call.pol.limit
        /\ Resolved(call.pol, all).contract = data.contract
    BY <1>2, ResolvedShape
  <2>2. /\ call' \in Calls /\ call'.pc = "decide" /\ call'.target = call.target
        /\ call'.pol.limit = call.pol.limit /\ call'.pol.contract = data.contract
        /\ UNCHANGED <<call.named, call.run, call.out>>
    BY <1>2, <1>6, <2>1 DEF Calls
  <2>3. call.pol.contract \in {"none", data.contract}
    BY <1>6 DEF ResolveFails, HashHolds
  <2>4. \A r \in Runs : pin[r] # NoPolicy => pin[r].contract # "none"
    BY StoryAssumption DEF StoryInv, PinInv
  <2>5. call.target \in Runs \cup {"none"}
    BY <1>2 DEF Calls
  <2>6. LoadedInv' /\ IsDecision(call)'
    BY <1>1, <1>2, <2>2, <2>3, <2>4, <2>5 DEF StoryInv, LoadedInv, IsDecision, Torn
  <2> QED  BY <1>1, <1>2, <2>2, <2>6, AdvanceKeeps DEF StoryInv, CallInv, MarkInv
<1> QED  BY <1>4, <1>5, <1>6

(* `escalate`: what is granted to a run that is named is within its budget. *)
LEMMA EscalationKeeps == ASSUME StoryInv, DecideEscalation PROVE StoryInv'
<1>1. call.pc = "decide" /\ DecisionFrame
  BY DEF DecideEscalation
<1>2. /\ RunOK /\ UNCHANGED <<snaps, docs, pin>>
      /\ call.named = (call.run # "none") /\ call.run \in Runs \cup {"none"}
      /\ call.named \in BOOLEAN
  BY <1>1 DEF StoryInv, TypeInv, CallInv, IsDecision, Calls, DecisionFrame
<1>3. \/ \E out \in {"go", "stop"} : Returns(out) /\ UNCHANGED counts
      \/ /\ call.named /\ Returns("go")
         /\ \E t \in Triggers : /\ ~Exhausted(call.pol, t, counts[call.run][t])
                                /\ counts' = [counts EXCEPT ![call.run][t] = @ + 1]
  BY <1>2 DEF DecideEscalation
<1>4. CASE \E out \in {"go", "stop"} : Returns(out) /\ UNCHANGED counts
  BY <1>1, <1>4, AnswerKeeps
<1>5. ASSUME call.named, Returns("go"), NEW t \in Triggers,
             ~Exhausted(call.pol, t, counts[call.run][t]),
             counts' = [counts EXCEPT ![call.run][t] = @ + 1]
      PROVE  StoryInv'
  <2>1. PICK r \in Runs : r = call.run /\ r = call.target /\ r # "none"
    BY <1>1, <1>2, <1>5 DEF StoryInv, CallInv
  <2>2. /\ counts \in [Runs -> [Triggers -> Nat]]
        /\ counts' = [counts EXCEPT ![r][t] = @ + 1]
        /\ ~(counts[r][t] >= call.pol.limit[t])
    BY <1>2, <1>5, <2>1 DEF RunOK, Exhausted
  <2>3. /\ counts' \in [Runs -> [Triggers -> Nat]]
        /\ counts'[r][t] = counts[r][t] + 1
        /\ \A q \in Runs, u \in Triggers : q # r \/ u # t => counts'[q][u] = counts[q][u]
    BY <2>2
  <2>4. RunOK'
    BY <1>2, <2>3 DEF RunOK
  <2>5. /\ docs[r].there
        /\ pin[r] # NoPolicy /\ ~Torn(r) => call.pol.limit = pin[r].limit
    BY <1>1, <2>1 DEF StoryInv, LoadedInv
  <2>6. call'.pc = "idle"
    BY <1>5 DEF Returns, Idle
  <2>7. ASSUME NEW q \in Runs, ~Torn(q), pin[q] # NoPolicy, NEW u \in Triggers
        PROVE  counts'[q][u] <= pin[q].limit[u]
    <3>1. counts[q][u] <= pin[q].limit[u]
      BY <2>7 DEF StoryInv, DocInv, WithinBudget
    <3>2. CASE q = r /\ u = t
      <4>1. pin[r].limit \in [Triggers -> Nat]
        BY <2>7, <3>2 DEF StoryInv, PinInv
      <4>2. pin[r].limit[t] \in Nat /\ counts[r][t] \in Nat /\ ~(counts[r][t] >= pin[r].limit[t])
        BY <2>2, <2>5, <2>7, <3>2, <4>1
      <4> QED  BY <2>3, <3>2, <4>2
    <3> QED  BY <2>3, <3>1, <3>2
  <2>8. DocInv'
    <3> SUFFICES ASSUME NEW q \in Runs
                 PROVE  /\ docs[q] = NoDoc \/ Torn(q) \/ Whole(docs[q], q)
                        /\ ~docs[q].there => \A u \in Triggers : counts'[q][u] = 0
                        /\ ~Torn(q) /\ pin[q] # NoPolicy =>
                             \A u \in Triggers : counts'[q][u] <= pin[q].limit[u]
      BY <1>2, <2>6 DEF DocInv, Torn, Whole, WithinBudget
    <3>1. docs[q] = NoDoc \/ Torn(q) \/ Whole(docs[q], q)
      BY DEF StoryInv, DocInv
    <3>2. ~docs[q].there => \A u \in Triggers : counts'[q][u] = 0
      BY <2>3, <2>5 DEF StoryInv, DocInv
    <3> QED  BY <2>7, <3>1, <3>2
  <2> QED  BY <1>1, <1>5, <2>4, <2>8, ReturnKeeps
<1> QED  BY <1>3, <1>4, <1>5

(* The verifiers look and answer.                                          *)
LEMMA VerifiersKeep ==
    ASSUME StoryInv,
           RunSuccessVerifier \/ ReviewStoryFile \/ \E s \in Stories : ReviewCompletion(s)
    PROVE  StoryInv'
<1>1. CASE RunSuccessVerifier
  <2>1. DecisionFrame /\ UNCHANGED counts /\ \E out \in {"go", "stop"} : Returns(out)
    BY <1>1 DEF RunSuccessVerifier
  <2> QED  BY <2>1, AnswerKeeps
<1>2. CASE ReviewStoryFile
  <2>1. DecisionFrame /\ UNCHANGED counts /\ \E out \in {"verified", "stop"} : Returns(out)
    BY <1>2 DEF ReviewStoryFile
  <2> QED  BY <2>1, AnswerKeeps
<1>3. ASSUME NEW s \in Stories, ReviewCompletion(s) PROVE StoryInv'
  <2>1. call.pc = "decide" /\ DecisionFrame /\ UNCHANGED counts
    BY <1>3 DEF ReviewCompletion
  <2>2. \/ \E out \in {"verified", "stop"} : Returns(out)
        \/ /\ "file" \in Sources[data.contract]
           /\ call' = [call EXCEPT !.pc = "file", !.seen = s]
    BY <1>3 DEF ReviewCompletion
  <2>3. CASE \E out \in {"verified", "stop"} : Returns(out)
    BY <2>1, <2>3, AnswerKeeps
  <2>4. CASE /\ "file" \in Sources[data.contract]
             /\ call' = [call EXCEPT !.pc = "file", !.seen = s]
    <3>1. call \in Calls /\ IsDecision(call) /\ UNCHANGED <<docs, pin>>
      BY <2>1 DEF StoryInv, TypeInv, IsDecision, DecisionFrame
    <3>2. /\ call' \in Calls /\ call'.pc = "file" /\ call'.seen = s
          /\ UNCHANGED <<call.target, call.pol, call.named, call.run, call.out>>
      BY <2>4, <3>1 DEF Calls
    <3>3. LoadedInv' /\ IsDecision(call)'
      BY <2>1, <3>1, <3>2 DEF StoryInv, LoadedInv, IsDecision, Torn
    <3>4. ~during.contract => call'.pol.contract = data.contract
      BY <2>1, <3>2 DEF StoryInv, SpanInv
    <3> QED  BY <2>1, <2>4, <3>1, <3>2, <3>3, <3>4, AdvanceKeeps DEF StoryInv, CallInv, MarkInv
  <2> QED  BY <2>2, <2>3, <2>4
<1> QED  BY <1>1, <1>2, <1>3

\* The deciding commands keep the invariant.
LEMMA DecidingKeeps == ASSUME StoryInv, Deciding PROVE StoryInv'
<1>1. CASE Escalate \/ VerifyStep
  BY <1>1, BeginKeeps DEF Escalate, VerifyStep
<1>2. CASE ResolvePolicyStateFile \/ ReadDoc \/ LoadPolicySnapshot
  BY <1>2, ResolveKeeps, ReadDocKeeps, SnapshotKeeps
<1>3. CASE LoadEffectivePolicy \/ ResolvePaths \/ DecideEscalation
  BY <1>3, EffectiveKeeps, PathsKeep, EscalationKeeps
<1>4. CASE RunSuccessVerifier \/ ReviewStoryFile \/ \E s \in Stories : ReviewCompletion(s)
  BY <1>4, VerifiersKeep
<1> QED  BY <1>1, <1>2, <1>3, <1>4 DEF Deciding

-----------------------------------------------------------------------------
(* What changes from outside.                                              *)

(* An edit touches no command, no marker and no count, and each run keeps   *)
(* its document whole, or as it was.                                       *)
LEMMA EditKeeps ==
    ASSUME StoryInv, Edit, OutsideOK', snaps' \in [Runs -> Policies], docs' \in [Runs -> Docs],
           during' \in Spans, UNCHANGED during.owner,
           \A r \in Runs : docs'[r] = docs[r] \/ (Whole(docs[r], r) /\ Whole(docs'[r], r)),
           SpanInv'
    PROVE  StoryInv'
<1>1. /\ UNCHANGED <<marker, call, beat, counts, pin, active, stale>>
      /\ edits' = edits + 1 /\ edits < MaxEdits
  BY DEF Edit
<1>2. edits' \in 0..MaxEdits /\ edits' # 0
  BY <1>1, StoryAssumption DEF StoryInv, TypeInv
<1>3. TypeInv'
  <2>1. RunOK' /\ HistoryOK'
    BY <1>1 DEF StoryInv, TypeInv, RunOK, HistoryOK
  <2> QED  BY <1>1, <1>2, <2>1, KeepTypes DEF StoryInv, TypeInv
<1>4. CallInv' /\ PinInv'
  BY <1>1 DEF StoryInv, CallInv, CallFree, IsDecision, PinInv
<1>5. \A r \in Runs : /\ (docs'[r] = EmptyDoc) <=> (docs[r] = EmptyDoc)
                      /\ docs[r].there <=> docs'[r].there
  BY Constant DEF Whole
<1>6. DocInv'
  <2> SUFFICES ASSUME NEW r \in Runs
               PROVE  /\ docs'[r] = NoDoc \/ docs'[r] = EmptyDoc \/ Whole(docs'[r], r)
                      /\ ~docs'[r].there => \A t \in Triggers : counts[r][t] = 0
                      /\ docs'[r] # EmptyDoc \/ (call.pc = "write" /\ call.run = r) =>
                           WithinBudget(r)
    BY <1>1 DEF DocInv, Torn, Whole, WithinBudget
  <2> QED  BY <1>5 DEF StoryInv, DocInv, Torn
<1>7. TextInv' /\ LoadedInv'
  <2>1. call.pc \in {"open", "write"} => call.run \in Runs
    BY DEF StoryInv, CallInv
  <2>2. call.target \in Runs \cup {"none"}
    BY DEF StoryInv, TypeInv, Calls
  <2>3. TextInv'
    BY <1>1, <1>5, <2>1 DEF StoryInv, TextInv, Torn, Whole
  <2>4. LoadedInv'
    BY <1>1, <1>5, <2>2 DEF StoryInv, LoadedInv, Torn
  <2> QED  BY <2>3, <2>4
<1>8. SnapInv' /\ MarkInv'
  BY <1>1, <1>2 DEF StoryInv, SnapInv, MarkInv, IsDecision
<1> QED  BY <1>3, <1>4, <1>6, <1>7, <1>8 DEF StoryInv

\* So do the edits of the user and the agent.
LEMMA EditingKeeps == ASSUME StoryInv, Editing PROVE StoryInv'
<1>0. /\ OutsideOK /\ during \in Spans /\ SpanInv
      /\ snaps \in [Runs -> Policies] /\ docs \in [Runs -> Docs]
      /\ data \in [prompts : Hashes, contract : Versions]
      /\ sprint \in StoryStatuses /\ storyFile \in StoryStatuses /\ copies \in 0..2
  BY DEF StoryInv, TypeInv, RunOK, HistoryOK, OutsideOK
<1>1. CASE EditOverride
  <2>1. Edit /\ UNCHANGED <<data, sprint, storyFile, copies, snaps, docs, during, call>>
    BY <1>1 DEF EditOverride, Edit
  <2>2. override' \in Settings /\ env' \in Settings
    BY <1>0, <1>1 DEF EditOverride, OutsideOK, Settings
  <2>3. OutsideOK' /\ SpanInv'
    BY <1>0, <2>1, <2>2 DEF OutsideOK, SpanInv, IsDecision
  <2> QED  BY <1>0, <2>1, <2>3, EditKeeps
<1>2. CASE EditData
  <2>1. /\ Edit /\ UNCHANGED <<override, env, sprint, storyFile, copies, snaps, docs, call>>
    BY <1>2 DEF EditData, Edit
  <2>2. PICK k \in {"prompts", "contract"}, v \in Hashes :
          /\ k = "contract" => v # "none"
          /\ data' = [data EXCEPT ![k] = v]
          /\ during' = [during EXCEPT !.contract = @ \/ (k = "contract" /\ ~CallFree)]
    BY <1>2 DEF EditData
  <2>3. data' \in [prompts : Hashes, contract : Versions]
        /\ (k # "contract" => data'.contract = data.contract)
    BY <1>0, <2>2 DEF Hashes
  <2>4. PICK b \in BOOLEAN : b <=> (during.contract \/ (k = "contract" /\ ~CallFree))
    OBVIOUS
  <2>5. /\ during' = [during EXCEPT !.contract = b]
    BY <1>0, <2>2, <2>4 DEF Spans
  <2>6. /\ during' \in Spans /\ during'.contract = b
        /\ UNCHANGED <<during.owner, during.sprint, during.file>>
    BY <1>0, <2>5 DEF Spans
  <2>7. OutsideOK'
    BY <1>0, <2>1, <2>3 DEF OutsideOK
  <2>8. SpanInv'
    <3>1. ~b /\ ~CallFree => ~during.contract /\ data'.contract = data.contract
      BY <2>3, <2>4
    <3> QED  BY <1>0, <2>1, <2>6, <3>1 DEF SpanInv, IsDecision, CallFree
  <2> QED  BY <1>0, <2>1, <2>6, <2>7, <2>8, EditKeeps
<1>3. CASE AgentsWrite
  <2>1. Edit /\ UNCHANGED <<override, env, data, snaps, docs, call>>
    BY <1>3 DEF AgentsWrite, Edit
  <2>2. CASE copies' = (copies + 1) % 3 /\ UNCHANGED <<sprint, storyFile, during>>
    <3>1. copies' \in 0..2
      BY <1>0, <2>2
    <3>2. OutsideOK' /\ SpanInv'
      BY <1>0, <2>1, <2>2, <3>1 DEF OutsideOK, SpanInv, IsDecision
    <3> QED  BY <1>0, <2>1, <2>2, <3>2, EditKeeps
  <2>3. ASSUME NEW s \in Stories, NEW v \in {"open", "done"},
               sprint' = [sprint EXCEPT ![s] = v],
               during' = [during EXCEPT !.sprint = @ \cup {x \in {s} : v = "done" /\ ~CallFree}],
               UNCHANGED <<storyFile, copies>>
        PROVE  StoryInv'
    <3>1. PICK new \in SUBSET Stories : new = during.sprint \cup {x \in {s} : v = "done" /\ ~CallFree}
      BY <1>0 DEF Spans
    <3>2. /\ during' \in Spans /\ during'.sprint = new
          /\ UNCHANGED <<during.owner, during.contract, during.file>>
      BY <1>0, <2>3, <3>1 DEF Spans
    <3>3. /\ sprint' \in StoryStatuses
          /\ \A x \in Stories : sprint'[x] = IF x = s THEN v ELSE sprint[x]
      BY <1>0, <2>3 DEF StoryStatuses
    <3>4. OutsideOK'
      BY <1>0, <2>1, <2>3, <3>3 DEF OutsideOK
    <3>5. SpanInv'
      <4>1. ASSUME IsDecision(call), NEW x \in Stories, sprint'[x] = "done"
            PROVE  x \in new
        BY <1>0, <3>1, <3>3, <4>1 DEF SpanInv, IsDecision, CallFree
      <4> QED  BY <1>0, <2>1, <2>3, <3>2, <4>1 DEF SpanInv, IsDecision
    <3> QED  BY <1>0, <2>1, <3>2, <3>4, <3>5, EditKeeps
  <2>4. ASSUME NEW s \in Stories, NEW v \in {"open", "done"},
               storyFile' = [storyFile EXCEPT ![s] = v],
               during' = [during EXCEPT !.file = @ \cup {x \in {s} : v = "done" /\ ~CallFree}],
               UNCHANGED <<sprint, copies>>
        PROVE  StoryInv'
    <3>1. PICK new \in SUBSET Stories : new = during.file \cup {x \in {s} : v = "done" /\ ~CallFree}
      BY <1>0 DEF Spans
    <3>2. /\ during' \in Spans /\ during'.file = new
          /\ UNCHANGED <<during.owner, during.contract, during.sprint>>
      BY <1>0, <2>4, <3>1 DEF Spans
    <3>3. /\ storyFile' \in StoryStatuses
          /\ \A x \in Stories : storyFile'[x] = IF x = s THEN v ELSE storyFile[x]
      BY <1>0, <2>4 DEF StoryStatuses
    <3>4. OutsideOK'
      BY <1>0, <2>1, <2>4, <3>3 DEF OutsideOK
    <3>5. SpanInv'
      <4>1. ASSUME IsDecision(call), NEW x \in Stories, storyFile'[x] = "done"
            PROVE  x \in new
        BY <1>0, <3>1, <3>3, <4>1 DEF SpanInv, IsDecision, CallFree
      <4> QED  BY <1>0, <2>1, <2>4, <3>2, <4>1 DEF SpanInv, IsDecision
    <3> QED  BY <1>0, <2>1, <3>2, <3>4, <3>5, EditKeeps
  <2> QED  BY <1>3, <2>2, <2>3, <2>4 DEF AgentsWrite
<1>4. ASSUME NEW r \in Runs, EditRun(r) PROVE StoryInv'
  <2>1. Edit /\ UNCHANGED <<outside, during, call>>
    BY <1>4 DEF EditRun, Edit
  <2>2. OutsideOK' /\ SpanInv'
    BY <1>0, <2>1, KeepTypes DEF SpanInv, IsDecision, outside
  <2>3. CASE /\ UNCHANGED docs
             /\ \E p \in {NoPolicy, [snaps[r] EXCEPT !.limit = [t \in Triggers |-> 9]]} :
                  snaps' = [snaps EXCEPT ![r] = p]
    <3>1. [snaps[r] EXCEPT !.limit = [t \in Triggers |-> 9]] \in Policies
      BY <1>0 DEF Policies
    <3>2. snaps' \in [Runs -> Policies]
      BY ZenonT(60), <1>0, <2>3, <3>1, Constant
    <3> QED  BY <1>0, <2>1, <2>2, <2>3, <3>2, EditKeeps
  <2>4. CASE /\ docs[r].file /\ UNCHANGED snaps
             /\ docs' \in {[docs EXCEPT ![r].hash = NoPolicy],
                           [docs EXCEPT ![r].file = FALSE, ![r].hash = NoPolicy],
                           [docs EXCEPT ![r].legacy = "true"]}
    <3>1. PICK d : /\ docs' = [docs EXCEPT ![r] = d]
                   /\ d \in {[docs[r] EXCEPT !.hash = NoPolicy],
                             [docs[r] EXCEPT !.file = FALSE, !.hash = NoPolicy],
                             [docs[r] EXCEPT !.legacy = "true"]}
      BY <1>0, <2>4
    <3>2. /\ docs[r] \in Docs
          /\ docs[r] = NoDoc \/ docs[r] = EmptyDoc \/ Whole(docs[r], r)
      BY <1>0 DEF StoryInv, DocInv, Torn
    <3>3. Whole(docs[r], r) /\ docs[r].version
      BY <2>4, <3>2, Constant DEF Whole
    <3>4. /\ d \in Docs /\ d.there = docs[r].there /\ d.version = docs[r].version
          /\ d.hash \in {NoPolicy, docs[r].hash}
      BY <3>1, <3>2, Constant DEF Docs
    <3>5. Whole(d, r)
      BY <3>3, <3>4 DEF Whole
    <3>6. docs' \in [Runs -> Docs] /\ docs'[r] = d /\ \A q \in Runs : q # r => docs'[q] = docs[q]
      BY <1>0, <3>1, <3>4
    <3> QED  BY <1>0, <2>1, <2>2, <2>4, <3>3, <3>5, <3>6, EditKeeps
  <2> QED  BY <1>4, <2>3, <2>4 DEF EditRun
<1> QED  BY <1>1, <1>2, <1>3, <1>4 DEF Editing

-----------------------------------------------------------------------------
(* The theorems.                                                           *)

\* Every step keeps it.
LEMMA StoryStep == ASSUME StoryInv, [Next]_vars PROVE StoryInv'
<1>1. CASE Documents
  BY <1>1, BuildKeeps, UpdateKeeps, OpenKeeps, WriteKeeps, KilledKeeps DEF Documents
<1>2. CASE UNCHANGED vars
  <2>1. UNCHANGED <<outside, snaps, docs, marker, beat, active, stale, call, counts, edits, pin,
                    during>>
    BY <1>2 DEF vars, history
  <2>2. MarkOK' /\ MarkInv'
    BY <2>1 DEF StoryInv, TypeInv, MarkOK, MarkInv, IsDecision
  <2> QED  BY <2>1, <2>2, MarkStep
<1> QED  BY <1>1, <1>2, MarkingKeeps, DecidingKeeps, EditingKeeps DEF Next

(* The invariant holds in every state a run of the automator reaches.      *)
THEOREM StoryInvariance == Spec => []StoryInv
  BY InitStory, StoryStep, PTL DEF Spec

(* A run keeps the policy it began with: a document that names a snapshot  *)
(* names the one on disk, and what `escalate` grants stays within the      *)
(* pinned budget, whatever is edited or killed in between.                 *)
THEOREM PolicyPinned == Spec => []PolicyIsPinned
<1>1. ASSUME StoryInv PROVE PolicyIsPinned
  <2>1. TypeOK
    BY <1>1 DEF StoryInv, TypeInv, RunOK, HistoryOK, OutsideOK, Calls, TypeOK
  <2>2. SnapshotBeforeDocument
    BY <1>1 DEF StoryInv, SnapInv, SnapshotBeforeDocument
  <2>3. BudgetIsPinned
    BY <1>1 DEF StoryInv, DocInv, WithinBudget, BudgetIsPinned
  <2> QED  BY <2>1, <2>2, <2>3 DEF PolicyIsPinned
<1> QED  BY <1>1, StoryInvariance, PTL

(* The marker leads the stop hook and the commands without a state file to *)
(* the run it was made for.                                                *)
THEOREM MarkerLeads == Spec => []MarkerLeadsToRun
<1>1. ASSUME StoryInv PROVE MarkerLeadsToRun
  <2>1. MarkerNamesPolicy
    <3> SUFFICES ASSUME call.pc = "decide", ~call.named, during.owner # "unknown"
                 PROVE  /\ during.owner # "none"
                        /\ call.pol.limit \in {pin[during.owner].limit, Bundled}
                        /\ call.pol.limit # pin[during.owner].limit =>
                             pin[during.owner] = NoPolicy \/ Torn(during.owner)
      BY DEF MarkerNamesPolicy
    <3>1. call.target = during.owner /\ call.target # "none"
      BY <1>1 DEF StoryInv, MarkInv
    <3> QED  BY <1>1, <3>1 DEF StoryInv, LoadedInv
  <2>2. StopFollowsRun
    BY <1>1 DEF StoryInv, MarkInv, StopFollowsRun, StopHookBlocks
  <2> QED  BY <2>1, <2>2 DEF MarkerLeadsToRun
<1> QED  BY <1>1, StoryInvariance, PTL

(* A review that was verified was verified by a source that the pinned     *)
(* contract names and that said "done" during the command.                 *)
THEOREM PinnedContract == Spec => VerifiedByPinnedContract
<1>1. ASSUME StoryInv, [Next]_vars, call'.out = "verified", ~CallFree,
             call.named, pin[call.run] # NoPolicy, ~Torn(call.run), ~during.contract
      PROVE  \/ "sprint" \in Sources[pin[call.run].contract] /\ during.sprint # {}
             \/ "file" \in Sources[pin[call.run].contract] /\ during.file # {}
  <2>1. call.out = "none" /\ call.pc # "idle" /\ call \in Calls
    BY <1>1 DEF StoryInv, TypeInv, CallInv, CallFree
  <2>2. ReviewStoryFile \/ \E s \in Stories : ReviewCompletion(s)
    <3>1. \A out \in {"none", "go", "stop"} : ~Returns(out)
      BY <1>1 DEF Returns, Idle
    <3>2. call' # call /\ call' # Idle
      BY <1>1, <2>1 DEF Idle
    <3>3. ~Documents
      BY <1>1, <2>1, <3>1, <3>2
         DEF Documents, BuildSnapshot, UpdateRead, OpenForWriting, WriteText, Killed, Goes,
             CallFree, Calls
    <3>4. ~Marking
      BY <3>2 DEF Marking, MarkerCreate, MarkerRemove, HeartbeatRead, HeartbeatWrite, SetMarker
    <3>5. ~Editing
      BY <3>2 DEF Editing, EditOverride, EditData, AgentsWrite, EditRun, Edit
    <3>6. ~Escalate /\ ~VerifyStep
      BY <1>1 DEF Escalate, VerifyStep, Begin
    <3>7. ~ResolvePolicyStateFile
      BY <1>1, <2>1, <3>1 DEF ResolvePolicyStateFile, Goes, Calls
    <3>8. ~ReadDoc /\ ~LoadPolicySnapshot
      <4>1. ReadDoc => \/ Returns("stop")
                       \/ \E p, q : call' = [call EXCEPT !.pc = p, !.pol = q]
                       \/ \E p, q : call' = [call EXCEPT !.pc = p, !.text = q]
        <5>1. StatePolicyMode(docs[call.target]) \in {"error", "legacy", "snapshot"}
          BY DEF StatePolicyMode
        <5> QED  BY <5>1 DEF ReadDoc
      <4> QED  BY <1>1, <2>1, <3>1, <4>1 DEF LoadPolicySnapshot, Calls
    <3>9. ~LoadEffectivePolicy /\ ~ResolvePaths
      BY <1>1, <2>1, <3>1 DEF LoadEffectivePolicy, ResolvePaths, Calls
    <3>10. ~DecideEscalation /\ ~RunSuccessVerifier
      BY <3>1 DEF DecideEscalation, RunSuccessVerifier
    <3>11. ~UNCHANGED vars
      BY <3>2 DEF vars
    <3> QED  BY <1>1, <3>3, <3>4, <3>5, <3>6, <3>7, <3>8, <3>9, <3>10, <3>11
             DEF Next, Deciding
  <2>3. call.pc \in {"decide", "file"}
    BY <2>2 DEF ReviewStoryFile, ReviewCompletion
  <2>4. pin[call.run].contract = data.contract
    <3>1. call.target = call.run /\ call.run # "none"
      BY <1>1, <2>3 DEF StoryInv, CallInv, IsDecision
    <3>2. call.pol.contract = pin[call.run].contract
      BY <1>1, <2>3, <3>1 DEF StoryInv, LoadedInv
    <3> QED  BY <1>1, <2>3, <3>2 DEF StoryInv, SpanInv
  <2>5. \A s \in Stories : /\ sprint[s] = "done" => during.sprint # {}
                           /\ storyFile[s] = "done" => during.file # {}
    BY <1>1, <2>3 DEF StoryInv, SpanInv, IsDecision
  <2>6. CASE ReviewStoryFile
    <3>1. storyFile[call.seen] = "done" /\ call.pc = "file"
      BY <1>1, <2>6 DEF ReviewStoryFile, Returns, Idle
    <3>2. call.seen \in Stories /\ "file" \in Sources[data.contract]
      BY <1>1, <3>1 DEF StoryInv, CallInv, SpanInv
    <3> QED  BY <2>4, <2>5, <3>1, <3>2
  <2>7. ASSUME NEW s \in Stories, ReviewCompletion(s)
        PROVE  "sprint" \in Sources[data.contract] /\ sprint[s] = "done"
    <3>1. ~Returns("stop")
      BY <1>1 DEF Returns, Idle
    <3>2. call' # [call EXCEPT !.pc = "file", !.seen = s]
      BY <1>1, <2>1 DEF Calls
    <3> QED  BY <2>7, <3>1, <3>2 DEF ReviewCompletion
  <2> QED  BY <2>2, <2>4, <2>5, <2>6, <2>7
<1> QED  BY <1>1, StoryInvariance, PTL DEF Spec, VerifiedByPinnedContract
=============================================================================
