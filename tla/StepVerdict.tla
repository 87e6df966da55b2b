---------------------------- MODULE StepVerdict ----------------------------
(* Four verdicts of the story automator on what a session left behind:     *)
(* the JSON a sub-agent makes of its output (parse-output), the review      *)
(* contract that says which status counts as done (success_verifiers.py),   *)
(* the count of story files (validate-story-creation), and the verifier of  *)
(* a step, asked by monitor-session and by verify-step.                     *)
EXTENDS Integers, FiniteSets

CONSTANTS
    SchemaKeys,   \* keys of a parse schema
    StatusTexts,     \* status texts; "" is a blank one
    MaxFiles      \* bound: story files

\* No contract lists the status "unknown", which no story has.
ASSUME VerdictAssumption ==
    "" \in StatusTexts /\ "unknown" \notin StatusTexts /\ MaxFiles \in Nat

VARIABLE case   \* what is being judged and the verdict

verdictVars == <<case>>

-----------------------------------------------------------------------------
(* parse-output                                                             *)

Rules == {"integer", "true|false", "path or null", "a|b", "text", "invalid"}
Leaves == {"int", "bool", "null", "blank", "a", "word"}

\* A schema or a payload: a leaf, or a table of keys.  Depth two shows nesting.
Leaf(x) == [leaf |-> TRUE, value |-> x, keys |-> <<>>]
Table(f) == [leaf |-> FALSE, value |-> "", keys |-> f]

\* The rules of _matches_schema for a schema that is a text; a schema that is
\* neither a table nor a text matches nothing.
MatchesRule(v, rule) ==
    CASE rule = "integer" -> v = "int"
      [] rule = "true|false" -> v = "bool"
      [] rule = "path or null" -> v \in {"null", "a", "word"}
      [] rule = "a|b" -> v = "a"
      [] rule = "text" -> v \in {"a", "word"}
      [] OTHER -> FALSE

\* One level of _matches_schema, which calls itself on the values of a table.
MatchesLevel(payload, schema, Itself(_, _)) ==
    IF schema.leaf THEN payload.leaf /\ MatchesRule(payload.value, schema.value)
    ELSE /\ ~payload.leaf
         /\ \A k \in DOMAIN schema.keys :
              k \in DOMAIN payload.keys /\ Itself(payload.keys[k], schema.keys[k])

\* _matches_schema; the schemas below hold tables of tables of rules.
MatchesText(payload, schema) ==
    schema.leaf /\ payload.leaf /\ MatchesRule(payload.value, schema.value)
MatchesValue(payload, schema) == MatchesLevel(payload, schema, MatchesText)
MatchesSchema(payload, schema) == MatchesLevel(payload, schema, MatchesValue)

\* parse_output_action: the output is read, the contract loaded, the sub-agent
\* called; each may fail, and the answer must hold the required keys and fit.
ParseOutput(c) ==
    IF c.output = "missing" THEN "output file not found or empty"
    ELSE IF c.contract = "invalid" THEN "parse_contract_invalid"
    ELSE CASE c.agent = "timed out" -> "sub-agent call timed out"
           [] c.agent = "failed" -> "sub-agent call failed"
           [] c.agent = "no json" -> "sub-agent returned invalid json"
           [] OTHER -> IF /\ ~c.payload.leaf
                          /\ c.required \subseteq DOMAIN c.payload.keys
                          /\ MatchesSchema(c.payload, c.schema)
                       THEN "ok" ELSE "sub-agent returned invalid json"

\* One schema key is a table itself.
AskParse ==
    /\ case.pc = "idle"
    /\ \E o \in {"missing", "there"}, c \in {"invalid", "loaded"},
          a \in {"timed out", "failed", "no json", "answered"},
          r \in SUBSET SchemaKeys, rule, deep \in Rules, s \in SUBSET SchemaKeys,
          v, w \in Leaves, shape \in {"leaf", "flat", "nested"} :
         LET schema == Table([k \in SchemaKeys |-> IF k \in s THEN Table([x \in {"in"} |-> Leaf(deep)])
                                                   ELSE Leaf(rule)])
             payload == CASE shape = "leaf" -> Leaf(v)
                          [] shape = "flat" -> Table([k \in SchemaKeys |-> Leaf(v)])
                          [] OTHER -> Table([k \in s \cup r |->
                                        IF k \in s THEN Table([x \in {"in"} |-> Leaf(w)]) ELSE Leaf(v)])
             q == [output |-> o, contract |-> c, agent |-> a, required |-> r, schema |-> schema,
                   payload |-> payload]
         IN  case' = [pc |-> "parsed", ask |-> q, verdict |-> ParseOutput(q)]

-----------------------------------------------------------------------------
(* The review contract                                                      *)

\* A layer: for doneValues and sourceOrder, what it says ("absent" if nothing).
NoLayer == [done |-> {"absent"}, sources |-> {"absent"}]
Layer == [done : {{"absent"}} \cup SUBSET StatusTexts,
          sources : {{"absent"}} \cup SUBSET {"", "sprint", "story", "other"}]
Default == [done |-> {"done"}, sources |-> {"sprint", "story"}]

\* _sanitize_string_list
Sanitize(S) == S \ {""}

\* _load_review_contract: the defaults, the file, the inline keys.
LoadReviewContract(file, inline) ==
    LET pick(f) == IF inline[f] # {"absent"} THEN inline[f]
                   ELSE IF file[f] # {"absent"} THEN file[f] ELSE Default[f]
    IN  [done |-> pick("done"), sources |-> pick("sources")]

\* _validate_review_contract
ContractInvalid(c) ==
    \/ Sanitize(c.done) = {} \/ Sanitize(c.sources) = {}
    \/ ~(Sanitize(c.sources) \subseteq {"sprint", "story"})

\* review_completion, for a story whose sprint line and file say these.
ReviewVerified(c, sprint, story) ==
    /\ ~ContractInvalid(c)
    /\ \/ "sprint" \in c.sources /\ sprint \in Sanitize(c.done)
       \/ "story" \in c.sources /\ story \in Sanitize(c.done)

AskReview ==
    /\ case.pc = "idle"
    /\ \E f, i \in Layer, sp \in (StatusTexts \ {""}) \cup {"unknown"}, st \in StatusTexts :
         case' = [pc |-> "reviewed", sprint |-> sp, story |-> st, file |-> f, inline |-> i,
                  verdict |-> IF ReviewVerified(LoadReviewContract(f, i), sp, st)
                              THEN "ok" ELSE "refused"]

-----------------------------------------------------------------------------
(* validate-story-creation                                                  *)

\* The session and others create and delete files of the story between the
\* count before, the count after and the check.
CountBefore ==
    /\ case.pc = "idle"
    /\ \E n \in 0 .. MaxFiles : case' = [pc |-> "session", before |-> n, count |-> n]

FilesChange ==
    /\ case.pc \in {"session", "counted"}
    /\ \E n \in 0 .. MaxFiles : n # case.count /\ case' = [case EXCEPT !.count = n]

CountAfter ==
    /\ case.pc = "session"
    /\ case' = [pc |-> "counted", before |-> case.before, after |-> case.count, count |-> case.count]

\* build_check_response: the counts decide if both are given, the artifact
\* verifier otherwise; an argument that is no number, one count alone, a
\* contract that fails to load, or an artifacts directory is an error.
CheckVerdict(given, contract, expected) ==
    /\ contract = "ok"
    /\ CASE given = "both" -> case.after - case.before = expected
         [] given = "none" -> case.count = expected
         [] OTHER -> FALSE

CreationCheck ==
    /\ case.pc = "counted"
    /\ \E g \in {"both", "none", "one", "no number", "artifacts dir"}, c \in {"ok", "broken"},
          e \in 0 .. MaxFiles :
         case' = [pc |-> "checked", before |-> case.before, after |-> case.after,
                  count |-> case.count, given |-> g, contract |-> c, expected |-> e,
                  verdict |-> IF CheckVerdict(g, c, e) THEN "ok" ELSE "escalate"]

-----------------------------------------------------------------------------
(* The same verifiers, asked by the monitor of a session and by hand        *)

Verifiers == {"session_exit", "create_story_artifact", "review_completion", "epic_complete"}

\* What a verifier returns or raises.
Outcomes == {"verified", "not verified", "policy error", "no such file", "directory", "bad value"}

\* run_success_verifier: an unknown name is a policy error; session_exit has
\* nothing to look at.
VerifierOutcome(name, outcome) ==
    CASE name = "session_exit" -> "verified"
      [] name \in Verifiers \ {"session_exit"} -> outcome
      [] OTHER -> "policy error"

\* Fault: a contract that does not load leaves nothing to verify.
MonitorVerdict_NoContract(contract, name, key, outcome) ==
    CASE contract # "ok" \/ name = "" -> "completed"
      [] OTHER -> IF VerifierOutcome(name, outcome) = "verified" THEN "completed" ELSE "incomplete"

\* _verify_monitor_completion of a completed session; what it does not catch
\* ends the monitor without a report.
MonitorVerdict(contract, name, key, outcome) ==
    IF \/ contract # "ok" \/ name = ""
       \/ name \in Verifiers \ {"session_exit"} /\ ~key
    THEN "incomplete"
    ELSE CASE VerifierOutcome(name, outcome) = "verified" -> "completed"
           [] VerifierOutcome(name, outcome) = "bad value" -> "raised"
           [] OTHER -> "incomplete"

\* _verify_step: exit code 0 with the verifier's answer, 1 with an error; a
\* directory where a file should be is not caught.
StepAnswer(contract, name, outcome) ==
    IF contract # "ok" \/ name = "" THEN "error"
    ELSE CASE VerifierOutcome(name, outcome) \in {"verified", "not verified"} ->
                VerifierOutcome(name, outcome)
           [] VerifierOutcome(name, outcome) = "directory" -> "raised"
           [] OTHER -> "error"

AskVerified ==
    /\ case.pc = "idle"
    /\ \E c \in {"ok", "broken"}, v \in Verifiers \cup {"", "unknown"}, k \in BOOLEAN, o \in Outcomes :
         /\ ~k => o # "verified"
         /\ case' = [pc |-> "monitored", key |-> k, monitor |-> MonitorVerdict(c, v, k, o),
                     verdict |-> StepAnswer(c, v, o)]

VerdictInit == case = [pc |-> "idle"]
VerdictNext == AskParse \/ AskReview \/ AskVerified \/ CountBefore \/ FilesChange \/ CountAfter \/ CreationCheck
VerdictSpec == VerdictInit /\ [][VerdictNext]_verdictVars

-----------------------------------------------------------------------------
(* A parsed answer that is passed on has what its consumers read: every     *)
(* key the schema names, at every depth, with a value of the kind its rule  *)
(* names, and it came from a sub-agent that neither failed nor timed out.   *)
AnswerIsUsable ==
    case.pc = "parsed" /\ case.verdict = "ok" =>
        LET fits(x, r) == CASE r = "integer" -> x \notin Leaves \ {"int"}
                            [] r = "true|false" -> x = "bool"
                            [] r = "path or null" -> x \in Leaves \ {"int", "bool", "blank"}
                            [] r = "a|b" -> x = "a"
                            [] r = "text" -> x \in Leaves \ {"int", "bool", "blank", "null"}
                            [] OTHER -> FALSE
            s == case.ask.schema.keys
            p == case.ask.payload.keys
        IN  /\ case.ask.agent = "answered" /\ case.ask.output = "there"
            /\ (DOMAIN s) \cup case.ask.required \subseteq DOMAIN p
            /\ \A k \in DOMAIN s :
                 IF s[k].leaf THEN p[k].leaf /\ fits(p[k].value, s[k].value)
                 ELSE ~p[k].leaf /\ p[k].keys["in"].leaf
                      /\ fits(p[k].keys["in"].value, s[k].keys["in"].value)

(* A review counts as complete only by a status somebody wrote: a story     *)
(* file without a status passes under no contract, whatever its layers.     *)
BlankNeverDone ==
    case.pc = "reviewed" /\ case.verdict = "ok" =>
        case.sprint # "unknown" \/ case.story # ""

(* The monitor and verify-step agree: a session is reported as completed    *)
(* exactly when verify-step says verified, whatever either of them catches  *)
(* on the way; an error never completes a step.                             *)
MonitorAgrees ==
    case.pc = "monitored" => (case.monitor = "completed" <=> case.verdict = "verified")

(* "proceed" after a session: exactly as many files as expected came since  *)
(* the count before it, or are there now; never on an error, and a deletion *)
(* is never taken for a creation.                                           *)
ProceedIsEarned ==
    case.pc = "checked" /\ case.verdict = "ok" =>
        /\ case.contract = "ok" /\ case.given \in {"both", "none"}
        /\ case.given = "both" => case.after >= case.before
        /\ IF case.given = "both" THEN case.after = case.before + case.expected
           ELSE case.count = case.expected

(* A step goes on only on an answer that is well-formed and verified, with  *)
(* either of the commands that verify.                                      *)
VerdictIsEarned == AnswerIsUsable /\ BlankNeverDone /\ ProceedIsEarned /\ MonitorAgrees
=============================================================================
