---------------------------- MODULE AgentConfig ----------------------------
(* The agents of the story automator.  The user's agent configuration (JSON *)
(* in one of several spellings) takes two ways to a session: cmd_build_     *)
(* state_doc writes it into the state document, where retro-agent parses it *)
(* again line by line; agents-build resolves it for every story and task    *)
(* and writes an agents file, which agents-resolve reads.  core/            *)
(* agent_config.py holds a second resolver of the same configuration.       *)
EXTENDS Naturals

CONSTANTS
    Tasks,      \* tasks of a session, "retro" among them
    Agents,     \* names of agents
    Entries     \* entries a task may have in a table of the configuration

\* What a key may hold.  "absent": the key is not there; "null" stands for
\* null, none, false and the boolean.
Primaries == {"absent", "", "auto"} \cup Agents
Fallbacks == {"absent", "", "null"} \cup Agents
NoEntry == [there |-> FALSE, primary |-> "absent", fallback |-> "absent"]

ASSUME AgentsAssumption ==
    /\ "retro" \in Tasks
    /\ Agents \cap {"absent", "", "auto", "null", "false", "runtime provider"} = {}
    /\ Entries \subseteq [there : {TRUE}, primary : Primaries, fallback : Fallbacks]

TaskEntry == {NoEntry} \cup Entries

\* The configuration as far as one task at one level of complexity reads it.
\* retro: the legacy retro entry; overrides: whether complexityOverrides is a
\* table; over: its entry for the level; level: the entry of a top-level low,
\* medium or high table.
VARIABLES asked   \* one configuration and the task it is asked for

agentVars == <<asked>>

NotAsked == [pc |-> "idle"]

-----------------------------------------------------------------------------
(* Python's or-chains and the normalisations                                *)

Or(a, b) == IF a \in {"absent", "", "null"} THEN b ELSE a

\* _resolve_primary_agent
ResolvePrimary(raw) == IF raw \in {"absent", "", "auto"} THEN "runtime provider" ELSE raw

\* _resolve_fallback_agent
ResolveFallback(raw) == IF raw \in {"absent", "", "auto", "null"} THEN "false" ELSE raw

\* perTask with the legacy retro entry for a missing one.
Effective(c, t) == IF t = "retro" /\ ~c.entry.there THEN c.retro ELSE c.entry

\* parse_agent_config
ParseAgentConfig(c, t) ==
    [primary  |-> Or(c.defaultPrimary, Or(c.primary, "auto")),
     fallback |-> IF c.defaultFallback # "absent" THEN Or(c.defaultFallback, "null")
                  ELSE Or(c.fallback, "null"),
     entry    |-> Effective(c, t),
     over     |-> IF c.overrides THEN c.over ELSE c.level]

\* An entry over what is there before it: "primary" and "fallback" in entry.
Over(e, p, f) == [primary  |-> IF e.there /\ e.primary # "absent" THEN e.primary ELSE p,
                  fallback |-> IF e.there /\ e.fallback # "absent" THEN e.fallback ELSE f]

\* resolve_agent
ResolveAgent(p) ==
    LET byTask  == Over(p.entry, p.primary, p.fallback)
        byLevel == Over(p.over, byTask.primary, byTask.fallback)
    IN  [primary |-> ResolvePrimary(byLevel.primary), fallback |-> ResolveFallback(byLevel.fallback)]

-----------------------------------------------------------------------------
(* The way through the state document                                       *)

\* cmd_build_state_doc: the agentConfig block.  A missing default is written
\* as "auto" and false; a level table of the legacy form is left out.
AgentBlock(c, t) ==
    [defaultPrimary  |-> IF c.defaultPrimary = "absent" THEN Or(c.primary, "auto")
                         ELSE c.defaultPrimary,
     defaultFallback |-> LET f == IF c.defaultFallback = "absent" THEN c.fallback
                                  ELSE c.defaultFallback
                         IN  IF f = "absent" THEN "null" ELSE f,
     entry           |-> Effective(c, t),
     over            |-> IF c.overrides THEN c.over ELSE NoEntry]

\* Fault: keys six columns in are taken for keys of the level above.
LoadFromState_NoTask(b) ==
    [defaultPrimary |-> b.defaultPrimary, defaultFallback |-> b.defaultFallback,
     primary |-> "absent", fallback |-> "absent", retro |-> NoEntry, level |-> NoEntry,
     entry |-> NoEntry, over |-> b.over, overrides |-> b.over.there]

\* _load_agent_config_from_state: the block, line by line, as a configuration.
LoadFromState(b) ==
    [defaultPrimary |-> b.defaultPrimary, defaultFallback |-> b.defaultFallback,
     primary |-> "absent", fallback |-> "absent", retro |-> NoEntry, level |-> NoEntry,
     entry |-> b.entry, over |-> b.over, overrides |-> b.over.there]

\* retro-agent.  Without the block everything is a default.
RetroAgent(b) == ResolveAgent(ParseAgentConfig(LoadFromState(b), "retro"))

-----------------------------------------------------------------------------
(* The way through the agents file                                          *)

\* agents-build: the resolved pair; a fallback "false" becomes JSON's false.
PlanEntry(r) == [r EXCEPT !.fallback = IF @ = "false" THEN "null" ELSE @]

\* agents-resolve reads the pair of the story and task.
AgentsResolve(s) == [s EXCEPT !.fallback = IF @ = "null" THEN "false" ELSE @]

-----------------------------------------------------------------------------
(* core/agent_config.py                                                     *)

\* parse_agent_config_json: _parse_task_entry keeps a missing primary as "",
\* and the level tables count for every level the overrides do not have.
ParseJson(c, t) ==
    LET entry(e) == [e EXCEPT !.primary = IF @ = "absent" THEN "" ELSE @] IN
    [primary  |-> Or(c.defaultPrimary, Or(c.primary, "auto")),
     fallback |-> IF c.defaultFallback # "absent" THEN Or(c.defaultFallback, "null")
                  ELSE Or(c.fallback, "null"),
     entry    |-> entry(Effective(c, t)),
     over     |-> entry(IF c.overrides /\ c.over.there THEN c.over ELSE c.level)]

\* resolve_agent_for_task: an empty primary keeps what was there.
ResolveAgentForTask(p) ==
    LET over(e, q, f) == [primary  |-> IF e.there /\ e.primary # "" THEN e.primary ELSE q,
                          fallback |-> IF e.there /\ e.fallback # "absent" THEN e.fallback ELSE f]
        byTask  == over(p.entry, p.primary, p.fallback)
        byLevel == over(p.over, byTask.primary, byTask.fallback)
    IN  [primary |-> ResolvePrimary(byLevel.primary), fallback |-> ResolveFallback(byLevel.fallback)]

-----------------------------------------------------------------------------
\* One configuration is asked for one task.
AskAgents ==
    /\ asked.pc = "idle"
    /\ \E t \in Tasks, c \in [defaultPrimary : Primaries, primary : {"absent", ""} \cup Agents,
                              defaultFallback : Fallbacks, fallback : {"absent"} \cup Agents,
                              entry : TaskEntry, retro : TaskEntry, overrides : BOOLEAN,
                              over : TaskEntry, level : TaskEntry] :
         /\ ~c.overrides => c.over = NoEntry
         /\ asked' = [pc |-> "asked", task |-> t, config |-> c]

AgentsInit == asked = NotAsked
AgentsNext == AskAgents
AgentsSpec == AgentsInit /\ [][AgentsNext]_agentVars

Answer == ResolveAgent(ParseAgentConfig(asked.config, asked.task))

(* The retro agent read back from the state document is the one the user's  *)
(* configuration names.  Two legacy spellings do not survive the document:  *)
(* a top-level level table, and a primary beside an empty defaultPrimary.   *)
RetroSurvivesDocument ==
    asked.pc = "asked" /\ asked.task = "retro" =>
        LET c == asked.config IN
        (c.overrides \/ ~c.level.there) /\ (c.defaultPrimary = "" => c.primary \in {"absent", ""})
        => RetroAgent(AgentBlock(c, "retro")) = Answer

(* agents-resolve answers what resolving the configuration itself would,    *)
(* and never an unresolved name: the provider stands for every default and  *)
(* "no fallback" has one spelling.                                          *)
PlanSurvivesFile ==
    asked.pc = "asked" =>
        /\ AgentsResolve(PlanEntry(Answer)) = Answer
        /\ AgentsResolve(PlanEntry(Answer)) \in [primary : Agents \cup {"runtime provider"},
                                                 fallback : Agents \cup {"false"}]

(* The two resolvers agree on every configuration that spells no entry's    *)
(* primary as the empty text and has no level table beside overrides.       *)
ResolversAgree ==
    asked.pc = "asked" =>
        LET c == asked.config IN
        /\ \A e \in {c.entry, c.retro, c.over, c.level} : e.there => e.primary # ""
        /\ c.overrides => ~c.level.there
        => ResolveAgentForTask(ParseJson(c, asked.task)) = Answer

(* The agents planned for a run are the agents its tasks are given, by      *)
(* whichever of the two resolvers.                                          *)
AgentsAsPlanned == RetroSurvivesDocument /\ PlanSurvivesFile /\ ResolversAgree
=============================================================================
