------------------------------ MODULE MCTools ------------------------------
(* The repository's other tools: module setup and building, CI gates, the  *)
(* scanners and resolvers of the skills.                                    *)
(* They share no state, so one run checks them side by side: `tool` says    *)
(* which one this behaviour is about, the others rest in an initial state.  *)
(* Every behaviour of each one alone is a behaviour of the sum.             *)
EXTENDS SetupProperties, StandaloneBuild, Sanctum, BenchGate,
        FileAudit, TriggerScan, ConfigLayers, SkillScan

VARIABLE tool

Tools == {"setup", "build", "standalone", "sanctum", "bench", "audit", "trigger",
          "layers", "sources", "scan"}

-----------------------------------------------------------------------------
(* Constants                                                                *)

\* Help files of no, one or two rows.
HelpFiles == {{}} \cup {{r, q} : r, q \in HelpRow}

NoBaseline == [state |-> "missing", p99 |-> [s \in Shapes |-> 0], budget |-> 0, ratio |-> -1]
BenchBaselines ==
    {NoBaseline} \cup
    {[state |-> "ok", p99 |-> [s \in Shapes |-> b], budget |-> c, ratio |-> r] :
        b \in {0, 2}, c \in {0, 3}, r \in {-1, 150}}

\* What lies below a folder of the File List.
BelowFolder == [d \in ListedFolders |-> {"docs/a"}]

\* Streams of a claude session: the skill is called, a file is read, an answer
\* names it in pieces that arrive together or apart, or not at all; a message
\* calls two tools.
SessionStreams == {
    <<"start Skill", "half 1", "half 2", "stop", "message with", "message stop", "result">>,
    <<"start Read", "half 0", "stop", "message without", "message stop", "result">>,
    <<"start Read", "half 1", "half 0", "stop", "message without", "result">>,
    <<"start Skill", "half 1", "half 2">>,
    <<"start other", "stop", "message without", "message stop">>,
    <<"start Skill", "half 1", "half 2", "stop", "start other", "stop", "message with", "result">>,
    <<"text", "stop", "message without", "start Skill", "half 1", "half 2", "stop",
      "message with">>}

\* Two files of one name in different folders, and what the endings cut off.
FileNameOf == [f \in Sources |-> IF f = "b/x" THEN "x" ELSE f]
NameBase ==
    [n \in {"x", "x-review", "x-review-appendix", "x-appendix", "y-review"} |->
        CASE n \in {"x", "x-review", "x-appendix"} -> "x"
          [] n = "x-review-appendix" -> "x-review"
          [] OTHER -> "y"]

-----------------------------------------------------------------------------
ToolsInit ==
    /\ tool \in Tools
    /\ StandaloneInit /\ LayersInit /\ SourcesInit /\ ScanInit
    /\ TriggerInit /\ (tool # "trigger" => stream = CHOOSE s \in Streams : TRUE)
    /\ AuditInit /\ (tool # "audit" => ~section /\ ~base /\ ignore = {})
    /\ Init /\ (config.nested = Blank \/ \A k \in Core : config.nested[k] # "")
    /\ (tool # "setup" =>
         config.nested = Blank /\ \A d \in Dirs : ~legacy[d].there /\ dirs[d] = {})
    /\ BuildInit /\ (tool # "build" => help = {} /\ \A f \in BuildFiles : setup[f] = "")
    /\ BenchInit /\ (tool # "bench" =>
         kind = "shim" /\ baseline = NoBaseline /\ summary = NoSummary /\ attempt1 = NoSummary)
    /\ SanctumInit /\ (tool # "sanctum" =>
         bundle = [references |-> {}, templates |-> {}, listed |-> {}, script |-> FALSE,
                   sound |-> FALSE, updates |-> 0])

\* Every component but `t` rests.
OthersRest(t) ==
    /\ UNCHANGED tool
    /\ (t # "setup" => UNCHANGED vars) /\ (t # "build" => UNCHANGED buildVars)
    /\ (t # "standalone" => UNCHANGED standaloneVars)
    /\ (t # "sanctum" => UNCHANGED sanctumVars) /\ (t # "bench" => UNCHANGED benchVars)
    /\ (t # "audit" => UNCHANGED auditVars) /\ (t # "trigger" => UNCHANGED triggerVars)
    /\ (t # "layers" => UNCHANGED layerVars) /\ (t # "sources" => UNCHANGED sourceVars)
    /\ (t # "scan" => UNCHANGED scanVars)

ToolsNext ==
    \/ tool = "setup" /\ Next /\ OthersRest("setup")
    \/ tool = "build" /\ BuildNext /\ OthersRest("build")
    \/ tool = "standalone" /\ StandaloneNext /\ OthersRest("standalone")
    \/ tool = "sanctum" /\ SanctumNext /\ OthersRest("sanctum")
    \/ tool = "bench" /\ BenchNext /\ OthersRest("bench")
    \/ tool = "audit" /\ AuditNext /\ OthersRest("audit")
    \/ tool = "trigger" /\ TriggerNext /\ OthersRest("trigger")
    \/ tool = "layers" /\ LayersNext /\ OthersRest("layers")
    \/ tool = "sources" /\ SourcesNext /\ OthersRest("sources")
    \/ tool = "scan" /\ ScanNext /\ OthersRest("scan")

toolsVars == <<tool, vars, buildVars, standaloneVars, sanctumVars, benchVars, auditVars,
               triggerVars, layerVars, sourceVars, scanVars>>

ToolsSpec == ToolsInit /\ [][ToolsNext]_toolsVars
=============================================================================
