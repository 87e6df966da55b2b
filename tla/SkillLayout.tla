---------------------------- MODULE SkillLayout ----------------------------
(* Where the story automator finds itself (core/runtime_layout.py) and      *)
(* which agent its commands choose (commands/tmux.py).  The skill may be    *)
(* installed below several directories at once, each command works out the  *)
(* root, the provider and the place of the active marker anew, and the stop *)
(* hook finds a running orchestration only if it works out the same place.  *)
EXTENDS Naturals, Sequences

CONSTANTS
    Roots,        \* directories that hold skills, the outside ones included
    SearchOrder,  \* the fixed candidates, in the order the code lists them
    Local,        \* roots below the project, in .agents, .claude or .codex
    ProviderOf,   \* [Roots -> {"claude", "codex", ""}], read off the path
    MaxInstalls   \* bound: installations and removals during a run

ASSUME LayoutAssumption ==
    /\ "" \notin Roots /\ Local \subseteq Roots
    /\ SearchOrder \in Seq(Roots)
    /\ ProviderOf \in [Roots -> {"claude", "codex", ""}]
    /\ \A r \in Local : ProviderOf[r] # ""
    /\ MaxInstalls \in Nat

VARIABLES
    layout,      \* the environment of the commands; constant during a run
    installed,   \* roots the skill is present below
    installs,    \* installations and removals so far
    markers      \* places that hold an active marker

layoutVars == <<layout, installed, installs, markers>>

\* explicit: BMAD_SKILLS_ROOT; current: the root the running code lies below;
\* provider: BMAD_RUNTIME_PROVIDER; override: whether a variable names the
\* marker itself.
Layouts == [explicit : Roots \cup {""}, current : {r \in Roots : ProviderOf[r] # ""} \cup {""},
            provider : {"claude", "codex", ""}, override : BOOLEAN]

-----------------------------------------------------------------------------
(* The candidates and the root                                              *)

Named(r) == IF r = "" THEN <<>> ELSE <<r>>

\* Fault: the project's directories come before the code's own.
CandidateSkillsRoots_CurrentLast == Named(layout.explicit) \o SearchOrder \o Named(layout.current)

\* candidate_skills_roots; repetitions change no search for a first hit.
CandidateSkillsRoots == Named(layout.explicit) \o Named(layout.current) \o SearchOrder

\* resolve_skills_root for the automator's own skill: the first candidate it
\* is present below; the explicit root counts even without it.
ResolveSkillsRoot ==
    LET roots == CandidateSkillsRoots
        hits  == {i \in DOMAIN roots : roots[i] \in installed \/ roots[i] = layout.explicit}
    IN  IF hits = {} THEN "claude" ELSE roots[CHOOSE i \in hits : \A j \in hits : i <= j]

\* runtime_provider: the variable, the explicit root's path, the path of the
\* code, the project's directories.
RuntimeProvider ==
    LET by(r) == IF r = "" THEN "" ELSE ProviderOf[r] IN
    IF layout.provider # "" THEN layout.provider
    ELSE IF by(layout.explicit) # "" THEN by(layout.explicit)
    ELSE IF by(layout.current) # "" THEN by(layout.current)
    ELSE IF installed \cap {"agents", "codex"} # {} THEN "codex" ELSE "claude"

\* active_marker_path: beside the skills of a root below the project, if the
\* skill is there or the root was named; else the provider's place.
ActiveMarkerPath ==
    LET root == ResolveSkillsRoot IN
    IF layout.override THEN "named"
    ELSE IF root \in Local /\ (root \in installed \/ root \in {layout.explicit, layout.current})
    THEN root
    ELSE IF RuntimeProvider = "codex" THEN "agents" ELSE "claude"

-----------------------------------------------------------------------------
(* The agent of a command                                                   *)

\* _infer_agent_from_command: the program's name holds an agent's.
InferAgent(command) == IF command \in {"claude", "codex"} THEN command ELSE ""

\* _raw_agent_selection from AI_AGENT and AI_COMMAND.
RawAgentSelection(agent, command) ==
    CASE agent = "" /\ InferAgent(command) # "" -> InferAgent(command)
      [] agent \in {"claude", "codex"} -> agent
      [] OTHER -> "auto"

\* _resolve_agent_selection
ResolveAgentSelection(choice) == IF choice \in {"", "auto"} THEN RuntimeProvider ELSE choice

\* The agent of spawn (its flag "none": not given).
SpawnAgent(agent, command, flag) ==
    ResolveAgentSelection(IF flag = "none" THEN RawAgentSelection(agent, command) ELSE flag)

\* The agent of monitor-session, which decides how the screen is read and
\* how long the monitor waits.
MonitorAgent(agent, command, flag) ==
    ResolveAgentSelection(IF flag = "none" THEN RawAgentSelection(agent, command) ELSE flag)

\* The agent of build-cmd; a blank flag was refused before.
BuildAgent(agent, command, flag) ==
    ResolveAgentSelection(IF flag \in {"none", ""} THEN RawAgentSelection(agent, command) ELSE flag)

\* The program of the command build-cmd prints.
BuildProgram(agent, command, flag) ==
    IF command # "" /\ agent = "" THEN command ELSE BuildAgent(agent, command, flag)

-----------------------------------------------------------------------------
LayoutInit ==
    /\ layout \in Layouts
    /\ installed \in {S \in SUBSET Roots : layout.current # "" => layout.current \in S}
    /\ installs = 0
    /\ markers = {}

\* The skill is installed or removed; the copy that runs stays.
InstallSkill(r) ==
    /\ installs < MaxInstalls
    /\ r # layout.current
    /\ installed' = IF r \in installed THEN installed \ {r} ELSE installed \cup {r}
    /\ installs' = installs + 1
    /\ UNCHANGED <<layout, markers>>

\* marker create
CreateMarker ==
    /\ markers' = markers \cup {ActiveMarkerPath}
    /\ UNCHANGED <<layout, installed, installs>>

\* marker remove
RemoveMarker ==
    /\ markers' = markers \ {ActiveMarkerPath}
    /\ UNCHANGED <<layout, installed, installs>>

LayoutNext == (\E r \in Roots : InstallSkill(r)) \/ CreateMarker \/ RemoveMarker
LayoutSpec == LayoutInit /\ [][LayoutNext]_layoutVars

-----------------------------------------------------------------------------
(* "keeps the hook and orchestrator looking at the same marker": for        *)
(* commands that run from an installed copy, one place serves the whole     *)
(* run, whatever else is installed or removed meanwhile, so a marker is     *)
(* found and removed where it was created and none is left behind.          *)
OneMarkerPlace == layout.current # "" => markers \subseteq {ActiveMarkerPath}

(* While a run is marked, commands of one environment and one --agent flag  *)
(* mean the same agent: the monitor reads the screen of the agent that was  *)
(* spawned, and without a flag the program that build-cmd starts is that    *)
(* agent's (unless AI_COMMAND names a program of neither).                  *)
AgentsAgree ==
    markers # {} =>
    \A agent \in {"", "claude", "codex", "auto"}, command \in {"", "claude", "codex", "other"},
       flag \in {"none", "claude", "codex", "auto"} :
        /\ SpawnAgent(agent, command, flag) = MonitorAgent(agent, command, flag)
        /\ SpawnAgent(agent, command, flag) = BuildAgent(agent, command, flag)
        /\ flag = "none" =>
             BuildProgram(agent, command, flag) \in {"other", MonitorAgent(agent, command, flag)}

(* All commands of a run settle on one marker and one agent, whatever is    *)
(* installed in the meantime.                                               *)
LayoutAgrees == OneMarkerPlace /\ AgentsAgree
=============================================================================
