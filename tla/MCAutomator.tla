---------------------------- MODULE MCAutomator ----------------------------
(* The story automator's commands and readers beside the run itself.  They  *)
(* share no state, so one run checks them side by side: `tool` says which   *)
(* one this behaviour is about, the others rest in an initial state.  Every *)
(* behaviour of each one alone is a behaviour of the sum.                   *)
EXTENDS StopHooks, AgentConfig, AgentPresets, StoryKeys, StepVerdict,
        SkillLayout, EpicBook, StateDoc, TLC

VARIABLE tool

Tools == {"hooks", "agents", "presets", "keys", "verdict", "layout", "book", "doc"}

-----------------------------------------------------------------------------
(* Constants                                                                *)

\* Task entries of a state document: a primary alone, blanks, one of them.
TaskEntries ==
    {[there |-> TRUE, primary |-> p[1], fallback |-> p[2]] :
        p \in {<<"codex", "absent">>, <<"", "null">>, <<"absent", "codex">>, <<"auto", "">>}}

LowerCase == ("a" :> "a") @@ ("A" :> "a") @@ ("b" :> "b")

\* Which numbers are part of another's digits.
WithinDigits == {<<1, 1>>, <<2, 2>>, <<10, 10>>, <<1, 10>>}

RootOrder == <<"agents", "claude", "codex", "home codex", "home claude">>
Provider ==
    [r \in Roots |-> CASE r \in {"agents", "codex", "home codex"} -> "codex"
                       [] r \in {"claude", "home claude"} -> "claude"
                       [] OTHER -> ""]

TwoStories == {<<1, 2>>, <<1, 10>>}
ScoreRules ==
    [ac1 |-> 1, ac2 |-> 2, acScore1 |-> 1, acScore2 |-> 2, depScore |-> 2, words |-> 2,
     wordScore |-> 1, hotScore |-> 1, easyScore |-> -2, low |-> 1, medium |-> 3]

\* A value with the mark after some text, and one that starts with it.
CutTexts == ("t---u" :> "t") @@ ("---" :> "")

-----------------------------------------------------------------------------
AutomatorInit ==
    /\ tool \in Tools
    /\ HooksInit /\ (tool # "hooks" => files = [f \in Files |-> Absent])
    /\ AgentsInit /\ PresetsInit /\ KeysInit /\ VerdictInit /\ BookInit /\ DocInit
    /\ LayoutInit /\ (tool # "layout" =>
         /\ layout = [explicit |-> "", current |-> "", provider |-> "", override |-> FALSE]
         /\ installed = {})

\* Every component but `t` rests.
OthersRest(t) ==
    /\ UNCHANGED tool
    /\ (t # "hooks" => UNCHANGED hookVars) /\ (t # "agents" => UNCHANGED agentVars)
    /\ (t # "presets" => UNCHANGED presetVars) /\ (t # "keys" => UNCHANGED keyVars)
    /\ (t # "verdict" => UNCHANGED verdictVars) /\ (t # "layout" => UNCHANGED layoutVars)
    /\ (t # "book" => UNCHANGED bookVars) /\ (t # "doc" => UNCHANGED docVars)

AutomatorNext ==
    \/ tool = "hooks" /\ HooksNext /\ OthersRest("hooks")
    \/ tool = "agents" /\ AgentsNext /\ OthersRest("agents")
    \/ tool = "presets" /\ PresetsNext /\ OthersRest("presets")
    \/ tool = "keys" /\ KeysNext /\ OthersRest("keys")
    \/ tool = "verdict" /\ VerdictNext /\ OthersRest("verdict")
    \/ tool = "layout" /\ LayoutNext /\ OthersRest("layout")
    \/ tool = "book" /\ BookNext /\ OthersRest("book")
    \/ tool = "doc" /\ DocNext /\ OthersRest("doc")

automatorVars == <<tool, hookVars, agentVars, presetVars, keyVars, verdictVars, layoutVars,
                   bookVars, docVars>>

AutomatorSpec == AutomatorInit /\ [][AutomatorNext]_automatorVars
=============================================================================
