----------------------------- MODULE StopHooks -----------------------------
(* ensure-stop-hook of the story automator: stop_hooks.py puts the          *)
(* automator's Stop hook into a provider's hook file (.claude/settings.json *)
(* or .codex/hooks.json) and, for codex, turns the codex_hooks feature on   *)
(* in .codex/config.toml.  Every file is read and prepared first, then      *)
(* written as a whole by write_atomic; several installers run at once, each *)
(* can be killed, and the user edits the files too.                         *)
EXTENDS Integers, Sequences, FiniteSets

CONSTANTS
    Installers,   \* running ensure-stop-hook commands
    Commands,     \* hook commands an installer is given
    Recognised,   \* those that _is_story_automator_stop_hook_command knows
    MaxUserEdits      \* bound: the user's edits of a file

ASSUME HooksAssumption == Recognised \subseteq Commands /\ MaxUserEdits \in Nat

Providers == {"claude", "codex"}
HookFiles == Providers                \* the hook file of each provider
Files == HookFiles \cup {"config"}    \* and codex's config.toml

\* A file: what it parses to.  own: the automator's hooks in order (none in
\* config.toml); on: codex_hooks; rest: the version of everything else in it.
Absent == [state |-> "absent", own |-> <<>>, on |-> FALSE, rest |-> 0]

VARIABLES
    files,   \* [Files -> contents]
    inst,    \* [Installers -> where it is, what it was given and has prepared]
    userEdits,   \* history: how often the user edited each file
    raced    \* history: files edited while an installer held a prepared update

hookVars == <<files, inst, userEdits, raced>>

NoUpdate == [written |-> FALSE, data |-> Absent]
IdleInst == [pc |-> "idle", provider |-> "claude", command |-> "", config |-> NoUpdate,
             hooks |-> NoUpdate]

-----------------------------------------------------------------------------
\* _is_story_automator_stop_hook, for the hooks that are the automator's.
IsOwn(existing, command) == existing = command \/ existing \in Recognised

\* _prepare_json_stop_hook: every own hook is set to the command, nothing is
\* written if they all were; if there is none the command is appended.
PrepareHooks(f, command) ==
    LET known == {i \in DOMAIN f.own : IsOwn(f.own[i], command)}
        set == [i \in DOMAIN f.own |-> IF i \in known THEN command ELSE f.own[i]] IN
    CASE known = {} -> [written |-> TRUE, data |->
                         [f EXCEPT !.state = "ok", !.own = Append(f.own, command)]]
      [] known # {} /\ set = f.own -> NoUpdate
      [] OTHER -> [written |-> TRUE, data |-> [f EXCEPT !.own = set]]

\* _set_features_codex_hooks: the key is set in the [features] table, in an
\* inline or dotted one, or in a new table; every other line stays.
SetFeature(f) == [f EXCEPT !.state = "ok", !.on = TRUE]

\* _prepare_codex_hooks_feature.
PrepareConfig(f) == IF f.on THEN NoUpdate ELSE [written |-> TRUE, data |-> SetFeature(f)]

\* The text set line by line may no longer parse: then nothing is prepared.
ConfigBreaks(f) == f.state = "ok" /\ ~f.on

\* An installer that has read config.toml and is about to read the hook file.
Started(p, c, update) == [pc |-> "hooks", provider |-> p, command |-> c, config |-> update,
                          hooks |-> NoUpdate]

\* Codex starts with config.toml; a file that does not parse, before or after,
\* ends the command.
Begun(p, c, breaks) ==
    IF p = "claude" THEN Started(p, c, NoUpdate)
    ELSE IF files["config"].state = "invalid" \/ (breaks /\ ConfigBreaks(files["config"]))
    THEN IdleInst
    ELSE Started(p, c, PrepareConfig(files["config"]))

\* ensure_stop_hook with a provider and a command.
InstallBegin(i) ==
    /\ inst[i].pc = "idle"
    /\ \E p \in Providers, c \in Commands, breaks \in BOOLEAN :
         inst' = [inst EXCEPT ![i] = Begun(p, c, breaks)]
    /\ UNCHANGED <<files, userEdits, raced>>

\* The hook file is read and its update prepared.
InstallPrepare(i) ==
    /\ inst[i].pc = "hooks"
    /\ LET f == files[inst[i].provider] IN
         inst' = [inst EXCEPT ![i] =
            IF f.state = "invalid" THEN IdleInst
            ELSE [@ EXCEPT !.pc = "write config",
                                    !.hooks = PrepareHooks(f, inst[i].command)]]
    /\ UNCHANGED <<files, userEdits, raced>>

\* Fault: the hook file is written before config.toml.
InstallWrite_HooksFirst(i) ==
    /\ inst[i].pc \in {"write config", "write hooks"}
    /\ LET first == inst[i].pc = "write config"
           update == IF first THEN inst[i].hooks ELSE inst[i].config IN
         /\ files' = IF update.written
                     THEN [files EXCEPT ![IF first THEN inst[i].provider ELSE "config"] =
                             update.data]
                     ELSE files
         /\ inst' = [inst EXCEPT ![i] =
                       IF first THEN [@ EXCEPT !.pc = "write hooks"] ELSE IdleInst]
    /\ UNCHANGED <<userEdits, raced>>

\* _write_prepared_update: config.toml, then the hook file, each at once.
InstallWrite(i) ==
    /\ inst[i].pc \in {"write config", "write hooks"}
    /\ LET first == inst[i].pc = "write config"
           update == IF first THEN inst[i].config ELSE inst[i].hooks IN
         /\ files' = IF update.written
                     THEN [files EXCEPT ![IF first THEN "config" ELSE inst[i].provider] =
                             update.data]
                     ELSE files
         /\ inst' = [inst EXCEPT ![i] =
                       IF first THEN [@ EXCEPT !.pc = "write hooks"] ELSE IdleInst]
    /\ UNCHANGED <<userEdits, raced>>

InstallKilled(i) ==
    /\ inst[i].pc # "idle"
    /\ inst' = [inst EXCEPT ![i] = IdleInst]
    /\ UNCHANGED <<files, userEdits, raced>>

\* An installer has read file f and will write it.
Holds(i, f) ==
    IF f = "config" THEN inst[i].pc \in {"hooks", "write config"} /\ inst[i].config.written
    ELSE /\ inst[i].provider = f /\ inst[i].hooks.written
         /\ inst[i].pc \in {"write config", "write hooks"}

\* The user changes another setting of a file, or repairs it.
UserEdit(f) ==
    /\ userEdits[f] < MaxUserEdits
    /\ files' = [files EXCEPT ![f] = [@ EXCEPT !.state = "ok", !.rest = files[f].rest + 1]]
    /\ userEdits' = [userEdits EXCEPT ![f] = @ + 1]
    /\ raced' = IF \E i \in Installers : Holds(i, f) THEN raced \cup {f} ELSE raced
    /\ UNCHANGED inst

\* No hook, the feature off; a file may be missing or broken.
HooksInit ==
    /\ files \in [Files -> {Absent, [Absent EXCEPT !.state = "invalid"]}]
    /\ inst = [i \in Installers |-> IdleInst]
    /\ userEdits = [f \in Files |-> 0]
    /\ raced = {}

HooksNext == \/ \E i \in Installers : \/ InstallBegin(i) \/ InstallPrepare(i)
                                      \/ InstallWrite(i) \/ InstallKilled(i)
             \/ \E f \in Files : UserEdit(f)

HooksSpec == HooksInit /\ [][HooksNext]_hookVars

-----------------------------------------------------------------------------
(* However often and by however many installers the hook is installed, a   *)
(* hook file never has two hooks that the automator recognises as its own:  *)
(* installing again, with whatever command, normalises the one it finds.    *)
OneOwnHook ==
    \A p \in HookFiles : \A i, j \in DOMAIN files[p].own :
        {files[p].own[i], files[p].own[j]} \subseteq Recognised => i = j

(* ensure_codex_stop_hook writes config.toml first: a killed install never  *)
(* leaves a codex hook whose feature is off.                                *)
HookImpliesFeature == files["codex"].own # <<>> => files["config"].on

(* What the user keeps in the files survives every install that did not    *)
(* read the file before and write it after the user's edit.                *)
EditsSurvive == \A f \in Files : f \notin raced => files[f].rest = userEdits[f]

(* Both updates are prepared before the first is written: a hooks.json that *)
(* does not parse leaves config.toml alone.                                 *)
BrokenLeavesConfig ==
    files["codex"].state = "invalid" => files'["config"].on = files["config"].on

(* Installing the stop hook, killed anywhere, repeated, and beside a user   *)
(* who edits the same files, leaves one hook that works and all the rest.   *)
HooksInstalledSafely ==
    [][(OneOwnHook /\ HookImpliesFeature /\ EditsSurvive)' /\ BrokenLeavesConfig]_hookVars
=============================================================================
