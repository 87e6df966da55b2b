---------------------------- MODULE AgentPresets ----------------------------
(* agent-config of the story automator: named agent configurations in one   *)
(* presets file.  save and delete read the whole file and write it back as  *)
(* a whole; write_atomic renames, so the file is never half written, but    *)
(* two commands at once can undo each other's change.                       *)
EXTENDS Naturals, Sequences

CONSTANTS
    Clients,       \* commands that run at once
    PresetNames,   \* names as the user types them
    Lower,         \* [PresetNames -> lower-case names]
    Settings,      \* configurations
    MaxSaves       \* bound: commands in all

ASSUME PresetsAssumption == Lower \in [PresetNames -> STRING] /\ MaxSaves \in Nat

VARIABLES
    presets,   \* the presets of the file, in order: [name, config]
    client,    \* [Clients -> [pc, read, name, config]]
    commands   \* how many commands have been started

presetVars == <<presets, client, commands>>

IdleClient == [pc |-> "idle", read |-> <<>>, name |-> "", config |-> ""]

SameName(p, n) == Lower[p.name] = Lower[n]

\* load_presets_file, by save or delete.  A missing file is an empty list; what
\* is no JSON raises before anything is written.
PresetLoad(c) ==
    /\ client[c].pc = "idle" /\ commands < MaxSaves
    /\ \E verb \in {"save", "delete"}, n \in PresetNames, s \in Settings :
         client' = [client EXCEPT ![c] =
                      [pc |-> verb, read |-> presets, name |-> n, config |-> s]]
    /\ commands' = commands + 1
    /\ UNCHANGED presets

\* save: the first preset of the name, in any case, gets the configuration and
\* keeps its name; without one a preset is appended.
Saved(list, n, s) ==
    LET hits == {i \in DOMAIN list : SameName(list[i], n)} IN
    IF hits = {} THEN Append(list, [name |-> n, config |-> s])
    ELSE LET i == CHOOSE i \in hits : \A j \in hits : i <= j
         IN  [list EXCEPT ![i].config = s]

\* delete: every preset of the name goes.
Remaining(list, n) ==
    LET kept[i \in 0 .. Len(list)] ==
          IF i = 0 THEN <<>>
          ELSE IF SameName(list[i], n) THEN kept[i - 1] ELSE Append(kept[i - 1], list[i])
    IN  kept[Len(list)]

PresetSave(c) ==
    /\ client[c].pc = "save"
    /\ presets' = Saved(client[c].read, client[c].name, client[c].config)
    /\ client' = [client EXCEPT ![c] = IdleClient]
    /\ UNCHANGED commands

\* Fault: the list is cut down to what precedes the preset.
PresetDelete_CutsTail(c) ==
    LET at == {i \in DOMAIN client[c].read : SameName(client[c].read[i], client[c].name)} IN
    /\ client[c].pc = "delete"
    /\ presets' = IF at = {} THEN presets
                  ELSE SubSeq(client[c].read, 1, (CHOOSE i \in at : TRUE) - 1)
    /\ client' = [client EXCEPT ![c] = IdleClient]
    /\ UNCHANGED commands

\* Nothing is written if no preset has the name.
PresetDelete(c) ==
    LET left == Remaining(client[c].read, client[c].name) IN
    /\ client[c].pc = "delete"
    /\ presets' = IF Len(left) = Len(client[c].read) THEN presets ELSE left
    /\ client' = [client EXCEPT ![c] = IdleClient]
    /\ UNCHANGED commands

\* load: the first preset of the name, in any case.
LoadedPreset(list, n) ==
    LET hits == {i \in DOMAIN list : SameName(list[i], n)}
    IN  IF hits = {} THEN "preset_not_found"
        ELSE list[CHOOSE i \in hits : \A j \in hits : i <= j].config

PresetsInit == presets = <<>> /\ client = [c \in Clients |-> IdleClient] /\ commands = 0

PresetsNext == \E c \in Clients : PresetLoad(c) \/ PresetSave(c) \/ PresetDelete(c)

PresetsSpec == PresetsInit /\ [][PresetsNext]_presetVars

-----------------------------------------------------------------------------
(* However many commands run at once, no two presets have the same name in  *)
(* different case, so load and delete mean the same preset.                 *)
PresetNamesDistinct ==
    \A i, j \in DOMAIN presets : SameName(presets[i], presets[j].name) => i = j

(* A save or delete that nobody else's write came between changes only the  *)
(* preset it names, and load then finds what was saved or nothing.          *)
OwnPresetOnly ==
    \A c \in Clients :
         client[c].pc # "idle" /\ client'[c].pc = "idle" /\ client[c].read = presets =>
            /\ \A n \in PresetNames : Lower[n] # Lower[client[c].name] =>
                 LoadedPreset(presets', n) = LoadedPreset(presets, n)
            /\ LoadedPreset(presets', client[c].name) =
                 (IF client[c].pc = "save" THEN client[c].config ELSE "preset_not_found")

(* Processes that load, change and rewrite the presets file at the same     *)
(* time keep its names distinct and touch no preset but their own.          *)
PresetsKept == [][PresetNamesDistinct' /\ OwnPresetOnly]_presetVars
=============================================================================
