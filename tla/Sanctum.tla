------------------------------ MODULE Sanctum ------------------------------
(* init-sanctum.py, the birth of a memory agent: its directory is made and  *)
(* filled step by step from the skill's bundle, once; afterwards it belongs *)
(* to the owner.  The script may be killed, run again, and run while the    *)
(* bundle is being updated.  prepass-sanctum-architecture.py looks a bundle  *)
(* over before it is shipped.                                               *)
EXTENDS Naturals

CONSTANTS
    References,   \* files of references/ and scripts/ a bundle may hold
    SkillOnly,    \* SKILL_ONLY_FILES and the script itself: never copied
    Capable,      \* references whose front matter has a name and a code
    FirstBreath,  \* first-breath.md
    Templates,    \* files of assets/ that TEMPLATE_FILES may list
    Standard,     \* STANDARD_TEMPLATES of the pre-pass
    MaxUpdates    \* bound: changes of the bundle

ASSUME SanctumAssumption ==
    /\ SkillOnly \subseteq References /\ Capable \subseteq References
    /\ FirstBreath \in References /\ Standard \subseteq Templates
    /\ MaxUpdates \in Nat

VARIABLES
    bundle,     \* the skill: its references, its templates, the TEMPLATE_FILES its
                \*   script lists, whether it has that script, whether headings, length
                \*   and name are as they should be, and the changes so far
    sanctum,    \* [born, refs, files, capabilities, touched]: whether the
                \*   directory is there, the references copied, the files
                \*   written, the table of CAPABILITIES.md, what the owner edited
    birth       \* the script: its place, the files still to write, the updates it
                \*   began after, and whether it was ever killed

sanctumVars == <<bundle, sanctum, birth>>

NotBorn == [born |-> FALSE, refs |-> {}, files |-> {}, capabilities |-> {}, touched |-> {}]
NotRunning == [pc |-> "idle", todo |-> {}, began |-> 0, killed |-> FALSE]

\* copy_references and copy_scripts leave the skill's own files out.
Copied(refs) == refs \ SkillOnly

\* discover_capabilities reads the bundle again, not what was copied.
DiscoverCapabilities(refs) == (refs \ SkillOnly) \cap Capable

-----------------------------------------------------------------------------
(* The pre-pass                                                             *)

MissingTemplates(b) == Standard \ b.templates

\* extract_init_script_params: without a script there is nothing to compare.
ListedTemplates(b) == IF b.script THEN b.listed ELSE {}

\* Fault: what the script lists is not compared with what is there.
LintFindings_NoCrossCheck(b) ==
    MissingTemplates(b) \cup ({FirstBreath} \ b.references)
    \cup (IF b.sound /\ b.script THEN {} ELSE {"other"})

\* The findings: standard templates and first-breath.md that are missing, headings,
\* SKILL.md's length and SKILL_NAME, no script, or a script that lists other files.
LintFindings(b) ==
    MissingTemplates(b) \cup ({FirstBreath} \ b.references)
    \cup (IF b.sound /\ b.script THEN {} ELSE {"other"})
    \cup (IF b.script /\ ListedTemplates(b) # b.templates THEN {"script"} ELSE {})

\* Only a skill with templates is looked at.
IsMemoryAgent(b) == b.templates # {}

-----------------------------------------------------------------------------
\* main up to the directories: "This agent has already been born" ends it.
BirthBegin ==
    /\ birth.pc = "idle" /\ ~sanctum.born /\ bundle.script
    /\ sanctum' = [sanctum EXCEPT !.born = TRUE]
    /\ birth' = [birth EXCEPT !.pc = "references", !.todo = Copied(bundle.references), !.began = bundle.updates]
    /\ UNCHANGED bundle

\* copy_references and copy_scripts, of listings made first; a file that has gone from the
\* bundle meanwhile ends the script with an exception.
CopyReference(r) ==
    /\ birth.pc = "references" /\ r \in birth.todo
    /\ IF r \in bundle.references
       THEN /\ sanctum' = [sanctum EXCEPT !.refs = @ \cup {r}, !.touched = @ \ {r}]
            /\ birth' = [birth EXCEPT !.todo = @ \ {r}]
       ELSE /\ birth' = [birth EXCEPT !.pc = "idle", !.todo = {}, !.killed = TRUE]
            /\ UNCHANGED sanctum
    /\ UNCHANGED bundle

ReferencesCopied ==
    /\ birth.pc = "references" /\ birth.todo = {}
    /\ birth' = [birth EXCEPT !.pc = "templates", !.todo = bundle.listed]
    /\ UNCHANGED <<bundle, sanctum>>

\* A template that is not there is skipped with a warning.
WriteTemplate(t) ==
    /\ birth.pc = "templates" /\ t \in birth.todo
    /\ sanctum' = IF t \notin bundle.templates THEN sanctum
                  ELSE [sanctum EXCEPT !.files = @ \cup {t}, !.touched = @ \ {t}]
    /\ birth' = [birth EXCEPT !.todo = @ \ {t}]
    /\ UNCHANGED bundle

WriteCapabilities ==
    /\ birth.pc = "templates" /\ birth.todo = {}
    /\ sanctum' = [sanctum EXCEPT !.files = @ \cup {"CAPABILITIES"},
                                  !.capabilities = DiscoverCapabilities(bundle.references),
                                  !.touched = @ \ {"CAPABILITIES"}]
    /\ birth' = [birth EXCEPT !.pc = "idle"]
    /\ UNCHANGED bundle

BirthKilled ==
    /\ birth.pc # "idle"
    /\ birth' = [birth EXCEPT !.pc = "idle", !.todo = {}, !.killed = TRUE]
    /\ UNCHANGED <<bundle, sanctum>>

-----------------------------------------------------------------------------
\* The agent's sessions write into its sanctum once it is there.
OwnerEdits(f) ==
    /\ sanctum.born /\ birth.pc = "idle" /\ f \in sanctum.files \cup sanctum.refs
    /\ sanctum' = [sanctum EXCEPT !.touched = @ \cup {f}]
    /\ UNCHANGED <<bundle, birth>>

\* The skill is updated: a reference comes or goes.
BundleUpdate(r) ==
    /\ bundle.updates < MaxUpdates
    /\ bundle' = [bundle EXCEPT !.references = (@ \ {r}) \cup ({r} \ @), !.updates = @ + 1]
    /\ UNCHANGED <<sanctum, birth>>

SanctumInit ==
    /\ bundle \in [references : SUBSET References, templates : SUBSET Templates,
                   listed : SUBSET Templates, script : BOOLEAN, sound : BOOLEAN,
                   updates : {0}]
    /\ sanctum = NotBorn
    /\ birth = NotRunning

SanctumNext ==
    \/ BirthBegin \/ ReferencesCopied \/ WriteCapabilities \/ BirthKilled
    \/ \E r \in References : CopyReference(r) \/ BundleUpdate(r)
    \/ \E t \in Templates : WriteTemplate(t)
    \/ \E f \in References \cup Templates \cup {"CAPABILITIES"} : OwnerEdits(f)

SanctumSpec == SanctumInit /\ [][SanctumNext]_sanctumVars

-----------------------------------------------------------------------------
(* "This agent has already been born": whatever is run again, and after     *)
(* whichever kill, no step of the script overwrites what the owner changed. *)
OwnerKept == sanctum.touched \subseteq sanctum'.touched

(* An agent born in one piece is whole: every template its script lists and *)
(* its bundle has was written, and unless the bundle changed under the      *)
(* script every capability its table sends it to is a file it was given.    *)
BornIsWhole ==
    sanctum.born /\ birth.pc = "idle" /\ ~birth.killed =>
        /\ (bundle.templates \cap bundle.listed) \cup {"CAPABILITIES"} \subseteq sanctum.files
        /\ bundle.updates = birth.began => sanctum.capabilities \subseteq sanctum.refs

(* What the pre-pass is for: an agent born from a bundle it has no finding  *)
(* about has every standard file, although the script skips a template that *)
(* is missing with no more than a warning and never looks for one that it   *)
(* does not list.                                                           *)
LintedIsWhole ==
    /\ IsMemoryAgent(bundle) /\ LintFindings(bundle) = {}
    /\ sanctum.born /\ birth.pc = "idle" /\ ~birth.killed
    => Standard \subseteq sanctum.files

(* A memory agent is born whole and once: what the linter passes gives      *)
(* birth to a complete sanctum, and nobody overwrites its owner's files.    *)
SanctumIsWhole == [][(BornIsWhole /\ LintedIsWhole)' /\ OwnerKept]_sanctumVars
=============================================================================
