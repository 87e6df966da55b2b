---------------------------- MODULE ModuleSetup ----------------------------
(* The setup scripts of the bmad-bmb-setup skill: merge-config.py puts a    *)
(* module's answers and its legacy values into the shared config.yaml and   *)
(* the private config.user.yaml, merge-help-csv.py its rows into the shared *)
(* module-help.csv, cleanup-legacy.py removes the legacy directories.  Each *)
(* is a process that reads everything first, then writes and deletes file   *)
(* by file, and can be killed between any two of these; the scripts are run *)
(* again and again, with other answers.                                     *)
EXTENDS Integers, FiniteSets

CONSTANTS
    Shared, Private,   \* core keys: of the project, of the user
    Variables,         \* the module's variables
    UserVariables,     \* those of them that are user settings
    Others,            \* the other modules in the shared files
    Skills             \* skills that live in the legacy directories

ASSUME SetupAssumption ==
    /\ UserVariables \subseteq Variables
    /\ (Shared \cup Private) \cap Variables = {} /\ Shared \cap Private = {}
    /\ "module" \notin Others

Core == Shared \cup Private
Keys == Core \cup Variables
Dirs == {"module", "core"}

\* Where a value came from; "": there is none.  A "/" says that it holds
\* {project-root}: a result template has put it there, or it was typed so.
Values == {"", "old", "legacy", "legacy/", "answer", "answer/"}
Blank == [k \in Keys |-> ""]

VARIABLES
    config,     \* config.yaml: [root, nested, section, others]
    user,       \* config.user.yaml
    legacy,     \* of each legacy directory, its config.yaml and module-help.csv:
                \*   [there, values, help]; values outlive the file, as history
    rows,       \* module-help.csv: [module -> its rows]
    dirs,       \* the skills in each legacy directory
    installed,  \* the skills installed in the skills directory
    job,        \* the script being run
    cut         \* history: what a kill or an early cleanup has destroyed

vars == <<config, user, legacy, rows, dirs, installed, job, cut>>

\* A file that is being rewritten is empty; an empty file loads as {}.
EmptyConfig == [root |-> Blank, nested |-> Blank, section |-> Blank, others |-> {}]
NoRows == [m \in Others \cup {"module"} |-> ""]

NoJob == [pc |-> "idle", config |-> EmptyConfig, user |-> Blank, rows |-> NoRows,
          option |-> FALSE]   \* --legacy-dir of the mergers, --skills-dir of cleanup
Goes(pc) == job' = [job EXCEPT !.pc = pc]

\* dict.update
Update(base, over) == [k \in Keys |-> IF over[k] = "" THEN base[k] ELSE over[k]]
Only(f, S) == [k \in Keys |-> IF k \in S THEN f[k] ELSE ""]

-----------------------------------------------------------------------------
(* merge-config.py                                                          *)

\* load_legacy_values: the core file's core keys, then the module file's; and
\* the module file's values of current variables.
LegacyValues ==
    LET of(d) == IF legacy[d].there THEN legacy[d].values ELSE Blank IN
    Update(of("module"), Only(of("core"), Core))

\* apply_legacy_defaults: explicit answers win.
ApplyLegacyDefaults(answers) == Update(LegacyValues, answers)

\* apply_result_templates: a value that holds {project-root} is left alone.
ApplyResultTemplates(f) ==
    [k \in Keys |-> CASE f[k] = "answer" -> "answer/"
                      [] f[k] = "legacy" -> "legacy/"
                      [] OTHER -> f[k]]

\* merge_config: the nested core section moves to the root, private keys go,
\* shared answers are written over it, the module's section is made anew.
MergeConfig(c, ans) ==
    [root |-> Update(Only(Update(c.root, c.nested), Shared), Only(ans, Shared)),
     nested |-> Blank,
     section |-> ApplyResultTemplates(Only(ans, Variables)),
     others |-> c.others]

\* extract_user_settings.
UserSettings(ans) == Only(ans, Private \cup UserVariables)

\* main, up to the first write: the script runs with some answers.
MergeConfigStart ==
    /\ job.pc = "idle"
    /\ \E answered \in SUBSET Keys, migrate \in BOOLEAN :
         LET given == [k \in Keys |-> IF k \in answered THEN "answer" ELSE ""]
             ans == IF migrate THEN ApplyLegacyDefaults(given) ELSE given IN
         job' = [NoJob EXCEPT !.pc = "config", !.config = MergeConfig(config, ans),
                              !.user = UserSettings(ans), !.option = migrate]
    /\ UNCHANGED <<config, user, legacy, rows, dirs, installed, cut>>

\* write_config opens config.yaml, which empties it ...
OpenConfig ==
    /\ job.pc = "config" /\ Goes("config opened")
    /\ config' = EmptyConfig
    /\ UNCHANGED <<user, legacy, rows, dirs, installed, cut>>

\* Fault: the legacy files go before config.user.yaml is written.
WriteConfig_CleansUpFirst ==
    /\ job.pc = "config opened"
    /\ config' = job.config
    /\ legacy' = [d \in Dirs |-> [legacy[d] EXCEPT !.there = FALSE]]
    /\ job' = [job EXCEPT !.config = EmptyConfig, !.user = Update(user, @),
                  !.pc = IF job.user = Blank THEN "written" ELSE "user"]
    /\ UNCHANGED <<user, rows, dirs, installed, cut>>

\* ... and writes it.  config.user.yaml is read; it is written only when there
\* are user settings.
WriteConfig ==
    /\ job.pc = "config opened"
    /\ config' = job.config
    /\ job' = [job EXCEPT !.config = EmptyConfig, !.user = Update(user, @),
                  !.pc = IF job.user = Blank THEN "written" ELSE "user"]
    /\ UNCHANGED <<user, legacy, rows, dirs, installed, cut>>

OpenUser ==
    /\ job.pc = "user" /\ Goes("user opened")
    /\ user' = Blank
    /\ UNCHANGED <<config, legacy, rows, dirs, installed, cut>>

WriteUser ==
    /\ job.pc = "user opened" /\ Goes("written")
    /\ user' = job.user
    /\ UNCHANGED <<config, legacy, rows, dirs, installed, cut>>

\* Without --legacy-dir that was all.
MergeDone ==
    /\ job.pc = "written"
    /\ job' = IF job.option THEN [NoJob EXCEPT !.pc = "delete module"] ELSE NoJob
    /\ UNCHANGED <<config, user, legacy, rows, dirs, installed, cut>>

\* cleanup_legacy_configs: the module's file, then core's.
DeleteLegacy(d) ==
    /\ job.pc = (IF d = "module" THEN "delete module" ELSE "delete core")
    /\ legacy' = [legacy EXCEPT ![d].there = FALSE]
    /\ job' = IF d = "module" THEN [job EXCEPT !.pc = "delete core"] ELSE NoJob
    /\ UNCHANGED <<config, user, rows, dirs, installed, cut>>

-----------------------------------------------------------------------------
(* merge-help-csv.py                                                        *)

\* filter_rows: every row of the module goes (anti-zombie).
FilterRows(r) == [r EXCEPT !["module"] = ""]

\* The rows are read and merged; the source has some version of the module's.
MergeHelpStart ==
    /\ job.pc = "idle"
    /\ LET kept == FilterRows(rows) IN
         \E migrate \in BOOLEAN :
             job' = [NoJob EXCEPT !.pc = "csv", !.option = migrate,
                       !.rows = [kept EXCEPT !["module"] =
                                   IF @ = "" THEN "source" ELSE "doubled"]]
    /\ UNCHANGED <<config, user, legacy, rows, dirs, installed, cut>>

OpenCsv ==
    /\ job.pc = "csv" /\ Goes("csv opened")
    /\ rows' = NoRows
    /\ UNCHANGED <<config, user, legacy, dirs, installed, cut>>

WriteCsv ==
    /\ job.pc = "csv opened"
    /\ rows' = job.rows
    /\ job' = IF job.option THEN [NoJob EXCEPT !.pc = "drop module"] ELSE NoJob
    /\ UNCHANGED <<config, user, legacy, dirs, installed, cut>>

\* cleanup_legacy_csvs: the same for the legacy module-help.csv.
DeleteLegacyCsv(d) ==
    /\ job.pc = (IF d = "module" THEN "drop module" ELSE "drop core")
    /\ legacy' = [legacy EXCEPT ![d].help = FALSE]
    /\ job' = IF d = "module" THEN [job EXCEPT !.pc = "drop core"] ELSE NoJob
    /\ UNCHANGED <<config, user, rows, dirs, installed, cut>>

-----------------------------------------------------------------------------
(* cleanup-legacy.py                                                        *)

\* verify_skills_installed.
MissingSkills == (UNION {dirs[d] : d \in Dirs}) \ installed

\* With --skills-dir nothing is removed while a skill is missing.
CleanupStart ==
    /\ job.pc = "idle"
    /\ \E verify \in BOOLEAN :
         /\ verify => MissingSkills = {}
         /\ job' = [NoJob EXCEPT !.pc = "remove module", !.option = verify]
    /\ UNCHANGED <<config, user, legacy, rows, dirs, installed, cut>>

\* rmtree of d leaves these skills and, of its two files, these.
Leaves(d, skills, files) ==
    /\ job.pc = (IF d = "module" THEN "remove module" ELSE "remove core")
    /\ dirs' = [dirs EXCEPT ![d] = skills]
    /\ legacy' = [legacy EXCEPT ![d].there = @ /\ "config" \in files,
                                 ![d].help  = @ /\ "csv" \in files]
    /\ cut' = IF legacy' = legacy THEN cut ELSE cut \cup {"legacy"}
    /\ UNCHANGED <<config, user, rows, installed>>

\* cleanup_directories: the module's directory goes, then core's ...
RemoveDirectory(d) ==
    /\ Leaves(d, {}, {})
    /\ job' = IF d = "module" THEN [job EXCEPT !.pc = "remove core"] ELSE NoJob

\* ... but rmtree may fail half way, which ends the script.
RemoveFails(d) ==
    /\ \E skills \in SUBSET dirs[d], files \in SUBSET {"config", "csv"} :
         Leaves(d, skills, files)
    /\ job' = NoJob

-----------------------------------------------------------------------------
\* The script is killed; what it had opened stays empty, and if values of a
\* legacy file that is gone were in there, so are they.
Killed ==
    /\ job.pc # "idle" /\ job' = NoJob
    /\ LET gone == {x \in {"legacy"} :
                      \E d \in Dirs : ~legacy[d].there /\ legacy[d].values # Blank} IN
       cut' = cut \cup (CASE job.pc = "config opened" -> {"config"} \cup gone
                         [] job.pc = "user opened" -> gone
                         [] job.pc = "csv opened" -> {"csv"}
                         [] OTHER -> {})
    /\ UNCHANGED <<config, user, legacy, rows, dirs, installed>>

\* Somebody installs a skill.
InstallSkill ==
    /\ \E s \in Skills \ installed : installed' = installed \cup {s}
    /\ UNCHANGED <<config, user, legacy, rows, dirs, job, cut>>

Init ==
    /\ \E old \in SUBSET Core :
         config = [EmptyConfig EXCEPT
                     !.nested = [k \in Keys |-> IF k \in old THEN "old" ELSE ""],
                     !.section = [k \in Keys |-> IF k \in Variables THEN "old" ELSE ""],
                     !.others = Others]
    /\ user = Blank
    /\ \E there \in SUBSET Dirs :
         legacy = [d \in Dirs |-> [there |-> d \in there, help |-> TRUE,
                     values |-> [k \in Keys |-> IF d \notin there THEN ""
                                                ELSE IF d = "core" THEN "legacy"
                                                ELSE "legacy/"]]]
    /\ rows = [m \in Others \cup {"module"} |-> IF m = "module" THEN "" ELSE "old"]
    /\ dirs \in [Dirs -> SUBSET Skills]
    /\ installed = {} /\ job = NoJob /\ cut = {}

Next == \/ MergeConfigStart \/ OpenConfig \/ WriteConfig \/ OpenUser \/ WriteUser
        \/ MergeDone \/ MergeHelpStart \/ OpenCsv \/ WriteCsv \/ CleanupStart
        \/ \E d \in Dirs : \/ DeleteLegacy(d) \/ DeleteLegacyCsv(d)
                            \/ RemoveDirectory(d) \/ RemoveFails(d)
        \/ Killed \/ InstallSkill

Spec == Init /\ [][Next]_vars
=============================================================================
