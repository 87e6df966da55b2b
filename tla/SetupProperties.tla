-------------------------- MODULE SetupProperties --------------------------
(* What the setup scripts promise, whatever is killed in between.          *)
EXTENDS ModuleSetup

\* The variables hold values of their kinds (config.yaml, config.user.yaml, the
\* legacy files and module-help.csv as the scripts read and write them).
TypeOK ==
    /\ config \in [root : [Keys -> Values], nested : [Keys -> Values],
                   section : [Keys -> Values], others : SUBSET Others]
    /\ user \in [Keys -> Values]
    /\ rows \in [Others \cup {"module"} -> {"", "old", "source"}]
    /\ legacy \in [Dirs -> [there : BOOLEAN, values : [Keys -> Values], help : BOOLEAN]]
    /\ dirs \in [Dirs -> SUBSET Skills]
    /\ installed \subseteq Skills
    /\ cut \subseteq {"config", "csv", "legacy"}

\* config.yaml and config.user.yaml as the running script will leave them.
Config == IF job.pc = "config opened" THEN job.config ELSE config
User == IF job.pc = "user opened" THEN job.user ELSE user
Rows == IF job.pc = "csv opened" THEN job.rows ELSE rows

(* merge-config.py deletes a legacy file only when every core value of it   *)
(* is in config.yaml or config.user.yaml, where it stays however often the  *)
(* scripts are run again, and merge-help-csv.py deletes the legacy rows     *)
(* only when the module has rows in module-help.csv.  A kill while such a   *)
(* value is only in the memory of merge-config.py loses it, and so does     *)
(* cleanup-legacy.py, run before the merge: both are remembered in `cut`.   *)
LegacyNotLost ==
    \A d \in Dirs :
        /\ ~legacy[d].there /\ "legacy" \notin cut =>
             \A k \in Core : legacy[d].values[k] # "" =>
                 (IF k \in Shared THEN Config.root[k] ELSE User[k]) # ""
        /\ ~legacy[d].help /\ cut \cap {"csv", "legacy"} = {} => Rows["module"] # ""

(* Merging this module's settings and rows keeps those of every other      *)
(* module, unless a kill caught the script between opening the file and    *)
(* writing it.                                                             *)
OthersKept ==
    /\ "config" \notin cut => Config.others = Others
    /\ "csv" \notin cut => \A m \in Others : Rows[m] = "old"

(* merge_config's order, moving the old core section to the root before it  *)
(* strips the user's keys: none of them stays in the shared file.           *)
PrivateStaysPrivate ==
    config.nested = Blank => \A k \in Private : config.root[k] = ""

(* A merge drops no shared core value, at the root of config.yaml or in the *)
(* old core section, and no value of config.user.yaml, but by a kill of the *)
(* script between opening that very file and writing it.  The user's values *)
(* in the old core section are not kept: merge_config deletes them, though  *)
(* its comment says that they belong in config.user.yaml, where only an     *)
(* answer or a legacy file puts them.                                       *)
InConfig(k) == Config.root[k] # "" \/ Config.nested[k] # ""
ValuesKept ==
    /\ ~(job.pc = "config opened" /\ job'.pc = "idle") =>
         \A k \in Shared : InConfig(k) => InConfig(k)'
    /\ ~(job.pc = "user opened" /\ job'.pc = "idle") =>
         \A k \in Keys : User[k] # "" => User'[k] # ""

(* cleanup-legacy.py with --skills-dir removes no skill that is not        *)
(* installed, in whichever of the directories it lies and however far      *)
(* rmtree gets.                                                            *)
VerifiedRemoval ==
    job.option => \A d \in Dirs : dirs[d] \ dirs'[d] \subseteq installed

(* The setup scripts, run again with any answers and killed anywhere: the   *)
(* values of a legacy file outlive it, shared values, the user's file and   *)
(* the other modules outlive a merge, no private value is shared, and only  *)
(* installed skills are removed.                                            *)
SetupKeepsValues ==
    [][/\ (TypeOK /\ LegacyNotLost /\ OthersKept /\ PrivateStaysPrivate)'
       /\ ValuesKept /\ VerifiedRemoval]_vars
=============================================================================
