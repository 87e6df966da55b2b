-------------------------- MODULE StandaloneBuild --------------------------
(* The module builder for a module that is a single skill:                  *)
(* scaffold-standalone-module.py adds the setup files to the skill, and     *)
(* validate-module.py judges what is there.  The author may have merge      *)
(* scripts of their own, which a second run must leave alone; a run can be  *)
(* killed while it writes a file.                                           *)
EXTENDS ModuleBuild

CONSTANT MaxRuns    \* bound: runs of the scaffold

ASSUME StandaloneAssumption == MaxRuns \in Nat

MergeScripts == {"merge-config.py", "merge-help-csv.py"}
SkillFiles == MergeScripts \cup {"module.yaml", "module-help.csv", "module-setup.md"}

\* The files whose content validate-module.py looks at.
Judged == {"module.yaml", "module-help.csv"}

VARIABLES
    skill,       \* [SkillFiles -> the file: absent, half written, the template's, the author's,
                 \*   or the author's with something in it that the validator finds]
    market,      \* marketplace.json: "", "half" or "whole"
    adding,      \* the scaffold: [pc, writing: whether it has that file open]
    runsMade,    \* history: runs begun
    found,       \* history: the merge scripts the last run found there
    killed       \* history: whether a run was killed

standaloneVars == <<skill, market, adding, runsMade, found, killed>>

Adding(pc) == [pc |-> pc, writing |-> FALSE]
After(f) == CASE f = "module-setup.md" -> "merge-config.py"
              [] f = "merge-config.py" -> "merge-help-csv.py"
              [] OTHER -> "marketplace"

-----------------------------------------------------------------------------
(* scaffold-standalone-module.py                                            *)

\* A merge script that is there is skipped, with a warning.
Skips(f) == f \in MergeScripts /\ skill[f] # ""

\* main: without SKILL.md and a module.yaml nothing is touched.
AddStart ==
    /\ adding.pc \in {"idle", "added"} /\ runsMade < MaxRuns
    /\ skill["module.yaml"] # ""
    /\ adding' = Adding("module-setup.md")
    /\ runsMade' = runsMade + 1
    /\ found' = {f \in MergeScripts : skill[f] # ""}
    /\ UNCHANGED <<skill, market, killed>>

AddSkip ==
    /\ Skips(adding.pc) /\ ~adding.writing
    /\ adding' = Adding(After(adding.pc))
    /\ UNCHANGED <<skill, market, runsMade, found, killed>>

\* write_bytes truncates the file, then fills it.
AddOpen ==
    /\ adding.pc \in {"module-setup.md"} \cup MergeScripts
    /\ ~adding.writing /\ ~Skips(adding.pc)
    /\ skill' = [skill EXCEPT ![adding.pc] = "half"]
    /\ adding' = [adding EXCEPT !.writing = TRUE]
    /\ UNCHANGED <<market, runsMade, found, killed>>

AddFill ==
    /\ adding.pc \in SkillFiles /\ adding.writing
    /\ skill' = [skill EXCEPT ![adding.pc] = "template"]
    /\ adding' = Adding(After(adding.pc))
    /\ UNCHANGED <<market, runsMade, found, killed>>

\* marketplace.json is written anew, from module.yaml.
MarketOpen ==
    /\ adding.pc = "marketplace" /\ ~adding.writing
    /\ market' = "half" /\ adding' = [adding EXCEPT !.writing = TRUE]
    /\ UNCHANGED <<skill, runsMade, found, killed>>

MarketFill ==
    /\ adding.pc = "marketplace" /\ adding.writing
    /\ market' = "whole" /\ adding' = Adding("added")
    /\ UNCHANGED <<skill, runsMade, found, killed>>

\* The run is killed: what it was writing stays half written.
AddKilled ==
    /\ adding.pc \notin {"idle", "added"}
    /\ killed' = TRUE /\ adding' = Adding("idle")
    /\ UNCHANGED <<skill, market, runsMade, found>>

\* The author writes a file, well or not, or removes a script.
AuthorWrites(f) ==
    /\ adding.pc \in {"idle", "added"}
    /\ \E v \in {"author"} \cup {x \in {"faulty"} : f \in Judged} :
         skill' = [skill EXCEPT ![f] = v]
    /\ adding' = Adding("idle")
    /\ UNCHANGED <<market, runsMade, found, killed>>

AuthorRemoves(f) ==
    /\ adding.pc \in {"idle", "added"} /\ skill[f] # ""
    /\ skill' = [skill EXCEPT ![f] = ""]
    /\ adding' = Adding("idle")
    /\ UNCHANGED <<market, runsMade, found, killed>>

StandaloneInit ==
    /\ skill = [f \in SkillFiles |-> ""] /\ market = ""
    /\ adding = Adding("idle") /\ runsMade = 0 /\ found = {} /\ killed = FALSE

StandaloneNext ==
    \/ AddStart \/ AddSkip \/ AddOpen \/ AddFill \/ MarketOpen \/ MarketFill \/ AddKilled
    \/ \E f \in SkillFiles : AuthorWrites(f)
    \/ \E f \in MergeScripts : AuthorRemoves(f)

StandaloneSpec == StandaloneInit /\ [][StandaloneNext]_standaloneVars

-----------------------------------------------------------------------------
(* validate-module.py                                                       *)

\* The standalone branch of validate: every file is there, module.yaml has its
\* fields, and module-help.csv its header, rows and no finding of high severity.
\* Nobody looks into the merge scripts and module-setup.md.
RequiredFiles == SkillFiles
Complete == \A f \in RequiredFiles : skill[f] # ""
StandalonePasses == Complete /\ \A f \in Judged : skill[f] # "faulty"

-----------------------------------------------------------------------------
(* A script of the author's survives every run of the scaffold, also a run  *)
(* that is killed: only the author changes it.                              *)
OwnScriptsKept ==
    \A f \in MergeScripts : skill[f] = "author" /\ adding.pc \notin {"idle", "added"}
            => skill'[f] = "author"

(* As long as no run was killed, a skill that passes between two runs is    *)
(* whole.  After a kill it need not be: the validator passes a merge script *)
(* that is half written.                                                    *)
PassedIsWhole ==
    StandalonePasses /\ adding.pc \in {"idle", "added"} /\ ~killed =>
        \A f \in SkillFiles : skill[f] \in {"template", "author"}

(* A run that finishes mends what earlier ones left, however many of them   *)
(* were killed where, but for the merge scripts it found: a half written    *)
(* one is taken for the author's and stays.                                 *)
FinishedIsWhole ==
    adding.pc = "added" =>
        /\ market = "whole" /\ skill["module-setup.md"] = "template"
        /\ \A f \in MergeScripts \ found : skill[f] = "template"

(* A setup skill that validate-module.py passes is one build of its         *)
(* scaffold whatever was killed and was there before, and its skills can be *)
(* reached; a skill made a module is whole if no run was killed, and but    *)
(* for a merge script found there after a run that finished; the author's   *)
(* own scripts stay.                                                        *)
ValidatedIsWhole ==
    [][/\ (PassIsOneBuild /\ PassIsReachable /\ PassedIsWhole /\ FinishedIsWhole)'
       /\ OwnScriptsKept]_<<buildVars, standaloneVars>>
=============================================================================
