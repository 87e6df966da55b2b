---------------------------- MODULE ModuleBuild ----------------------------
(* The module builder: scaffold-setup-skill.py replaces a module's setup    *)
(* skill by a copy of the template with the author's module.yaml and        *)
(* module-help.csv, file by file, and validate-module.py judges what it     *)
(* finds, which may be what a killed scaffold left.                         *)
EXTENDS Naturals, FiniteSets

CONSTANTS
    Folders,     \* skill folders of the module, the setup skill aside
    MenuCodes,   \* menu codes; "" stands for none
    HelpCsvs     \* help files the author may have written: sets of rows

\* A row: the skill it names, its menu code and its action.
HelpRow == [skill : Folders \cup {"setup", "gone"}, code : MenuCodes \cup {""}, action : {"run", "list"}]

BuildFiles == {"SKILL.md", "module.yaml", "module-help.csv", "scripts"}

ASSUME BuildAssumption == HelpCsvs \subseteq SUBSET HelpRow /\ "setup" \notin Folders /\ "gone" \notin Folders

VARIABLES
    setup,      \* [BuildFiles -> where the file is from: "", "old", "template", "own"]
    builder,    \* the scaffold: its place, what it still has to remove or copy
    help        \* the rows of the author's module-help.csv

buildVars == <<setup, builder, help>>

NotBuilding == [pc |-> "idle", todo |-> {}]

-----------------------------------------------------------------------------
(* validate-module.py                                                       *)

\* Checks 7 to 9 and 11 of validate: the findings of high severity.  (Check
\* 10, references to capabilities, has medium severity and fails no module.)
HighFindings(rows) ==
    {<<"missing-entry", f>> : f \in {x \in Folders : \A r \in rows : r.skill # x}} \cup
    {<<"orphan-entry", r.skill>> : r \in {x \in rows : x.skill = "gone"}} \cup
    {<<"duplicate-menu-code", r.code>> : r \in {x \in rows :
        x.code # "" /\ \E y \in rows : y # x /\ y.code = x.code}} \cup
    {<<"missing-field", r.skill>> : r \in {x \in rows : x.code = ""}}

\* The status "pass": the required files, the fields of module.yaml (empty in
\* the template's), rows (the template's help file has none) and no finding
\* of high severity; the header is taken to be the expected one.  An old
\* build passed in its time.
Validate(files, rows) ==
    /\ \A f \in BuildFiles \ {"scripts"} : files[f] # ""
    /\ files["module.yaml"] # "template"
    /\ files["module-help.csv"] # "template"
    /\ files["module-help.csv"] = "own" => rows # {} /\ HighFindings(rows) = {}

-----------------------------------------------------------------------------
(* scaffold-setup-skill.py                                                  *)

\* Fault: an existing setup skill is copied over, not removed.
ScaffoldStart_OverOld ==
    /\ builder.pc = "idle"
    /\ builder' = [pc |-> "copying", todo |-> BuildFiles]
    /\ UNCHANGED <<setup, help>>

\* main, once the template, the sources and the directory are found.
ScaffoldStart ==
    /\ builder.pc = "idle"
    /\ builder' = LET old == {f \in BuildFiles : setup[f] # ""}
                  IN  IF old = {} THEN [pc |-> "copying", todo |-> BuildFiles]
                      ELSE [pc |-> "removing", todo |-> old]
    /\ UNCHANGED <<setup, help>>

\* shutil.rmtree and shutil.copytree, a file at a time.
ScaffoldFile(f) ==
    /\ builder.pc \in {"removing", "copying"} /\ f \in builder.todo
    /\ setup' = [setup EXCEPT ![f] = IF builder.pc = "removing" THEN "" ELSE "template"]
    /\ builder' = LET rest == builder.todo \ {f} IN
                  IF rest # {} THEN [builder EXCEPT !.todo = rest]
                  ELSE IF builder.pc = "removing" THEN [pc |-> "copying", todo |-> BuildFiles]
                  ELSE [pc |-> "SKILL.md", todo |-> {}]
    /\ UNCHANGED help

\* The placeholders of SKILL.md, then the author's two files.
ScaffoldWrite ==
    /\ builder.pc \in {"SKILL.md", "module.yaml", "module-help.csv"}
    /\ setup' = [setup EXCEPT ![builder.pc] = "own"]
    /\ builder' = [builder EXCEPT !.pc = CASE builder.pc = "SKILL.md" -> "module.yaml"
                                           [] builder.pc = "module.yaml" -> "module-help.csv"
                                           [] OTHER -> "built"]
    /\ UNCHANGED help

ScaffoldKilled ==
    /\ builder.pc \notin {"idle", "built"}
    /\ builder' = NotBuilding
    /\ UNCHANGED <<setup, help>>

BuildInit ==
    /\ setup \in {[f \in BuildFiles |-> v] : v \in {"", "old"}}
    /\ builder = NotBuilding
    /\ help \in HelpCsvs

BuildNext == ScaffoldStart \/ (\E f \in BuildFiles : ScaffoldFile(f)) \/ ScaffoldWrite \/ ScaffoldKilled
BuildSpec == BuildInit /\ [][BuildNext]_buildVars

-----------------------------------------------------------------------------
(* What validate-module passes is one whole build: whenever it looks, also  *)
(* after a scaffold was killed or while one runs, its three files are all   *)
(* the author's or all of the build before, never a mixture and never the   *)
(* template's.                                                              *)
PassIsOneBuild ==
    Validate(setup, help) =>
        \E v \in {"own", "old"} : \A f \in BuildFiles \ {"scripts"} : setup[f] = v

(* A new build that passes can be used from the help menu: every skill of   *)
(* the module is reached by a code that stands for one row only.            *)
PassIsReachable ==
    Validate(setup, help) /\ setup["module-help.csv"] = "own" =>
        \A f \in Folders : \E r \in help :
            r.skill = f /\ r.code # "" /\ \A x \in help : x.code = r.code => x = r
=============================================================================
