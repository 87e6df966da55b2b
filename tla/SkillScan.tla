----------------------------- MODULE SkillScan -----------------------------
(* list_customizable_skills.py: one pass over several skill directories     *)
(* that lists which skills can be customised.  The same skill may lie in    *)
(* several of them, in different versions, some of them broken.             *)
EXTENDS SourceGroups

CONSTANTS
    ScanRoots,   \* directories given on the command line, "gone" if it is not there
    SkillNames,  \* skills
    MaxRoots     \* bound: directories given

ASSUME ScanAssumption == MaxRoots \in Nat

VARIABLE skills   \* [roots, tree]: the roots in order, what each holds

scanVars == <<skills>>

-----------------------------------------------------------------------------
\* main: the roots without their repetitions, in order of appearance.
ScannedRoots(roots) == FirstPlaces(roots, Len(roots))

NothingScanned == [seen |-> {}, entries |-> {}, errors |-> {}]

\* Fault: a name counts as found before its file was read.
ScanSkill_SeenFirst(acc, root, name, version) ==
    IF version = <<"none">> \/ name \in acc.seen THEN acc
    ELSE IF version \in {<<"broken">>, <<"parsed", {}>>}
    THEN [acc EXCEPT !.seen = @ \cup {name}, !.errors = @ \cup {<<root, name>>}]
    ELSE [acc EXCEPT !.seen = @ \cup {name},
                     !.entries = @ \cup {<<root, name, s>> : s \in version[2]}]

\* The body of scan_skills' inner loop.
ScanSkill(acc, root, name, version) ==
    IF version = <<"none">> THEN acc
    ELSE IF version = <<"broken">> THEN [acc EXCEPT !.errors = @ \cup {<<root, name>>}]
    ELSE IF name \in acc.seen THEN acc
    ELSE IF version = <<"parsed", {}>>
    THEN [acc EXCEPT !.seen = @ \cup {name}, !.errors = @ \cup {<<root, name>>}]
    ELSE [acc EXCEPT !.seen = @ \cup {name},
                     !.entries = @ \cup {<<root, name, s>> : s \in version[2]}]

\* scan_skills' outer loop on one root: the skills of a root have different
\* names, and one changes nothing that another looks at.
ScanRoot(acc, r, tree) ==
    LET one(n) == ScanSkill(acc, r, n, tree[r][n]) IN
    IF r = "gone" THEN [acc EXCEPT !.errors = @ \cup {<<r, "">>}]
    ELSE [seen    |-> acc.seen \cup UNION {one(n).seen : n \in SkillNames},
          entries |-> acc.entries \cup UNION {one(n).entries : n \in SkillNames},
          errors  |-> acc.errors \cup UNION {one(n).errors : n \in SkillNames}]

\* The scan of the first n of some roots.
RootsScanned(roots, tree, n) ==
    LET acc[i \in 0 .. Len(roots)] ==
          IF i = 0 THEN NothingScanned ELSE ScanRoot(acc[i - 1], roots[i], tree)
    IN  acc[n]

\* scan_skills: the roots in order.
ScanSkills(roots, tree) ==
    LET given == ScannedRoots(roots) IN RootsScanned(given, tree, Len(given))

-----------------------------------------------------------------------------
\* What a directory holds of a skill: no customize.toml, one that does not
\* parse, or one that parses, with the surfaces it declares.
Version == {<<"none">>, <<"broken">>} \cup {<<"parsed", S>> : S \in SUBSET {"agent", "workflow"}}

ScanInit == skills = [roots |-> <<>>, tree |-> [r \in ScanRoots |-> [n \in SkillNames |-> <<"none">>]]]

\* A root is named, or a skill's file written.
NameRoot(r) ==
    /\ Len(skills.roots) < MaxRoots
    /\ skills' = [skills EXCEPT !.roots = Append(@, r)]

WriteSkill(r, n, v) ==
    /\ skills.tree[r][n] = <<"none">> /\ v # <<"none">>
    /\ skills' = [skills EXCEPT !.tree[r][n] = v]

ScanNext == \/ \E r \in ScanRoots \cup {"gone"} : NameRoot(r)
            \/ \E r \in ScanRoots, n \in SkillNames, v \in Version : WriteSkill(r, n, v)
ScanSpec == ScanInit /\ [][ScanNext]_scanVars

-----------------------------------------------------------------------------
(* "the first occurrence wins": a skill is listed from the first named root *)
(* where its customize.toml parses, with all the surfaces of that file and  *)
(* of no other, and is missing from the list only with an error or if no    *)
(* named root has it; a broken copy never hides a good one.                 *)
FirstReadableWins ==
    LET roots == ScannedRoots(skills.roots)
        found == ScanSkills(skills.roots, skills.tree)
        readable(n) == {i \in DOMAIN roots : roots[i] # "gone" /\ skills.tree[roots[i]][n][1] = "parsed"}
        first(n) == CHOOSE i \in readable(n) : \A j \in readable(n) : i <= j
    IN  \A n \in SkillNames :
            LET listed == {e \in found.entries : e[2] = n} IN
            IF readable(n) = {}
            THEN /\ listed = {}
                 /\ \A r \in {roots[i] : i \in DOMAIN roots} \ {"gone"} :
                      skills.tree[r][n] = <<"broken">> => <<r, n>> \in found.errors
            ELSE LET r == roots[first(n)] IN
                 /\ listed = {<<r, n, s>> : s \in skills.tree[r][n][2]}
                 /\ listed = {} => <<r, n>> \in found.errors

(* A survey of source files or skills takes in every name once, and of      *)
(* several copies the first that can be read.                               *)
SurveysAreComplete == EveryNameOnce /\ FirstReadableWins
=============================================================================
