----------------------------- MODULE FileAudit -----------------------------
(* scripts/check-file-list.py: the File List of a story against what git    *)
(* says has changed.  The script asks git three times (the tracked files,   *)
(* the branch since its merge base, the working tree) while somebody may be *)
(* editing, committing, or rewriting the story.                             *)
EXTENDS Naturals

CONSTANTS
    Paths,      \* file paths
    ListedFolders,    \* directory entries a File List may have
    Below,      \* [ListedFolders -> SUBSET Paths], the paths that start with an entry
    Bare,       \* paths with neither a slash nor a dot (Makefile)
    MaxSteps    \* bound: what others do while the audit runs

ASSUME AuditAssumption == Below \in [ListedFolders -> SUBSET Paths] /\ Bare \subseteq Paths

ListEntries == Paths \cup ListedFolders

VARIABLES
    tree,      \* paths that differ from HEAD: staged, unstaged or untracked
    branch,    \* paths that differ between the merge base and HEAD
    renamed,   \* those of them git takes for the old name of a renamed file
    listed,    \* the bullets of the File List
    section,   \* whether the story has the section at all
    ignore,    \* the paths an --ignore glob matches
    base,      \* whether the base ref exists
    run,       \* the audit: [pc, declared, changed]
    others     \* history since the audit began: how many steps, the paths changed all
               \*   the time (seen) and at some time (ever), those first committed after
               \*   the branch was asked for (moved), the old names at that moment (old)

auditVars == <<tree, branch, renamed, listed, section, ignore, base, run, others>>

NoAudit == [pc |-> "idle", declared |-> {}, changed |-> {}]
Quiet == [n |-> 0, seen |-> {}, ever |-> {}, moved |-> {}, old |-> {}]

-----------------------------------------------------------------------------
\* looks_like_path: a bare name is a path only if git tracks it.
LooksLikePath(e, tracked) == e \notin Bare \/ e \in tracked

\* extract_file_list of the story text, after ls-files.
AuditRead ==
    /\ run.pc = "idle"
    /\ \E tracked \in {Paths, Paths \ Bare} :
         run' = [NoAudit EXCEPT !.pc = "branch", !.declared =
                   IF section THEN {e \in listed : LooksLikePath(e, tracked)} ELSE {}]
    /\ others' = [Quiet EXCEPT !.seen = tree \cup branch, !.ever = tree \cup branch]
    /\ UNCHANGED <<tree, branch, renamed, listed, section, ignore, base>>

\* Fault: what is committed is not asked for when the tree is dirty.
AuditBranch_CleanTreeOnly ==
    /\ run.pc = "branch"
    /\ run' = [run EXCEPT !.pc = "tree",
                          !.changed = IF base /\ tree = {} THEN branch \ renamed ELSE {}]
    /\ others' = [others EXCEPT !.old = renamed]
    /\ UNCHANGED <<tree, branch, renamed, listed, section, ignore, base>>

\* collect_git_changes: git diff --name-only since the merge base, which names
\* a renamed file by its new name alone; without a base, or without commits,
\* only the working tree counts.
AuditBranch ==
    /\ run.pc = "branch"
    /\ run' = [run EXCEPT !.pc = "tree", !.changed = IF base THEN branch \ renamed ELSE {}]
    /\ others' = [others EXCEPT !.old = renamed]
    /\ UNCHANGED <<tree, branch, renamed, listed, section, ignore, base>>

\* ... then git status, with every untracked file and both names of a rename;
\* apply_ignores.
AuditTree ==
    /\ run.pc = "tree"
    /\ run' = [run EXCEPT !.pc = "done", !.changed = (@ \cup tree) \ ignore]
    /\ UNCHANGED <<tree, branch, renamed, listed, section, ignore, base, others>>

AuditAgain ==
    /\ run.pc = "done" /\ run' = NoAudit /\ others' = Quiet
    /\ UNCHANGED <<tree, branch, renamed, listed, section, ignore, base>>

\* is_declared and is_satisfied: a directory entry covers the paths below it.
IsDeclared(p, declared) ==
    p \in declared \/ \E d \in ListedFolders \cap declared : p \in Below[d]

IsSatisfied(e, changed) ==
    IF e \in ListedFolders THEN Below[e] \cap changed # {} ELSE e \in changed

Missing == {p \in run.changed : ~IsDeclared(p, run.declared)}
Unchanged == {e \in run.declared : ~IsSatisfied(e, run.changed)}

\* audit's verdict; main exits 0 for it, else 1.
Clean == Missing = {} /\ Unchanged = {} /\ section

-----------------------------------------------------------------------------
\* Meanwhile: a file is edited or reverted, the tree is committed, the story's
\* File List changes.
Asking == run.pc \in {"branch", "tree"}

OtherSteps(committed) ==
    /\ run.pc # "done"
    /\ Asking => others.n < MaxSteps
    /\ others' = IF Asking
                 THEN [n     |-> others.n + 1,
                       seen  |-> others.seen \cap (tree' \cup branch'),
                       ever  |-> others.ever \cup tree' \cup branch',
                       moved |-> others.moved \cup (IF run.pc = "tree" THEN committed \ branch ELSE {}),
                       old   |-> others.old]
                 ELSE others
    /\ UNCHANGED <<section, ignore, base, run>>

Edit == \E p \in Paths :
    /\ tree' = tree \cup {p} /\ UNCHANGED <<branch, renamed, listed>> /\ OtherSteps({})
Revert == \E p \in tree :
    /\ tree' = tree \ {p} /\ UNCHANGED <<branch, renamed, listed>> /\ OtherSteps({})

\* Which paths git pairs as old names with a new one of their own: any, as far
\* as there are new ones, for it depends on how alike the contents are.
OldNames(paths) ==
    {old \in SUBSET paths : \E new \in [old -> paths \ old] :
        \A p, q \in old : new[p] = new[q] => p = q}

\* A path may be committed back to what it was at the merge base.
Commit == \E some \in (SUBSET tree) \ {{}} : \E back \in SUBSET (some \cap branch) :
    /\ tree' = tree \ some /\ branch' = (branch \cup some) \ back
    /\ renamed' \in OldNames(branch')
    /\ UNCHANGED listed /\ OtherSteps(some)

Rewrite == \E e \in ListEntries :
    /\ listed' = (listed \ {e}) \cup ({e} \ listed)
    /\ UNCHANGED <<tree, branch, renamed>> /\ OtherSteps({})

AuditInit ==
    /\ tree = {} /\ branch = {} /\ renamed = {} /\ listed = {}
    /\ section \in BOOLEAN /\ base \in BOOLEAN
    /\ ignore \in {{}} \cup {{p} : p \in Paths}
    /\ run = NoAudit /\ others = Quiet

AuditNext == \/ AuditRead \/ AuditBranch \/ AuditTree \/ AuditAgain
             \/ Edit \/ Revert \/ Commit \/ Rewrite

AuditSpec == AuditInit /\ [][AuditNext]_auditVars

-----------------------------------------------------------------------------
(* A clean audit misses no change: what differed from the base, committed   *)
(* or not, from the first question to git to the last is in the File List.  *)
(* It misses two kinds of path, whatever the docstring (lines 10-13,        *)
(* 173-179) says: one that is committed for the first time between the two  *)
(* questions is in neither answer, and the old name of a rename that is     *)
(* committed is in no answer at all.                                        *)
CleanMissesNothing ==
    run.pc = "done" /\ Clean /\ base =>
        \A p \in others.seen \ (ignore \cup others.moved \cup others.old) :
            p \in run.declared \/ \E d \in ListedFolders : d \in run.declared /\ p \in Below[d]

(* A clean audit believes nothing: behind every entry that counts as a path *)
(* there was a change in git at some moment of the audit.                   *)
CleanBelievesNothing ==
    run.pc = "done" /\ Clean =>
        \A e \in run.declared : (IF e \in ListedFolders THEN Below[e] ELSE {e}) \cap others.ever # {}

(* A clean report is true in both directions but for these paths, although  *)
(* the changes are read by several git commands while the developer goes on.*)
CleanIsTrue == CleanMissesNothing /\ CleanBelievesNothing
=============================================================================
