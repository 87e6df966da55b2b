---------------------------- MODULE SourceGroups ---------------------------
(* The distillator's analysis of its sources (analyze_sources.py): the      *)
(* files of several inputs, each once, put into groups of a base document   *)
(* with its companions by their names, and the routing of the work.         *)
EXTENDS Integers, Sequences, FiniteSets

CONSTANTS
    Sources,      \* files, as they resolve
    NameOf,       \* [Sources -> file names]
    BaseOf,       \* [file names -> file names]; the name itself: no companion
    MaxSources    \* bound: files listed, repetitions included

FileNames == {NameOf[f] : f \in Sources}

ASSUME SourcesAssumption ==
    /\ MaxSources \in Nat
    /\ NameOf \in [Sources -> DOMAIN BaseOf]

VARIABLE sources   \* the files the inputs list, in order

sourceVars == <<sources>>

-----------------------------------------------------------------------------
AddOnce(items, x) == IF \E i \in DOMAIN items : items[i] = x THEN items ELSE Append(items, x)

\* The first n items of a list without their repetitions.
FirstPlaces(listed, n) ==
    LET items[i \in 0 .. Len(listed)] == IF i = 0 THEN <<>> ELSE AddOnce(items[i - 1], listed[i])
    IN  items[n]

\* resolve_inputs: what several inputs list, each file at its first place.
ResolveInputs(listed) == FirstPlaces(listed, Len(listed))

\* The state of suggest_groups: members, pairs <<group, name, role>>; opened,
\* the groups so far; assigned and ungrouped, names.
NoGroups == [members |-> {}, opened |-> {}, assigned |-> {}, ungrouped |-> {}]

\* A companion opens its group, with the base if that is listed and free.
WithBase(g, key, names) ==
    IF key \in g.opened \/ key \notin names \/ key \in g.assigned THEN [g EXCEPT !.opened = @ \cup {key}]
    ELSE [g EXCEPT !.opened = @ \cup {key}, !.assigned = @ \cup {key},
                   !.members = @ \cup {<<key, key, "primary">>}]

\* One file of the loop.
GroupFile(g, n, names) ==
    IF n \in g.assigned THEN g
    ELSE IF BaseOf[n] # n
    THEN LET h == WithBase(g, BaseOf[n], names)
         IN  [h EXCEPT !.assigned = @ \cup {n},
                       !.members = @ \cup {<<BaseOf[n], n, "companion">>}]
    ELSE IF n \in g.opened THEN g
    ELSE [g EXCEPT !.ungrouped = @ \cup {n}]

NamesOf(files) == {NameOf[files[i]] : i \in DOMAIN files}

\* The loop over the first n files.
GroupFiles(files, n) ==
    LET g[i \in 0 .. Len(files)] ==
          IF i = 0 THEN NoGroups ELSE GroupFile(g[i - 1], NameOf[files[i]], NamesOf(files))
    IN  g[n]

\* suggest_groups: the groups, then what is still without one.
SuggestGroups(files) ==
    LET g == GroupFiles(files, Len(files))
    IN  g.members \cup {<<n, n, "standalone">> : n \in g.ungrouped \ g.assigned}

-----------------------------------------------------------------------------
ListFile(f) ==
    /\ Len(sources) < MaxSources
    /\ sources' = Append(sources, f)

SourcesInit == sources = <<>>
SourcesNext == \E f \in Sources : ListFile(f)
SourcesSpec == SourcesInit /\ [][SourcesNext]_sourceVars

-----------------------------------------------------------------------------
(* Nothing is left out and nothing is distilled twice: in whatever order    *)
(* the inputs list the files, every file name is in exactly one place of    *)
(* one group, even where a companion is itself the base of another; a group *)
(* has at most one base, and a listed base that is no companion itself lies *)
(* with its companions.  (Two files of one name in different folders share  *)
(* that place: only one of them is kept.)                                   *)
EveryNameOnce ==
    LET files  == ResolveInputs(sources)
        groups == SuggestGroups(files)
        names  == NamesOf(files)
    IN  /\ \A n \in names : Cardinality({m \in groups : m[2] = n}) = 1
        /\ \A m1, m2 \in groups : m1[1] = m2[1] /\ m1[3] = "primary" /\ m2[3] = "primary" => m1 = m2
        /\ \A m \in groups : m[3] = "companion" /\ m[1] \in names /\ BaseOf[m[1]] = m[1] =>
              <<m[1], m[1], "primary">> \in groups
=============================================================================
