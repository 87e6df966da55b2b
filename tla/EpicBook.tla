----------------------------- MODULE EpicBook ------------------------------
(* The epic file of the story automator (core/epic_parser.py): parse-epic   *)
(* lists its stories, parse-story cuts out one story and scores its         *)
(* complexity, parse-story-range turns the user's choice into story ids and *)
(* epic-complete says whether the choice ends the epic.                     *)
EXTENDS Integers, Sequences, FiniteSets

CONSTANTS
    StoryIds,     \* ids of stories, as pairs <<epic, story>>
    Scores,       \* the rules file: [ac1, ac2, acScore1, acScore2, depScore,
                  \*   words, wordScore, hotScore, easyScore, low, medium]
    MaxBookLines  \* bound: lines of the epic file

\* A line of the file.  canonical: one blank after each hash mark and word, as
\* the test for the end of a section wants it; the headers' own patterns take
\* any number.
Headers == [kind : {"story"}, id : StoryIds, canonical : BOOLEAN]
Marks   == [kind : {"epic"}, canonical : BOOLEAN]
\* Contents: a hot line matches a rule that adds to the score, an easy one a
\* "simplicity reducer", a rule whose score is negative.
Contents == [kind : {"ac", "text", "hot", "easy", "no dependency", "dependency", "empty dependency"}]

ASSUME BookAssumption ==
    /\ StoryIds \subseteq Nat \X Nat /\ MaxBookLines \in Nat
    /\ Scores \in [{"ac1", "ac2", "acScore1", "acScore2", "depScore", "words", "wordScore",
                    "hotScore", "easyScore", "low", "medium"} -> Int]
    /\ \A f \in DOMAIN Scores \ {"easyScore"} : Scores[f] >= 0
    /\ Scores.easyScore <= 0
    /\ Scores.ac1 <= Scores.ac2 /\ Scores.acScore1 <= Scores.acScore2
    /\ Scores.low <= Scores.medium

VARIABLE epicFile   \* its lines

bookVars == <<epicFile>>

-----------------------------------------------------------------------------
\* One line of the loop, and its first n lines: the ids of the stories so far.
AddStory(ids, l) == IF l.kind = "story" THEN Append(ids, l.id) ELSE ids
StoriesIn(lines, n) ==
    LET ids[i \in 0 .. Len(lines)] == IF i = 0 THEN <<>> ELSE AddStory(ids[i - 1], lines[i])
    IN  ids[n]

\* parse_epic_file: the ids of the stories, in the order of the file.
ParseEpicFile(lines) == StoriesIn(lines, Len(lines))

HeaderAt(lines, id) == {i \in DOMAIN lines : lines[i].kind = "story" /\ lines[i].id = id}
SmallestOf(S) == CHOOSE i \in S : \A j \in S : i <= j

\* Fault: a section ends at the next story only.
EndsSection_StoriesOnly(l) == l.kind = "story" /\ l.canonical

\* The lines that end a story's section.
EndsSection(l) == l.kind \in {"story", "epic"} /\ l.canonical

\* parse_story: the lines after the first header of the story, up to the end
\* of the section.
Section(lines, id) ==
    LET start == SmallestOf(HeaderAt(lines, id))
        ends  == {i \in DOMAIN lines : i > start /\ EndsSection(lines[i])}
    IN  SubSeq(lines, start + 1, IF ends = {} THEN Len(lines) ELSE SmallestOf(ends) - 1)

\* The first Dependencies line that says something.
Dependency(section) ==
    LET deps == {i \in DOMAIN section : section[i].kind \in {"no dependency", "dependency"}}
    IN  IF deps = {} THEN "" ELSE section[SmallestOf(deps)].kind

\* A rule counts once however many lines of the section match it.
Names(section, kind) == \E i \in DOMAIN section : section[i].kind = kind

\* The score of a section.  Everything after the heading of the acceptance
\* criteria counts as a criterion; each line is one word here.
ComplexityScore(section) ==
    LET headings == {i \in DOMAIN section : section[i].kind = "ac"}
        criteria == IF headings = {} THEN 0
                    ELSE Cardinality({i \in DOMAIN section :
                             i > SmallestOf(headings) /\ section[i].kind # "ac"})
        words    == Cardinality({i \in DOMAIN section : section[i].kind # "ac"})
    IN  (IF Names(section, "hot") THEN Scores.hotScore ELSE 0)
      + (IF Names(section, "easy") THEN Scores.easyScore ELSE 0)
      + (IF Scores.ac2 > 0 /\ criteria > Scores.ac2 THEN Scores.acScore2
         ELSE IF Scores.ac1 > 0 /\ criteria > Scores.ac1 THEN Scores.acScore1 ELSE 0)
      + (IF Dependency(section) = "dependency" THEN Scores.depScore ELSE 0)
      + (IF Scores.words > 0 /\ words > Scores.words THEN Scores.wordScore ELSE 0)

\* low_max and medium_max: 0 low, 1 medium, 2 high.
ComplexityLevel(score) ==
    IF score <= Scores.low THEN 0 ELSE IF score <= Scores.medium THEN 1 ELSE 2

-----------------------------------------------------------------------------
\* One part of the choice, "a-b"; its ends may come in either order.
RangePart(a, b) == IF a <= b THEN a .. b ELSE b .. a

\* parse_story_range: the ids of the chosen indices, those outside the file
\* left out.  "all" is the part <<1, total>>; the caller names every id.
ParseStoryRange(parts, ids) ==
    LET chosen == (UNION {RangePart(p[1], p[2]) : p \in parts}) \cap 1 .. Len(ids)
    IN  {ids[i] : i \in chosen}

\* epic_complete compares the greatest ids, part by part as numbers.
IdLess(x, y) == x[1] < y[1] \/ (x[1] = y[1] /\ x[2] < y[2])
GreatestId(S) == CHOOSE x \in S : \A y \in S : ~IdLess(x, y)
EpicIsComplete(lines, chosen) ==
    LET ids == {ParseEpicFile(lines)[i] : i \in DOMAIN ParseEpicFile(lines)}
    IN  chosen # {} /\ GreatestId(chosen) = GreatestId(ids)

-----------------------------------------------------------------------------
\* The author writes the file line by line.
AddLine(l) ==
    /\ Len(epicFile) < MaxBookLines
    /\ epicFile' = Append(epicFile, l)

BookInit == epicFile = <<>>
BookNext == \E l \in Headers \cup Marks \cup Contents : AddLine(l)
BookSpec == BookInit /\ [][BookNext]_bookVars

-----------------------------------------------------------------------------
(* A story gets its own lines and no others: in a file whose headers are    *)
(* all canonical, a line is in the section of a story exactly if that       *)
(* story's first header is the last header or epic mark before it.  (A      *)
(* header with a second blank is a story to parse-epic and a line of the    *)
(* story before it to parse-story.)                                         *)
OwnLinesOnly ==
    (\A i \in DOMAIN epicFile : epicFile[i].kind \in {"story", "epic"} => epicFile[i].canonical) =>
        \A id \in StoryIds : HeaderAt(epicFile, id) # {} =>
            LET start == SmallestOf(HeaderAt(epicFile, id))
                owned == {i \in start + 1 .. Len(epicFile) :
                            \A j \in start + 1 .. i : epicFile[j].kind \notin {"story", "epic"}}
            IN  Section(epicFile, id) = [k \in 1 .. Cardinality(owned) |-> epicFile[start + k]]

(* Only a reducer makes a story simpler: adding a line to the file lowers   *)
(* the score of no story in it, and so moves no story to a simpler level    *)
(* and weaker agents, unless the line makes the story match a reducer it    *)
(* did not match; that takes off what the rule says and no more.  Neither a *)
(* second match, nor more criteria, words or dependencies ever do.          *)
OnlyReducersSimplify ==
    \A id \in StoryIds : HeaderAt(epicFile, id) # {} =>
        LET old     == Section(epicFile, id)
            new     == Section(epicFile', id)
            reduced == Names(new, "easy") /\ ~Names(old, "easy")
        IN  /\ ~reduced => ComplexityLevel(ComplexityScore(new)) >= ComplexityLevel(ComplexityScore(old))
            /\ reduced => ComplexityScore(new) >= ComplexityScore(old) + Scores.easyScore

(* The commands fit together: choosing every story of the file, as one      *)
(* range in either direction or part by part, completes the epic, and a     *)
(* choice that leaves out the last story does not.                          *)
ChoiceCompletesEpic ==
    LET ids == ParseEpicFile(epicFile)
        n   == Len(ids)
    IN  n > 0 =>
        /\ \A parts \in {{<<1, n>>}, {<<n, 1>>}, {<<i, i>> : i \in 1 .. n}, {<<1, n + 1>>, <<n, n>>}} :
             EpicIsComplete(epicFile, ParseStoryRange(parts, ids))
        /\ \A i \in 1 .. n : (\A j \in 1 .. n : j >= i => \A k \in 1 .. n : k < i => IdLess(ids[k], ids[j])) =>
             ~EpicIsComplete(epicFile, ParseStoryRange({<<0, i - 1>>}, ids))

(* An epic is read as it is written: a story has its own lines, a choice    *)
(* the whole epic, and more text makes a story simpler only where it names  *)
(* a reducer.                                                               *)
EpicIsRead == [][(OwnLinesOnly /\ ChoiceCompletesEpic)' /\ OnlyReducersSimplify]_bookVars
=============================================================================
