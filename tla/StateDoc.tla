----------------------------- MODULE StateDoc ------------------------------
(* The text of a state document of the story automator.  It is read by a    *)
(* parser of its own (core/frontmatter.py), changed by substitution on      *)
(* whole lines (state-update), and judged by validate-state; the three see  *)
(* the same text in different ways.                                         *)
EXTENDS Integers, Sequences, FiniteSets

CONSTANTS
    DocKeys,      \* keys of the front matter, "status" and "storyRange" among them
    DocTexts,     \* scalar texts a key may be given
    Dashed,       \* those that hold the mark "---" somewhere
    CutAt,        \* what stands before the mark in each of them
    MaxDocLines   \* bound: lines of the document

ASSUME DocAssumption ==
    /\ {"status", "storyRange"} \subseteq DocKeys /\ "READY" \in DocTexts
    /\ "" \notin DocKeys \cup DocTexts
    /\ Dashed \subseteq DocTexts \ {"READY"} /\ CutAt \in [Dashed -> (DocTexts \ Dashed) \cup {""}]
    /\ MaxDocLines \in Nat

\* A line: "key: text" at the left margin (scalar), "key:" alone (open),
\* "- text" (item), an indented "key: text" (nested), a comment, the mark
\* "---" that ends the front matter, or a line of the body's table.  A
\* comment or a rule of the table that holds the mark is an end as well.
DocLine ==
    [kind : {"scalar"}, key : DocKeys, text : DocTexts] \cup
    [kind : {"open"}, key : DocKeys, text : {""}] \cup
    [kind : {"nested"}, key : DocKeys, text : {"READY"}] \cup
    [kind : {"item"}, key : {""}, text : {"READY"}] \cup
    [kind : {"comment", "end", "row done", "row open"}, key : {""}, text : {""}]

VARIABLES
    doc,      \* the lines after the opening mark
    edited    \* the document before the last state-update, and the update

docVars == <<doc, edited>>

NotEdited == [key |-> ""]

-----------------------------------------------------------------------------
\* extract_frontmatter splits the text at the next "---" wherever it is, in
\* the middle of a value as well: the front matter ends with what stands
\* before it on that line.  Without one there is no front matter.
HoldsMark(l) == l.kind = "end" \/ l.text \in Dashed

FrontLen(lines) ==
    LET marks == {i \in DOMAIN lines : HoldsMark(lines[i])}
        first == CHOOSE i \in marks : \A j \in marks : i <= j
    IN  IF marks = {} THEN 0 ELSE IF lines[first].kind = "end" THEN first - 1 ELSE first

AsRead(text) == IF text \in Dashed THEN CutAt[text] ELSE text

\* A key with nothing before the mark is a key alone.
CutLine(l) ==
    IF l.text \notin Dashed THEN l
    ELSE [kind |-> IF AsRead(l.text) = "" THEN "open" ELSE "scalar", key |-> l.key, text |-> AsRead(l.text)]

FrontMatter(lines) == [i \in 1 .. FrontLen(lines) |-> CutLine(lines[i])]

\* Fault: a scalar does not end the list before it.
OpenListAt_Scalar(front, i) ==
    LET opens == {j \in 1 .. i - 1 : front[j].kind = "open"}
    IN  IF opens = {} THEN ""
        ELSE front[CHOOSE j \in opens : \A k \in opens : k <= j].key

\* The key whose list is open at line i: the last line with a key at the
\* margin, if it has no text.
OpenListAt(front, i) ==
    LET keyed == {j \in 1 .. i - 1 : front[j].kind \in {"open", "scalar"}}
        last  == CHOOSE j \in keyed : \A k \in keyed : k <= j
    IN  IF keyed = {} THEN "" ELSE IF front[last].kind = "open" THEN front[last].key ELSE ""

\* parse_simple_frontmatter: the last line of a key counts; its items are
\* those below it.  Nested lines and comments are skipped.  A value is a
\* scalar or the number of items of a list; "" and no items: not there.
ParseFrontMatter(lines, key) ==
    LET front == FrontMatter(lines)
        at    == {j \in DOMAIN front : front[j].kind \in {"open", "scalar"} /\ front[j].key = key}
        last  == CHOOSE j \in at : \A k \in at : k <= j
    IN  IF at = {} THEN [text |-> "", items |-> 0]
        ELSE [text  |-> front[last].text,
              items |-> Cardinality({i \in last + 1 .. Len(front) :
                            front[i].kind = "item" /\ OpenListAt(front, i) = key})]

\* The lines the pattern ^key:.*$ matches, in the body as well.
Matches(l, key) == l.kind \in {"scalar", "open"} /\ l.key = key

\* _state_update: every such line is replaced, wherever it is.
Updated(lines, key, text) ==
    [i \in DOMAIN lines |-> IF Matches(lines[i], key)
                            THEN [kind |-> "scalar", key |-> key, text |-> text]
                            ELSE lines[i]]

\* cmd_validate_state, as far as one status and the range go.
ValidateState(lines) ==
    LET status == ParseFrontMatter(lines, "status")
        range  == ParseFrontMatter(lines, "storyRange")
    IN  /\ status.items = 0 /\ status.text = "READY"
        /\ range.text # "" \/ range.items > 0

\* cmd_state_metrics: the rows of the table, and those whose status cell
\* holds "done" or "complete" (also as part of another word).
StateMetrics(lines) ==
    [total     |-> Cardinality({i \in DOMAIN lines : lines[i].kind \in {"row done", "row open"}}),
     completed |-> Cardinality({i \in DOMAIN lines : lines[i].kind = "row done"})]

-----------------------------------------------------------------------------
\* The document as somebody wrote it.
WriteLine(l) ==
    /\ edited = NotEdited /\ Len(doc) < MaxDocLines
    /\ doc' = Append(doc, l)
    /\ UNCHANGED edited

\* state-update --set key=text; without a match nothing is written.
StateUpdate(key, text) ==
    /\ \E i \in DOMAIN doc : Matches(doc[i], key)
    /\ edited = NotEdited
    /\ doc' = Updated(doc, key, text)
    /\ edited' = [key |-> key, text |-> text, before |-> doc]

DocInit == doc = <<>> /\ edited = NotEdited
DocNext == (\E l \in DocLine : WriteLine(l)) \/ (\E k \in DocKeys, t \in DocTexts : StateUpdate(k, t))
DocSpec == DocInit /\ [][DocNext]_docVars

-----------------------------------------------------------------------------
InFront(lines, key) == \E i \in DOMAIN FrontMatter(lines) : Matches(FrontMatter(lines)[i], key)

\* A mark on a line of its own, which no update replaces.
Ended(lines) == \E i \in DOMAIN lines : lines[i].kind = "end"

\* Neither the new text nor a line it replaces holds the mark.
Markless(lines, key, text) ==
    text \notin Dashed /\ \A i \in DOMAIN lines : Matches(lines[i], key) => lines[i].text \notin Dashed

\* Every line of k is above every line of key.
AllAbove(lines, k, key) == \A i, j \in DOMAIN lines : Matches(lines[i], k) /\ Matches(lines[j], key) => i < j

(* state-update changes what it was told and nothing else, unless a text    *)
(* with the mark comes or goes: a key with a line in the front matter reads *)
(* back as the new text, up to the mark, even if it was a list; every other *)
(* key reads as before; nested keys and the table are never touched.  A     *)
(* text with the mark hides the keys below it, and in a document that has a *)
(* mark on a line of its own no key above it.  (An update that only hits a  *)
(* line of the body also says "ok".)                                        *)
UpdateIsLocal ==
    edited # NotEdited =>
        LET clean == Markless(edited.before, edited.key, edited.text)
            ended == Ended(edited.before)
        IN  /\ InFront(edited.before, edited.key) /\ (clean \/ ended) =>
                 ParseFrontMatter(doc, edited.key) = [text |-> AsRead(edited.text), items |-> 0]
            /\ \A k \in DocKeys \ {edited.key} :
                 clean \/ (ended /\ AllAbove(edited.before, k, edited.key)) =>
                    ParseFrontMatter(doc, k) = ParseFrontMatter(edited.before, k)
            /\ \A i \in DOMAIN doc : doc[i].kind = "nested" => doc[i] = edited.before[i]
            /\ StateMetrics(doc) = StateMetrics(edited.before)

(* A document validate-state accepts stays acceptable through every update  *)
(* that sets an allowed status or any range, and no text with the mark.     *)
ValidStaysValid ==
    /\ edited # NotEdited /\ ValidateState(edited.before)
    /\ Markless(edited.before, edited.key, edited.text)
    /\ edited.key = "status" => edited.text = "READY"
    => ValidateState(doc)

(* However long a run goes on updating its document, each update touches    *)
(* its key alone, and those below a text with the mark, and a valid         *)
(* document stays valid while no such text is set.                          *)
DocumentSurvives == UpdateIsLocal /\ ValidStaysValid
=============================================================================
