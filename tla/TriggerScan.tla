---------------------------- MODULE TriggerScan ----------------------------
(* run_triggers.py of the eval runner: does a query make claude reach for   *)
(* the skill?  The stream of the session is read in chunks of any size;     *)
(* parse_stream_for_trigger looks at the complete lines of each chunk and   *)
(* keeps nothing of an undecided chunk but its last, unfinished line.       *)
EXTENDS Integers, Sequences

CONSTANTS
    Streams,   \* what sessions print, as sequences of events
    Runs       \* --runs-per-query

\* Events: a tool block starts ("Skill", "Read" or another tool), a delta brings
\* the first or the second half of the skill's name, or none of it; the block
\* and the message stop; the whole message is repeated, with the name or not.
Starts == {"start Skill", "start Read"}
Messages == {"message with", "message without"}
StreamEvents == Starts \cup Messages \cup
    {"start other", "half 0", "half 1", "half 2", "stop", "message stop", "result", "text"}

\* Both halves of the name arrive between two places of a stream.
Both(s, p, q) == \E i, j \in p .. q : i < j /\ s[i] = "half 1" /\ s[j] = "half 2"

\* The message repeated at m is what was streamed before it: with the skill's
\* name only if no other tool was called and no block ended without the name,
\* and without it only if no block brought it.
Repeats(s, m) ==
    /\ s[m] = "message with" =>
         /\ \A i \in 1 .. m - 1 : s[i] \notin {"start other", "message stop", "result"}
         /\ \A p, q \in 1 .. m - 1 : s[p] \in Starts /\ p < q /\ s[q] = "stop" => Both(s, p, q)
    /\ s[m] = "message without" =>
         \A p, q \in 1 .. m - 1 : s[p] \in Starts => ~Both(s, p, q)

\* The first message of a session repeats what was streamed before it.  One
\* that calls two tools need not: what one block says, the next contradicts.
Echoes(s) ==
    \A m \in DOMAIN s :
        s[m] \in Messages /\ (\A i \in 1 .. m - 1 : s[i] \notin Messages) => Repeats(s, m)

ASSUME TriggerAssumption == Runs \in Nat \ {0} /\ Streams \subseteq Seq(StreamEvents)

Fresh == [pending |-> FALSE, halves |-> 0, verdict |-> "none"]

VARIABLES
    stream,    \* what this session prints
    at,        \* how much of it has been read
    scan,      \* "reading", then "yes", "no" or "timeout" (which is no, too)
    tally      \* per_query: [runs, triggers] of the runs that returned, runs left;
               \*   history: how many of those that returned named the skill

triggerVars == <<stream, at, scan, tally>>

-----------------------------------------------------------------------------
\* Fault: the repeated message is not looked at.
Line_NoMessage(s, e) ==
    IF s.verdict # "none" THEN s
    ELSE CASE e \in Starts -> [s EXCEPT !.pending = TRUE, !.halves = 0]
           [] e = "start other" -> [s EXCEPT !.verdict = "no"]
           [] e = "half 1" /\ s.pending -> [s EXCEPT !.halves = 1]
           [] e = "half 2" /\ s.pending /\ s.halves = 1 -> [s EXCEPT !.verdict = "yes"]
           [] e = "stop" /\ s.pending -> [s EXCEPT !.verdict = "no"]
           [] e \in {"message stop", "result"} -> [s EXCEPT !.verdict = "no"]
           [] OTHER -> s

\* One line of parse_stream_for_trigger; a verdict returns at once.
Line(s, e) ==
    IF s.verdict # "none" THEN s
    ELSE CASE e \in Starts -> [s EXCEPT !.pending = TRUE, !.halves = 0]
           [] e = "start other" -> [s EXCEPT !.verdict = "no"]
           [] e = "half 1" /\ s.pending -> [s EXCEPT !.halves = 1]
           [] e = "half 2" /\ s.pending /\ s.halves = 1 -> [s EXCEPT !.verdict = "yes"]
           [] e = "stop" /\ s.pending -> [s EXCEPT !.verdict = "no"]
           [] e \in {"message stop", "result", "message without"} -> [s EXCEPT !.verdict = "no"]
           [] e = "message with" -> [s EXCEPT !.verdict = "yes"]
           [] OTHER -> s

\* A call on a chunk of complete lines starts afresh and takes line after line.
LinesParsed(lines, n) ==
    LET s[i \in 0 .. Len(lines)] == IF i = 0 THEN Fresh ELSE Line(s[i - 1], lines[i])
    IN  s[n]
Parse(lines) == LinesParsed(lines, Len(lines)).verdict

-----------------------------------------------------------------------------
\* run_query_local: the complete lines of a chunk are parsed and forgotten.
ReadChunk ==
    /\ scan = "reading" /\ at < Len(stream)
    /\ \E n \in at + 1 .. Len(stream) :
         LET v == Parse(SubSeq(stream, at + 1, n)) IN
         /\ at' = n
         /\ scan' = IF v = "none" THEN "reading" ELSE v
    /\ UNCHANGED <<stream, tally>>

\* The session has ended before the next read: the rest comes at once and is
\* parsed at the end; what is undecided then counts as not triggered.
SessionOver ==
    /\ scan = "reading"
    /\ scan' = IF Parse(SubSeq(stream, at + 1, Len(stream))) = "yes" THEN "yes" ELSE "no"
    /\ at' = Len(stream)
    /\ UNCHANGED <<stream, tally>>

\* The timeout kills the session; an unfinished line is all there is to parse.
ScanTimeout ==
    /\ scan = "reading" /\ scan' = "timeout"
    /\ UNCHANGED <<stream, at, tally>>

\* The session reached for the skill.
NamesSkill(s) ==
    \/ \E i \in DOMAIN s : s[i] = "message with"
    \/ \E i, j \in DOMAIN s : i < j /\ s[i] = "half 1" /\ s[j] = "half 2"

\* main collects the result of a run, leaves out one that raised, and the next
\* run begins.
RunReturns ==
    /\ tally.left > 0
    /\ \E raised \in BOOLEAN :
         LET one(b) == IF b /\ ~raised THEN 1 ELSE 0 IN
         /\ scan = "reading" => raised
         /\ tally' = [runs |-> tally.runs + one(TRUE), left |-> tally.left - 1,
                      triggers |-> tally.triggers + one(scan = "yes"),
                      naming |-> tally.naming + one(NamesSkill(stream))]
    /\ stream' \in Streams
    /\ at' = 0 /\ scan' = "reading"

\* The verdict on a query that should trigger: the rate of the runs that
\* returned reaches the threshold, one half by default; without runs it is 0.
Reached == tally.runs > 0 /\ 2 * tally.triggers >= tally.runs

TriggerInit ==
    /\ stream \in Streams
    /\ at = 0 /\ scan = "reading"
    /\ tally = [runs |-> 0, triggers |-> 0, left |-> Runs, naming |-> 0]

TriggerNext == ReadChunk \/ SessionOver \/ ScanTimeout \/ RunReturns

TriggerSpec == TriggerInit /\ [][TriggerNext]_triggerVars

-----------------------------------------------------------------------------
(* Where a session is reported to have reached for the skill, it has,       *)
(* however many tools its messages call and wherever the pipe cut it.       *)
YesIsNamed == scan = "yes" => NamesSkill(stream)

(* A query is reported as triggering only if at least half of the runs that *)
(* returned really reached for the skill, whatever timed out or raised.     *)
ReportedIsReached == Reached => 2 * tally.naming >= tally.runs

(* The verdict does not depend on where the pipe cut a stream whose message *)
(* repeats it, although the parser forgets a tool block that a chunk leaves *)
(* open: the message decides it again.  Where a message calls two tools it  *)
(* does depend on it: cut after half of the skill's name, the second call   *)
(* is taken for the first one, and the verdict is no.                       *)
ChunkingIrrelevant ==
    /\ scan \in {"yes", "no"}
    /\ Echoes(stream) /\ \E i \in DOMAIN stream : stream[i] \in Messages
    => scan = (IF Parse(stream) = "yes" THEN "yes" ELSE "no")

(* What is reported as triggered was triggered, whichever runs return; the  *)
(* verdict on a session that its messages repeat is that on the whole of it.*)
TriggersAreTrue == YesIsNamed /\ ChunkingIrrelevant /\ ReportedIsReached
=============================================================================
