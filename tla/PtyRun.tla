------------------------------ MODULE PtyRun ------------------------------
(* pty_runner.py of the eval runner: claude runs on a pseudo terminal, gets *)
(* one prompt when it has been silent, and its output is cut into lines and *)
(* kept as the transcript.  claude may print in pieces of any size, exit,   *)
(* hang, or go on after its result; the runner leaves on a timeout, some    *)
(* time after the result, or when the terminal closes.                      *)
EXTENDS Naturals, Sequences

CONSTANTS
    InitWait, PostResult, PtyTimeout,   \* INIT_WAIT_S, POST_RESULT_S, --timeout
    MaxPrinted                          \* bound: lines claude prints

ASSUME PtyAssumption ==
    InitWait \in Nat /\ PostResult \in Nat /\ PtyTimeout \in Nat /\ MaxPrinted \in Nat

VARIABLES
    claude,   \* [state: "running", "exited", or "stopped" by the runner;
              \*   prompted: whether it has the prompt;
              \*   printed: the lines it began, each "event", "result" or "text";
              \*   open: whether the last one lacks its newline]
    wire,     \* what is in the terminal: lines and pieces of lines, in order
    runner    \* [pc, kept: json_lines, half: the unfinished line in buf, doneAt,
              \*   clock, file: the transcript that was written]

ptyVars == <<claude, wire, runner>>

Tick(r) == [r EXCEPT !.clock = IF @ <= PtyTimeout THEN @ + 1 ELSE @]
NotDone == PtyTimeout + 9     \* done_at is None

-----------------------------------------------------------------------------
\* claude begins a line: text at any time, events once it has the prompt.
ClaudePrints ==
    /\ claude.state = "running" /\ ~claude.open /\ Len(claude.printed) < MaxPrinted
    /\ \E l \in {"text"} \cup (IF claude.prompted THEN {"event", "result"} ELSE {}) :
         /\ claude' = [claude EXCEPT !.printed = Append(@, l), !.open = TRUE]
         /\ wire' = Append(wire, l)
    /\ UNCHANGED runner

ClaudeEndsLine ==
    /\ claude.state = "running" /\ claude.open
    /\ claude' = [claude EXCEPT !.open = FALSE]
    /\ wire' = Append(wire, "newline")
    /\ UNCHANGED runner

ClaudeExits ==
    /\ claude.state = "running" /\ claude' = [claude EXCEPT !.state = "exited"]
    /\ UNCHANGED <<wire, runner>>

-----------------------------------------------------------------------------
\* Fault: every line is kept, whether it looks like JSON or not.
TakePiece_AnyLine(r, x) ==
    IF x # "newline" THEN [r EXCEPT !.half = x]
    ELSE [r EXCEPT !.half = "", !.kept = Append(@, r.half)]

\* One piece of a chunk: a newline completes the line; only a line that looks
\* like JSON is kept, and the first result starts the clock.
TakePiece(r, x) ==
    IF x # "newline" THEN [r EXCEPT !.half = x]
    ELSE IF r.half \in {"event", "result"}
    THEN [r EXCEPT !.half = "", !.kept = Append(@, r.half),
                   !.doneAt = IF r.half = "result" /\ @ = NotDone THEN r.clock ELSE @]
    ELSE [r EXCEPT !.half = ""]

\* The loop goes on while there is time.
Going == /\ runner.pc = "loop" /\ runner.clock <= PtyTimeout
         /\ runner.doneAt = NotDone \/ runner.clock <= runner.doneAt + PostResult

\* Something can be read: one piece of it; a chunk is as many as come.
ReadPiece ==
    /\ Going /\ wire # <<>>
    /\ wire' = Tail(wire)
    /\ \E r \in {runner, Tick(runner)} : runner' = TakePiece(r, Head(wire))
    /\ UNCHANGED claude

\* Silence: after InitWait the prompt is sent, once.
Silence ==
    /\ Going /\ wire = <<>> /\ claude.state = "running"
    /\ runner' = Tick(runner)
    /\ claude' = [claude EXCEPT !.prompted = @ \/ runner.clock >= InitWait]
    /\ UNCHANGED wire

\* The loop ends: on the timeout, after the result, or on a closed terminal.
PtyLeaves ==
    /\ runner.pc = "loop"
    /\ ~Going \/ (wire = <<>> /\ claude.state = "exited")
    /\ runner' = [runner EXCEPT !.pc = "stop"]
    /\ UNCHANGED <<claude, wire>>

\* finally: exit is typed, then terminate and, after five seconds, kill.
StopClaude ==
    /\ runner.pc = "stop" /\ runner' = [runner EXCEPT !.pc = "write"]
    /\ claude' = [claude EXCEPT !.state = IF @ = "running" THEN "stopped" ELSE @]
    /\ UNCHANGED wire

WriteTranscript ==
    /\ runner.pc = "write"
    /\ runner' = [runner EXCEPT !.pc = "done", !.file = runner.kept]
    /\ UNCHANGED <<claude, wire>>

PtyInit ==
    /\ claude = [state |-> "running", prompted |-> FALSE, printed |-> <<>>, open |-> FALSE]
    /\ wire = <<>>
    /\ runner = [pc |-> "loop", kept |-> <<>>, half |-> "", doneAt |-> NotDone, clock |-> 0,
                 file |-> <<>>]

RunnerStep == ReadPiece \/ Silence \/ PtyLeaves \/ StopClaude \/ WriteTranscript

PtyNext == ClaudePrints \/ ClaudeEndsLine \/ ClaudeExits \/ RunnerStep

PtySpec == PtyInit /\ [][PtyNext]_ptyVars /\ WF_ptyVars(RunnerStep)

-----------------------------------------------------------------------------
\* The events among the first n of some lines, in order.
EventsIn(lines, n) ==
    LET kept[i \in 0 .. Len(lines)] ==
          IF i = 0 THEN <<>>
          ELSE IF lines[i] = "text" THEN kept[i - 1] ELSE Append(kept[i - 1], lines[i])
    IN  kept[n]

Events(n) == EventsIn(claude.printed, n)

(* The transcript is what claude printed: whole events, in order, from the  *)
(* first; everything if it exited by itself in time, and nothing of a line  *)
(* that was cut off, however the terminal cut the output.                   *)
TranscriptIsPrinted ==
    runner.pc = "done" =>
        /\ \E n \in 0 .. Len(claude.printed) : runner.file = Events(n)
        /\ claude.state = "exited" /\ wire = <<>> =>
             runner.file = Events(IF claude.open THEN Len(claude.printed) - 1
                                  ELSE Len(claude.printed))

(* A runner whose clock has started returns and claude is gone, also if     *)
(* claude hangs, chatters until the timeout without ever leaving a silence  *)
(* for the prompt, or goes on after its result.                             *)
PtyReturns == runner.clock > 0 ~> (runner.pc = "done" /\ claude.state # "running")
=============================================================================
