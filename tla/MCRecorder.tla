----------------------------- MODULE MCRecorder -----------------------------
(* Small instances of Recorder for TLC. *)
EXTENDS RecorderProperties, TLC

CONSTANTS s1, s2, p1, p2

Hook(s, k, p) == [sess |-> s, kind |-> k, ntype |-> "None", pid |-> p, origin |-> "live"]
Note(s, n, p) == [Hook(s, "Notification", p) EXCEPT !.ntype = n]
Replayed(in) == [in EXCEPT !.origin = "replay"]

\* Two sessions that alternate on one process: the supersession race.
RolloverInputs ==
    {Hook(s, k, p) : s \in {s1, s2}, k \in {"UserPromptSubmit", "Stop"}, p \in {p1}}

\* One session that moves between two processes, or has an event without one.
ResumeInputs ==
    {Hook(s1, "UserPromptSubmit", p) : p \in {p1, p2}} \cup {Hook(s1, "Stop", NoPid)}

\* Live and replayed events of two sessions on one PID, across restarts.
RestartInputs ==
    {Hook(s1, "UserPromptSubmit", p1), Hook(s1, "Stop", NoPid),
     Replayed(Hook(s2, "Stop", p1))}

Symmetric == Permutations(Sessions) \cup Permutations(Pids)
=============================================================================
