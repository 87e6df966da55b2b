------------------------------ MODULE MCClaims ------------------------------
(***************************************************************************)
(* A sentence of the repository's comments about the recording core that   *)
(* the code does not keep: the property of a run whose expected result is  *)
(* a counterexample.                                                       *)
(***************************************************************************)
EXTENDS RecorderProperties

CONSTANTS s1, p1

\* One session that prompts, with and without a PID.
PromptInputs ==
    {[sess |-> s1, kind |-> "UserPromptSubmit", ntype |-> "None", pid |-> p,
      origin |-> "live"] : p \in {p1, NoPid}}

(* projection/liveness.rs, probe_once: "a real hook event that interleaves *)
(* between the probe's SELECT and the synthetic write wins".  The guard    *)
(* compares state and PID only, so a hook that leaves both as they were    *)
(* does not stop the probe.                                                *)
HookBeatsProbe ==
    \A i \in 1..Len(events) : events[i].cause \in {"NoPidAtUpgrade", "PidDead"} =>
        \A k \in (events[i].seen + 1)..(i - 1) :
            events[k].sess = events[i].sess => events[k].cause # "live"
=============================================================================
