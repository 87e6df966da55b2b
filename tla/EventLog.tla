------------------------------ MODULE EventLog ------------------------------
(***************************************************************************)
(* What the daemon promises whoever sends it events, without the channel,  *)
(* the tasks, the transactions and the restarts that keep the promise: an  *)
(* accepted event is stored at most once, in the order of acceptance; it   *)
(* is lost only when a write fails or the daemon crashes; a daemon that    *)
(* stops in an orderly way has stored or dropped all it accepted.          *)
(***************************************************************************)
EXTENDS Naturals

VARIABLES
    count,     \* events accepted; the n-th is called n
    pending,   \* accepted, neither stored nor lost
    stored,
    lost,
    open       \* the daemon takes events

logVars == <<count, pending, stored, lost, open>>

LogInit == count = 0 /\ pending = {} /\ stored = {} /\ lost = {} /\ open = FALSE

Start ==
    /\ ~open /\ open' = TRUE
    /\ UNCHANGED <<count, pending, stored, lost>>

Accept ==
    /\ open /\ count' = count + 1
    /\ pending' = pending \cup {count + 1}
    /\ UNCHANGED <<stored, lost, open>>

\* n is the event that was accepted first of those still to be stored.
Oldest(n) == n \in pending /\ \A m \in pending : n <= m

Store ==
    /\ open
    /\ \E n \in pending : /\ Oldest(n) /\ pending' = pending \ {n}
                          /\ stored' = stored \cup {n}
    /\ UNCHANGED <<count, lost, open>>

Lose ==
    /\ open
    /\ \E n \in pending : /\ Oldest(n) /\ pending' = pending \ {n}
                          /\ lost' = lost \cup {n}
    /\ UNCHANGED <<count, stored, open>>

Stop ==
    /\ open /\ pending = {} /\ open' = FALSE
    /\ UNCHANGED <<count, pending, stored, lost>>

LogCrash ==
    /\ open /\ open' = FALSE
    /\ pending' = {} /\ lost' = lost \cup pending
    /\ UNCHANGED <<count, stored>>

LogNext == Start \/ Accept \/ Store \/ Lose \/ Stop \/ LogCrash

LogSpec == LogInit /\ [][LogNext]_logVars
=============================================================================
