----------------------------- MODULE Multiplex -----------------------------
(***************************************************************************)
(* What the control plane promises its clients: sandboxes time-share a     *)
(* pool of Workers, one at a time on each; a stopped sandbox may be        *)
(* started again anywhere if it was suspended, and only on its own Worker  *)
(* if it was paused.  No store, no locks, no Worker calls.                 *)
(***************************************************************************)
CONSTANTS Sandboxes, Workers, None

VARIABLES
    phase,      \* phase[s]: what GET /v1/sandboxes/s reports
    home        \* home[s]: the Worker s runs on, or last ran on

vars == <<phase, home>>

Phases == {"absent", "suspended", "paused", "running"}

TypeOK ==
    /\ phase \in [Sandboxes -> Phases]
    /\ home \in [Sandboxes -> Workers \cup {None}]

Init ==
    /\ phase = [s \in Sandboxes |-> "absent"]
    /\ home = [s \in Sandboxes |-> None]

Create(s) ==
    /\ phase[s] = "absent"
    /\ phase' = [phase EXCEPT ![s] = "suspended"]
    /\ UNCHANGED home

Occupied(w) == \E s \in Sandboxes : phase[s] = "running" /\ home[s] = w

Start(s, w) ==
    /\ phase[s] \in {"suspended", "paused"}
    /\ phase[s] = "paused" => w = home[s]
    /\ ~Occupied(w)
    /\ phase' = [phase EXCEPT ![s] = "running"]
    /\ home' = [home EXCEPT ![s] = w]

Stop(s) ==
    /\ phase[s] = "running"
    /\ \E p \in {"suspended", "paused"} : phase' = [phase EXCEPT ![s] = p]
    /\ UNCHANGED home

Next ==
    \E s \in Sandboxes : Create(s) \/ Stop(s) \/ \E w \in Workers : Start(s, w)

Spec == Init /\ [][Next]_vars
=============================================================================
