----------------------------- MODULE Policies ------------------------------
(***************************************************************************)
(* The decisions of internal/policy, as sets of the answers they may give: *)
(* {} is an error.  A view v is what the scheduler hands to a policy:      *)
(*   v.workers, v.free    the Workers listed, and those with a free slot   *)
(*   v.running, v.host    the running sandboxes and their Workers          *)
(*   v.first              the one listed first on a Worker, or NoVictim    *)
(*   v.busy, v.locked     sandboxes whose signals say checkpointInProgress *)
(*                        and tool loop or lock                            *)
(*   v.idle, v.keepH      runtimeIdle and keepAliveH of a sandbox          *)
(* Sandboxes are numbered in the order of CreatedAt.  A Worker that        *)
(* answers always reports itself healthy.  Which idle Worker has the least *)
(* load, and whose keepScore is the lowest, is left open.                  *)
(***************************************************************************)
EXTENDS Integers

PolicyNames == {"random", "fifo", "lru-idle", "resource-evict", "semantic-score"}

WorkerEligibleForPlace(v, w) == w \in v.free

\* Only the running sandbox listed first on w is looked at.
WorkerHostingCheckpoint(v, w) == v.first[w] \in v.busy

IdleWorkers(v) ==
    {w \in v.workers : WorkerEligibleForPlace(v, w) /\ ~WorkerHostingCheckpoint(v, w)}

\* The elements of S that come first by key, the older one of equals.
Leading(S, Before(_, _)) ==
    {s \in S : \A x \in S \ {s} : Before(s, x) \/ (~Before(x, s) /\ s < x)}

PickOldest(v) == Leading(v.running, <)

PickLRUVictim(v) == Leading(v.running, LAMBDA s, x : v.idle[s] > v.idle[x])

PickGDSVictim(v) == Leading(v.running, LAMBDA s, x : v.keepH[s] < v.keepH[x])

\* Every candidate busy, or every one locked, is an error; SEMANTIC_OVERRIDE off.
PickSemanticVictim(v) == (v.running \ v.busy) \ v.locked

PickVictim(policy, v) ==
    CASE policy = "random"         -> v.running
      [] policy = "fifo"           -> PickOldest(v)
      [] policy = "lru-idle"       -> PickLRUVictim(v)
      [] policy = "resource-evict" -> PickGDSVictim(v)
      [] policy = "semantic-score" -> PickSemanticVictim(v)

NoVictim == 0

Place(policy, v) ==
    IF IdleWorkers(v) # {} THEN {[worker |-> w, victim |-> NoVictim] : w \in IdleWorkers(v)}
    ELSE {[worker |-> v.host[s], victim |-> s] : s \in PickVictim(policy, v)}

TryStickyResume(v, home) == {home} \cap IdleWorkers(v)

Resume(policy, v, home) ==
    IF TryStickyResume(v, home) # {} THEN {[worker |-> home, victim |-> NoVictim]}
    ELSE Place(policy, v)
=============================================================================
