-------------------------- MODULE SchedulerClaims --------------------------
(***************************************************************************)
(* What the comments, docs and tests of the repository say of Scheduler    *)
(* and Worker, and TLC refutes.  Each claim has a run of its own, with the *)
(* smallest instance and the fewest faults that refute it.                 *)
(***************************************************************************)
EXTENDS Scheduler

\* scheduling.md:16, a suspended sandbox resumes from a still present sticky local
\* snapshot, "else any idle Worker + rustfs download": whatever Worker it is put on,
\* its container grows from its newest checkpoint.  A Worker that hosted it before
\* keeps an old directory, and handleRestore prefers that to the download.
RestoresNewest ==
    \A w \in Workers : \A s \in Sandboxes : container[w][s] # "stale"

\* state-model.md:19, "A running sandbox occupies exactly one Worker": it never has
\* two containers.  Resume does not look at the state again once it holds knockMu.
RunsOnOneWorker ==
    \A s \in Sandboxes : \A v, w \in Workers :
       container[v][s] # "none" /\ container[w][s] # "none" => v = w

\* state-model.md:20, "A suspended/paused sandbox occupies no Worker", at least while
\* no request is being served.
StoppedOccupiesNothing ==
    (\A t \in Threads : th[t].pc = "idle") =>
       \A s \in Sandboxes : store[s].state \in {"suspended", "paused"} =>
          \A w \in Workers : s \notin alive[w]

\* scheduling.md:18, "Eviction under Worker pressure uses Suspend so victims stay
\* portable": a sandbox that was checkpointed stays restorable, from a container or
\* from its newest checkpoint on some disk or in the object store.
StaysRestorable ==
    \A s \in taken : store[s].state # "absent" =>
       \/ object[s] = "current"
       \/ \E w \in Workers : container[w][s] # "none" \/ image[w][s] = "current"
=============================================================================
