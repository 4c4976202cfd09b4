---------------------------- MODULE MCScheduler ----------------------------
(* Small instances of Scheduler for TLC.                                   *)
EXTENDS SchedulerRefinement, TLC

\* Threads, sandboxes, Workers and golden ids are interchangeable.
Symmetry ==
    Permutations(Threads) \cup Permutations(Sandboxes)
        \cup Permutations(Workers) \cup Permutations(Goldens)

\* The directory of a golden sandbox is read only by the call that is about it.
Dirs ==
    [w \in Workers |-> [i \in Ids |->
        IF i \in Sandboxes \/ \E t \in Threads : th[t].v = i THEN image[w][i] ELSE "none"]]

WithoutGoldenDirs == <<alive, container, Dirs, object, taken, schedulerVars>>
=============================================================================
