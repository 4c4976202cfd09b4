------------------------ MODULE SchedulerRefinement ------------------------
(***************************************************************************)
(* Scheduler implements Multiplex.  A sandbox stops, for its clients, when *)
(* its Worker's slot is released; the store learns it one step later.      *)
(***************************************************************************)
EXTENDS Scheduler

Stopping(s) == {t \in Threads : th[t].pc = "save" /\ th[t].v = s}

PhaseOf(s) ==
    IF Stopping(s) # {} THEN StoppedSandbox(th[CHOOSE t \in Stopping(s) : TRUE].op, None).state
    ELSE store[s].state

Abstract ==
    INSTANCE Multiplex WITH
        phase <- [s \in Sandboxes |-> PhaseOf(s)],
        home <- [s \in Sandboxes |-> store[s].worker]

\* Seen through the API, every behaviour of the control plane and its Workers is one
\* of Multiplex: one running sandbox per Worker, paused ones restarted in place, and
\* no transition but create, start and stop.
ImplementsMultiplex == Abstract!Spec
=============================================================================
