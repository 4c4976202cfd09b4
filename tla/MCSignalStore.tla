--------------------------- MODULE MCSignalStore ---------------------------
(* Small instances of SignalStore for TLC, and the claims TLC refutes.     *)
EXTENDS SignalStore, TLC

CallSymmetry == Permutations(Calls)

\* A footprint of its own for each sandbox, or the same for all.
OneMiB == [s \in Sandboxes |-> 1]
Growing == [s \in Sandboxes |-> s]

\* A view for safety under the one policy semantic-score, without pushes and commands:
\* which victim it takes is left open, so that no step and nothing the run checks depends
\* on activity, on the time of a Put or on service and wait.
WithoutAccounts ==
    <<now, clock, slot, ckpting, reserve, knock, call, tool, seen,
      [s \in Sandboxes |-> <<rec[s].H, rec[s].updated, rec[s].phase, rec[s].lock, rec[s].semantic>>],
      [s \in Sandboxes |-> <<box[s].state, box[s].host, box[s].snap>>],
      [s \in Sandboxes |-> <<view.box[s].state, view.box[s].host>>],
      view.left, view.up, view.free>>

\* signals/store.go:204, "OnEvict advances the GreedyDual clock".
ClockAdvances == [][clock' >= clock]_vars
=============================================================================
