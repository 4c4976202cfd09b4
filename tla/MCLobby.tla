------------------------------ MODULE MCLobby ------------------------------
(* A small instance of Lobby for TLC.                                      *)
EXTENDS Lobby, TLC

Symmetry == Permutations(Workers)

Blank ==
    [phase |-> "", lock |-> FALSE, deadline |-> FALSE, left |-> 0,
     rated |-> FALSE, complexity |-> 0, sim |-> 0, confidence |-> 0,
     attained |-> 0, wait |-> 0, H |-> 50, busy |-> FALSE]

\* The least score, with the negative wait a late mark leaves; an agent in its tool loop
\* with the highest; one whose task profile counts.
Idle == [Blank EXCEPT !.phase = "idle", !.attained = 600, !.wait = -5, !.H = 0]
ToolLoop == [Blank EXCEPT !.phase = "tool_loop", !.deadline = TRUE, !.left = -5,
                          !.wait = 3600, !.H = 1400]
Waits == [Blank EXCEPT !.phase = "llm_wait", !.deadline = TRUE, !.left = 4, !.rated = TRUE,
                       !.complexity = 700, !.sim = 2000, !.confidence = 800]
SomeSignals == {Blank, Idle, ToolLoop, Waits}
=============================================================================
