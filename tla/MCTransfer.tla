----------------------------- MODULE MCTransfer -----------------------------
(* A small instance of Transfer for TLC.                                   *)
EXTENDS Transfer, TLC

Symmetry == Permutations(Workers) \cup Permutations(Files)

\* Data behind a hole, and a trailing hole.
SomeFiles == {<<"hole", "x">>, <<"x", "hole">>}
=============================================================================
