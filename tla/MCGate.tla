------------------------------- MODULE MCGate -------------------------------
(* Gate with four callers, three of whose tokens can be cancelled. *)
EXTENDS Gate, TLC

CONSTANTS c1, c2, c3, c4

MCCallers == {c1, c2, c3, c4}
MCCancellable == {c2, c3, c4}
MCSymmetry == Permutations(MCCancellable)
=============================================================================
