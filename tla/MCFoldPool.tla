----------------------------- MODULE MCFoldPool -----------------------------
(* FoldPool with two threads, three queries and a table of a few morsels. *)
EXTENDS FoldPool

CONSTANTS q1, q2, q3, t1, t2, f1, f2

ThreadSymmetry == Permutations(Threads)

MCTwoMorsels == {<<1, 1>>}
MCMorsels == {<<1, 1, 1>>, <<2>>}
=============================================================================
