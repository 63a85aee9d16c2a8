----------------------------- MODULE MCStatement -----------------------------
(* Statement with two calls, one of them hosted, on a gate of one place. *)
EXTENDS Statement

CONSTANTS c1, c2, s1, s2

Shape(n, e, b, f) == [items |-> n, endless |-> e, blocking |-> b, fails |-> f]

\* A streaming plan of one batch a scan, one that fails, one that holds back, an
\* endless one that streams, and a join that spins without emitting.
MCPlans == {Shape(1, FALSE, FALSE, FALSE), Shape(1, FALSE, TRUE, TRUE),
            Shape(1, FALSE, TRUE, FALSE), Shape(1, TRUE, FALSE, FALSE),
            Shape(1, TRUE, TRUE, FALSE)}
=============================================================================
