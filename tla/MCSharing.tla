------------------------------ MODULE MCSharing ------------------------------
(* Sharing with two subqueries: the second reads the first. *)
EXTENDS Sharing

CONSTANTS r1, r2, r3, r4, r5

\* The statement reads the outer subquery twice and the inner one twice, once
\* of these in a scalar subquery; the outer reads the inner.
MCReads == [r \in Readers |-> IF r \in {r1, r2} THEN 2 ELSE 1]
MCInside == [r \in Readers |-> IF r = r5 THEN 2 ELSE 0]
=============================================================================
