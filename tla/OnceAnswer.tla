------------------------------ MODULE OnceAnswer ------------------------------
(***************************************************************************)
(* What sharing a subquery promises its readers: each subquery has one     *)
(* answer, settled once, and whoever reads it reads that one.              *)
(***************************************************************************)
CONSTANTS Readers, Defs, Reads, Answers, Unread

VARIABLES
  settled,  \* the answer of each subquery, or Unread
  seen      \* what each reader was given, or Unread

onceVars == <<settled, seen>>

OnceInit == settled = [d \in Defs |-> Unread] /\ seen = [r \in Readers |-> Unread]

Settle(d, a) ==
  settled[d] = Unread /\ settled' = [settled EXCEPT ![d] = a] /\ UNCHANGED seen

\* Giving a reader the answer; a reader inside a subquery may be started over.
See(r) ==
  /\ settled[Reads[r]] # Unread
  /\ seen' = [seen EXCEPT ![r] = settled[Reads[r]]] /\ UNCHANGED settled

Forget(R) ==
  seen' = [r \in Readers |-> IF r \in R THEN Unread ELSE seen[r]] /\ UNCHANGED settled

OnceNext ==
  \/ \E d \in Defs, a \in Answers : Settle(d, a)
  \/ \E r \in Readers : See(r)
  \/ \E R \in SUBSET Readers : Forget(R)

OnceSpec == OnceInit /\ [][OnceNext]_onceVars
=============================================================================
