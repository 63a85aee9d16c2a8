------------------------------- MODULE Sharing -------------------------------
(***************************************************************************)
(* A subquery that a statement reads several times is computed once        *)
(* (src/df/sharing.rs): the physical plan of each is published where its   *)
(* readers find it, the first reader polled computes it, the others wait   *)
(* for what it computes.  Subqueries read one another, the inner ones      *)
(* first; a reader may be dropped at any time and a computation may fail.  *)
(***************************************************************************)
EXTENDS Naturals, FiniteSets

CONSTANTS
  NDefs,        \* shared subqueries, inner ones first
  Readers,      \* occurrences of them
  Reads,        \* which subquery each reads
  Inside,       \* the subquery an occurrence is in, 0 for the statement itself
  Early,        \* occurrences in a scalar subquery above the statement
  Answers,      \* what a computation may yield
  Unread,       \* no answer
  MaxRewrites,  \* bounds the physical rules' rebuilding of the plan
  MaxFailures   \* bounds the computations that fail

Defs == 1..NDefs
Places == 0..NDefs

ASSUME SharingAssumption ==
  /\ NDefs \in Nat /\ MaxRewrites \in Nat /\ MaxFailures \in Nat
  /\ Reads \in [Readers -> Defs] /\ Inside \in [Readers -> Places]
  /\ \A r \in Readers : Inside[r] = 0 \/ Inside[r] > Reads[r]
  /\ Early \subseteq {r \in Readers : Inside[r] = 0}
  /\ Unread \notin Answers \cup Readers

VARIABLES
  phase,      \* "rules", "ready" (scalar subqueries may run), "running"
  tree,       \* the version of the plan the rules keep
  rewrites,
  published,  \* per subquery: the version its readers would find, 0 for none
  pc,         \* per reader: "idle", "wait", "init", "read", "failed", "dropped"
  ran,        \* per reader: the version it computed, or found, 0 before
  holder,     \* per subquery: the reader computing it, or Unread
  settled,    \* per subquery: the answer kept for its readers
  seen,       \* per reader: the answer it was given
  failures

vars == <<phase, tree, rewrites, published, pc, ran, holder, settled, seen, failures>>

Init ==
  /\ phase = "rules" /\ tree = 1 /\ rewrites = 0
  /\ published = [d \in Defs |-> 1]
  /\ pc = [r \in Readers |-> "idle"]
  /\ ran = [r \in Readers |-> 0]
  /\ holder = [d \in Defs |-> Unread]
  /\ settled = [d \in Defs |-> Unread]
  /\ seen = [r \in Readers |-> Unread]
  /\ failures = 0

-----------------------------------------------------------------------------

\* Rebuilding the node publishes what it was rebuilt with, whether the rule
\* that did so keeps the result or throws it away.
Rewrite(kept) ==
  /\ phase = "rules" /\ rewrites < MaxRewrites
  /\ rewrites' = rewrites + 1
  /\ published' = [d \in Defs |-> rewrites + 2]
  /\ tree' = IF kept THEN rewrites + 2 ELSE tree
  /\ UNCHANGED <<phase, pc, ran, holder, settled, seen, failures>>

\* What was rebuilt last stays published, kept or not.
PublishSharedNothing ==
  /\ phase = "rules" /\ phase' = "ready"
  /\ UNCHANGED <<tree, rewrites, published, pc, ran, holder, settled, seen, failures>>

\* The last physical rule publishes the plan as it was finally left.
PublishShared ==
  /\ phase = "rules" /\ phase' = "ready"
  /\ published' = [d \in Defs |-> tree]
  /\ UNCHANGED <<tree, rewrites, pc, ran, holder, settled, seen, failures>>

Execute ==
  /\ phase = "ready" /\ phase' = "running"
  /\ published' = [d \in Defs |-> tree]
  /\ UNCHANGED <<tree, rewrites, pc, ran, holder, settled, seen, failures>>

-----------------------------------------------------------------------------
\* A reader in the statement runs with it; one inside a subquery runs while
\* that subquery is being computed.
Running(r) ==
  \/ Inside[r] = 0 /\ (phase = "running" \/ (phase = "ready" /\ r \in Early))
  \/ Inside[r] # 0 /\ holder[Inside[r]] # Unread

\* First polled, a reader takes the published plan, then finds an answer, or
\* somebody computing one, or nobody and computes it itself: the occurrences
\* inside the subquery are then started afresh.
InnerOf(d) == {r \in Readers : Inside[r] = d}

Fresh(f, d, v) == [r \in Readers |-> IF r \in InnerOf(d) THEN v ELSE f[r]]

Poll(r) ==
  /\ pc[r] = "idle" /\ Running(r)
  /\ ran' = [ran EXCEPT ![r] = published[Reads[r]]]
  /\ pc' = [pc EXCEPT ![r] = IF published[Reads[r]] = 0 THEN "failed" ELSE "wait"]
  /\ UNCHANGED <<phase, tree, rewrites, published, holder, settled, seen, failures>>

Given(r) ==
  /\ pc[r] = "wait" /\ settled[Reads[r]] # Unread
  /\ pc' = [pc EXCEPT ![r] = "read"]
  /\ seen' = [seen EXCEPT ![r] = settled[Reads[r]]]
  /\ UNCHANGED <<phase, tree, rewrites, published, ran, holder, settled, failures>>

\* Nobody waits: each reader computes its own answer.
ComputeBeside(r) ==
  /\ pc[r] = "wait"
  /\ holder' = [holder EXCEPT ![Reads[r]] = r]
  /\ pc' = [Fresh(pc, Reads[r], "idle") EXCEPT ![r] = "init"]
  /\ ran' = Fresh(ran, Reads[r], 0)
  /\ seen' = Fresh(seen, Reads[r], Unread)
  /\ UNCHANGED <<phase, tree, rewrites, published, settled, failures>>

Compute(r) ==
  /\ pc[r] = "wait" /\ settled[Reads[r]] = Unread /\ holder[Reads[r]] = Unread
  /\ holder' = [holder EXCEPT ![Reads[r]] = r]
  /\ pc' = [Fresh(pc, Reads[r], "idle") EXCEPT ![r] = "init"]
  /\ ran' = Fresh(ran, Reads[r], 0)
  /\ seen' = Fresh(seen, Reads[r], Unread)
  /\ UNCHANGED <<phase, tree, rewrites, published, settled, failures>>

Collected(r) ==
  /\ pc[r] = "init"
  /\ \A i \in InnerOf(Reads[r]) : pc[i] = "read"
  /\ \E a \in Answers : settled' = [settled EXCEPT ![Reads[r]] = a]
  /\ holder' = [holder EXCEPT ![Reads[r]] = Unread]
  /\ pc' = [pc EXCEPT ![r] = "wait"]
  /\ UNCHANGED <<phase, tree, rewrites, published, ran, seen, failures>>

-----------------------------------------------------------------------------
\* Everything that ends when the computation of d does: the occurrences inside
\* it, those inside what these are computing, and so on, and nothing else.
Closed(S) == \A i \in S : pc[i] = "init" => InnerOf(Reads[i]) \subseteq S

Nested == {r \in Readers : Inside[r] # 0}

Under(d) ==
  {q \in Nested : \A S \in SUBSET Nested : InnerOf(d) \subseteq S /\ Closed(S) => q \in S}

GoneWith(r) == IF pc[r] = "init" THEN Under(Reads[r]) ELSE {}

\* A reader leaves in state s: what it was computing is given up, with the
\* occurrences inside, and is free for the next reader.
Leave(r, s) ==
  LET gone == GoneWith(r) IN
  /\ pc' = [q \in Readers |-> IF q = r THEN s
                              ELSE IF q \in gone /\ pc[q] # "read" THEN "dropped" ELSE pc[q]]
  /\ holder' = [d \in Defs |-> IF holder[d] \in gone \cup {r} THEN Unread ELSE holder[d]]
  /\ UNCHANGED <<phase, tree, rewrites, published, ran, settled, seen>>

\* The reader fails and the cell stays taken.
FailHolding(r) ==
  /\ pc[r] = "init" /\ pc' = [pc EXCEPT ![r] = "failed"]
  /\ IF \E i \in InnerOf(Reads[r]) : pc[i] = "failed"
     THEN UNCHANGED failures
     ELSE failures < MaxFailures /\ failures' = failures + 1
  /\ UNCHANGED <<phase, tree, rewrites, published, ran, holder, settled, seen>>

\* The computation fails of itself, or because an occurrence inside it did;
\* the error is this reader's, and the next one computes again.
Fail(r) ==
  /\ pc[r] = "init"
  /\ IF \E i \in InnerOf(Reads[r]) : pc[i] = "failed"
     THEN UNCHANGED failures
     ELSE failures < MaxFailures /\ failures' = failures + 1
  /\ Leave(r, "failed")

\* The statement no longer wants what the reader would read: a limit was met,
\* another part failed, the statement was cancelled.
Drop(r) ==
  /\ Inside[r] = 0 /\ pc[r] \in {"wait", "init"}
  /\ Leave(r, "dropped") /\ UNCHANGED failures

Step(r) ==
  \/ Poll(r) \/ Given(r) \/ Compute(r) \/ Collected(r)
  \/ Fail(r) /\ \E i \in InnerOf(Reads[r]) : pc[i] = "failed"

Over ==
  /\ \A r \in Readers : Inside[r] = 0 => pc[r] \in {"read", "failed", "dropped"}
  /\ UNCHANGED vars

Next ==
  \/ \E kept \in BOOLEAN : Rewrite(kept)
  \/ PublishShared \/ Execute \/ Over
  \/ \E r \in Readers : Poll(r) \/ Given(r) \/ Compute(r) \/ Collected(r) \/ Fail(r) \/ Drop(r)

\* The runtime polls every stream of the statement; no computation need fail.
Fairness ==
  /\ WF_vars(PublishShared) /\ WF_vars(Execute)
  /\ \A r \in Readers : WF_vars(Step(r))

Spec == Init /\ [][Next]_vars /\ Fairness

-----------------------------------------------------------------------------
States == {"idle", "wait", "init", "read", "failed", "dropped"}

TypeOK ==
  /\ phase \in {"rules", "ready", "running"}
  /\ tree \in 1..(MaxRewrites + 1) /\ rewrites \in 0..MaxRewrites
  /\ published \in [Defs -> 0..(MaxRewrites + 1)]
  /\ pc \in [Readers -> States] /\ ran \in [Readers -> 0..(MaxRewrites + 1)]
  /\ holder \in [Defs -> Readers \cup {Unread}]
  /\ settled \in [Defs -> Answers \cup {Unread}]
  /\ seen \in [Readers -> Answers \cup {Unread}]
  /\ failures \in 0..MaxFailures

(* A subquery is being computed by exactly the reader that says so, and    *)
(* never twice at a time: a reader that was dropped or failed in the       *)
(* middle, or with the subquery it was in, leaves nobody waiting for it.   *)
HolderComputes ==
  \A r \in Readers : pc[r] = "init" <=> holder[Reads[r]] = r

(* A subquery that is computed inside another is computed for it: its      *)
(* readers there run only while the outer computation does.                *)
NothingRunsAlone ==
  \A r \in Readers : pc[r] \in {"wait", "init"} /\ Inside[r] # 0 => holder[Inside[r]] # Unread

(* Whoever computes a subquery computes the plan the optimiser kept, not   *)
(* one a rule built and threw away, scalar subqueries above the statement  *)
(* included, which run before the statement does.                          *)
RunsTheFinalPlan == \A r \in Readers : ran[r] \in {0, tree}

(* A failure is the failing reader's own: a statement all of whose         *)
(* computations succeed has no reader that fails.                          *)
FailsForCause == (\E r \in Readers : pc[r] = "failed") => failures > 0

(* A subquery is computed by one reader at a time, for somebody, on the    *)
(* plan that was kept, and fails only with a computation.                  *)
CellInv == TypeOK /\ HolderComputes /\ NothingRunsAlone /\ RunsTheFinalPlan /\ FailsForCause

(* Each subquery has one answer, and every reader reads it: the statement  *)
(* never sees two versions of a subquery, whoever computed it, gave up or  *)
(* failed meanwhile.                                                       *)
Once == INSTANCE OnceAnswer
OneAnswer == Once!OnceSpec

(* Every reader of the statement comes to an end, though the one that was  *)
(* computing is dropped or fails, and though subqueries read subqueries.   *)
EveryReaderEnds ==
  \A r \in Readers : Inside[r] = 0 => <>(pc[r] \in {"read", "failed", "dropped"})
=============================================================================
