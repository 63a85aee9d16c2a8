---------------------------- MODULE SharingProofs ----------------------------
(***************************************************************************)
(* Proofs about the shared subqueries of a statement, for any subqueries,  *)
(* any readers and any nesting of one in another.                          *)
(***************************************************************************)
EXTENDS Sharing, TLAPS

(* What CellInv needs to be inductive: nothing runs while the rules do,    *)
(* what is published afterwards is the plan they kept, and a subquery is   *)
(* held by one of its own readers, only until it is settled.               *)
QuietRules ==
  phase = "rules" => /\ \A r \in Readers : pc[r] = "idle" /\ ran[r] = 0
                     /\ \A d \in Defs : holder[d] = Unread

PublishedIsKept == phase # "rules" => \A d \in Defs : published[d] = tree

HeldUnsettled ==
  \A d \in Defs : holder[d] # Unread => Reads[holder[d]] = d /\ settled[d] = Unread

SharingIInv == CellInv /\ QuietRules /\ PublishedIsKept /\ HeldUnsettled

LEMMA SharingInit == Init => SharingIInv
  <1> SUFFICES ASSUME Init PROVE SharingIInv
    OBVIOUS
  <1>1. TypeOK
    BY SharingAssumption DEF Init, TypeOK, States
  <1>2. HolderComputes /\ NothingRunsAlone
    BY SharingAssumption DEF Init, HolderComputes, NothingRunsAlone
  <1>3. RunsTheFinalPlan /\ FailsForCause
    BY DEF Init, RunsTheFinalPlan, FailsForCause
  <1>4. QuietRules /\ PublishedIsKept /\ HeldUnsettled
    BY DEF Init, QuietRules, PublishedIsKept, HeldUnsettled
  <1>. QED BY <1>1, <1>2, <1>3, <1>4 DEF SharingIInv, CellInv

(* What goes with a reader has in it all that is inside whatever it or     *)
(* they compute.                                                           *)
LEMMA GoneIsClosed ==
  ASSUME NEW r \in Readers
  PROVE  /\ GoneWith(r) \subseteq Readers /\ Closed(GoneWith(r))
         /\ pc[r] = "init" => InnerOf(Reads[r]) \subseteq GoneWith(r)
  <1>1. \A d \in Defs : InnerOf(d) \subseteq Nested
    BY DEF InnerOf, Nested, Defs
  <1>2. \A i \in Readers : Reads[i] \in Defs
    BY SharingAssumption
  <1>. QED BY <1>1, <1>2 DEF GoneWith, Under, Closed, Nested

-----------------------------------------------------------------------------
(* Types. *)
LEMMA SharingTypes == SharingIInv /\ [Next]_vars => TypeOK'
  <1> SUFFICES ASSUME SharingIInv, [Next]_vars PROVE TypeOK'
    OBVIOUS
  <1>. USE SharingAssumption DEF SharingIInv, CellInv, TypeOK, States
  <1>1. ASSUME NEW kept \in BOOLEAN, Rewrite(kept) PROVE TypeOK'
    BY <1>1 DEF Rewrite
  <1>2. CASE PublishShared \/ Execute
    BY <1>2 DEF PublishShared, Execute
  <1>3. ASSUME NEW r \in Readers, Poll(r) \/ Given(r) PROVE TypeOK'
    BY <1>3 DEF Poll, Given
  <1>4. ASSUME NEW r \in Readers, Compute(r) PROVE TypeOK'
    BY <1>4 DEF Compute, Fresh, Defs
  <1>5. ASSUME NEW r \in Readers, Collected(r) PROVE TypeOK'
    BY <1>5 DEF Collected
  <1>6. ASSUME NEW r \in Readers, NEW s \in States, Leave(r, s), failures' \in 0..MaxFailures
        PROVE  TypeOK'
    BY <1>6 DEF Leave
  <1>7. ASSUME NEW r \in Readers, Fail(r) \/ Drop(r) PROVE TypeOK'
    <2>1. failures' \in 0..MaxFailures
      BY <1>7 DEF Fail, Drop
    <2>2. \E s \in States : Leave(r, s)
      BY <1>7 DEF Fail, Drop
    <2>. QED BY <2>1, <2>2, <1>6
  <1>8. CASE UNCHANGED vars
    BY <1>8 DEF vars
  <1>. QED
    BY <1>1, <1>2, <1>3, <1>4, <1>5, <1>7, <1>8 DEF Next, Over

(* A reader that leaves takes with it exactly what was computed for it.    *)
LEMMA LeaveKeeps ==
  ASSUME SharingIInv, NEW r \in Readers, NEW s \in {"failed", "dropped"},
         pc[r] \in {"wait", "init"}, Leave(r, s),
         s = "failed" => failures' > 0, failures' >= failures, failures' \in Nat
  PROVE  /\ HolderComputes' /\ NothingRunsAlone' /\ RunsTheFinalPlan' /\ FailsForCause'
         /\ QuietRules' /\ PublishedIsKept' /\ HeldUnsettled'
  <1>. USE DEF SharingIInv, CellInv
  <1> DEFINE gone == GoneWith(r)
  <1>g. /\ gone \subseteq Readers
        /\ \A i \in gone \cup {r} : pc[i] = "init" => InnerOf(Reads[i]) \subseteq gone
    BY GoneIsClosed DEF Closed
  <1>p. \A q \in Readers :
          pc'[q] = IF q = r THEN s
                   ELSE IF q \in gone /\ pc[q] # "read" THEN "dropped" ELSE pc[q]
    BY DEF Leave
  <1>h. \A d \in Defs : holder'[d] = IF holder[d] \in gone \cup {r} THEN Unread ELSE holder[d]
    BY DEF Leave
  <1>u. UNCHANGED <<phase, tree, published, ran, settled>>
    BY DEF Leave
  <1>d. Unread \notin Readers /\ \A q \in Readers : Reads[q] \in Defs
    BY SharingAssumption
  <1> HIDE DEF gone
  <1>1. HolderComputes'
    BY <1>g, <1>p, <1>h, <1>d DEF HolderComputes
  <1>2. NothingRunsAlone'
    <2> SUFFICES ASSUME NEW q \in Readers, pc'[q] \in {"wait", "init"}, Inside[q] # 0
                 PROVE  holder'[Inside[q]] # Unread
      BY DEF NothingRunsAlone
    <2>1. q # r /\ q \notin gone /\ pc[q] \in {"wait", "init"}
      BY <1>p
    <2>2. Inside[q] \in Defs /\ holder[Inside[q]] # Unread
      BY <2>1, SharingAssumption DEF NothingRunsAlone, Places, Defs
    <2>3. ASSUME holder[Inside[q]] \in gone \cup {r} PROVE FALSE
      <3>1. PICK h \in gone \cup {r} : h = holder[Inside[q]]
        BY <2>3
      <3>2. Reads[h] = Inside[q] /\ pc[h] = "init"
        BY <3>1, <2>2, <1>g, <1>d DEF HeldUnsettled, HolderComputes
      <3>. QED BY <3>2, <1>g, <2>1 DEF InnerOf
    <2>. QED BY <2>2, <2>3, <1>h
  <1>3. RunsTheFinalPlan' /\ PublishedIsKept'
    BY <1>u DEF RunsTheFinalPlan, PublishedIsKept
  <1>4. FailsForCause'
    BY <1>p DEF FailsForCause, TypeOK
  <1>5. QuietRules'
    BY <1>u, <1>h DEF QuietRules
  <1>6. HeldUnsettled'
    BY <1>h, <1>u DEF HeldUnsettled
  <1>. QED BY <1>1, <1>2, <1>3, <1>4, <1>5, <1>6

-----------------------------------------------------------------------------
LEMMA SharingStep == SharingIInv /\ [Next]_vars => SharingIInv'
  <1> SUFFICES ASSUME SharingIInv, [Next]_vars PROVE SharingIInv'
    OBVIOUS
  <1>t. TypeOK' BY SharingTypes
  <1>d. /\ Unread \notin Readers /\ Unread \notin Answers
        /\ \A q \in Readers : Reads[q] \in Defs /\ Inside[q] # Reads[q]
    <2>1. \A q \in Readers : Inside[q] = 0 \/ Inside[q] > Reads[q]
      BY SharingAssumption
    <2>2. \A q \in Readers : Reads[q] \in 1..NDefs /\ Inside[q] \in 0..NDefs /\ NDefs \in Nat
      BY SharingAssumption DEF Places, Defs
    <2>. QED BY <2>1, <2>2, SharingAssumption DEF Defs
  <1> DEFINE Rest == /\ HolderComputes /\ NothingRunsAlone /\ RunsTheFinalPlan /\ FailsForCause
                     /\ QuietRules /\ PublishedIsKept /\ HeldUnsettled
  <1>r. TypeOK /\ Rest
    BY DEF SharingIInv, CellInv
  <1>1. ASSUME NEW kept \in BOOLEAN, Rewrite(kept) PROVE Rest'
    BY <1>1, <1>r DEF Rewrite, HolderComputes, NothingRunsAlone, RunsTheFinalPlan,
       FailsForCause, QuietRules, PublishedIsKept, HeldUnsettled
  <1>2. ASSUME PublishShared \/ Execute PROVE Rest'
    <2>1. RunsTheFinalPlan'
      BY <1>2, <1>r DEF PublishShared, Execute, RunsTheFinalPlan
    <2>2. PublishedIsKept' /\ QuietRules'
      BY <1>2 DEF PublishShared, Execute, PublishedIsKept, QuietRules
    <2>3. HolderComputes' /\ NothingRunsAlone' /\ FailsForCause' /\ HeldUnsettled'
      BY <1>2, <1>r DEF PublishShared, Execute, HolderComputes, NothingRunsAlone,
         FailsForCause, HeldUnsettled
    <2>. QED BY <2>1, <2>2, <2>3
  <1>3. ASSUME NEW r \in Readers, Poll(r) PROVE Rest'
    <2>1. phase # "rules"
      <3>1. CASE Inside[r] = 0
        BY <1>3, <3>1 DEF Poll, Running
      <3>2. CASE Inside[r] # 0
        <4>1. Inside[r] \in Defs /\ holder[Inside[r]] # Unread
          BY <1>3, <3>2, SharingAssumption DEF Poll, Running, Places, Defs
        <4>. QED BY <4>1, <1>r DEF QuietRules
      <3>. QED BY <3>1, <3>2
    <2>2. published[Reads[r]] = tree /\ tree # 0
      BY <2>1, <1>r, <1>d DEF PublishedIsKept, TypeOK
    <2>3. \A q \in Readers : /\ pc'[q] = IF q = r THEN "wait" ELSE pc[q]
                             /\ ran'[q] = IF q = r THEN tree ELSE ran[q]
      BY <1>3, <2>2, <1>r DEF Poll, TypeOK
    <2>4. UNCHANGED <<phase, tree, published, holder, settled, failures>> /\ pc[r] = "idle"
      BY <1>3 DEF Poll
    <2>5. Inside[r] # 0 => holder[Inside[r]] # Unread
      BY <1>3 DEF Poll, Running
    <2>6. HolderComputes' /\ FailsForCause' /\ PublishedIsKept' /\ HeldUnsettled' /\ QuietRules'
      BY <1>r, <2>1, <2>3, <2>4 DEF HolderComputes, FailsForCause, PublishedIsKept,
         HeldUnsettled, QuietRules
    <2>7. NothingRunsAlone' /\ RunsTheFinalPlan'
      BY <1>r, <2>3, <2>4, <2>5 DEF NothingRunsAlone, RunsTheFinalPlan
    <2>. QED BY <2>6, <2>7
  <1>4. ASSUME NEW r \in Readers, Given(r) PROVE Rest'
    BY <1>4, <1>r DEF Given, TypeOK, HolderComputes, NothingRunsAlone, RunsTheFinalPlan,
       FailsForCause, QuietRules, PublishedIsKept, HeldUnsettled
  <1>5. ASSUME NEW r \in Readers, Compute(r) PROVE Rest'
    <2> DEFINE d == Reads[r]
    <2>1. /\ d \in Defs /\ pc[r] = "wait" /\ settled[d] = Unread /\ holder[d] = Unread
          /\ Inside[r] # d
      BY <1>5, <1>d DEF Compute
    <2>2. \A e \in Defs : holder'[e] = IF e = d THEN r ELSE holder[e]
      BY <1>5, <1>r DEF Compute, TypeOK
    <2>3. \A q \in Readers :
            /\ pc'[q] = IF q = r THEN "init" ELSE IF Inside[q] = d THEN "idle" ELSE pc[q]
            /\ ran'[q] = IF Inside[q] = d THEN 0 ELSE ran[q]
      BY <1>5 DEF Compute, Fresh, InnerOf
    <2>4. UNCHANGED <<phase, tree, published, settled, failures>>
      BY <1>5 DEF Compute
    <2>5. \A q \in Readers : Inside[q] = d => pc[q] \notin {"wait", "init"}
      BY <2>1, <1>r DEF NothingRunsAlone, Defs
    <2> HIDE DEF d
    <2>6. HolderComputes'
      <3> SUFFICES ASSUME NEW q \in Readers PROVE pc'[q] = "init" <=> holder'[Reads[q]] = q
        BY DEF HolderComputes
      <3>1. CASE q = r
        BY <3>1, <2>2, <2>3, <1>d DEF d
      <3>2. CASE q # r /\ Inside[q] = d
        BY <3>2, <2>2, <2>3, <2>5, <1>d, <1>r DEF HolderComputes
      <3>3. CASE q # r /\ Inside[q] # d
        BY <3>3, <2>1, <2>2, <2>3, <1>d, <1>r DEF HolderComputes
      <3>. QED BY <3>1, <3>2, <3>3
    <2>7. NothingRunsAlone'
      <3> SUFFICES ASSUME NEW q \in Readers, pc'[q] \in {"wait", "init"}, Inside[q] # 0
                   PROVE  holder'[Inside[q]] # Unread
        BY DEF NothingRunsAlone
      <3>1. pc[q] \in {"wait", "init"} /\ Inside[q] # d
        BY <2>1, <2>3
      <3>2. Inside[q] \in Defs
        BY SharingAssumption DEF Places, Defs
      <3>. QED BY <3>1, <3>2, <2>2, <1>r, <1>d DEF NothingRunsAlone
    <2>8. RunsTheFinalPlan' /\ FailsForCause' /\ PublishedIsKept'
      BY <1>r, <2>3, <2>4 DEF RunsTheFinalPlan, FailsForCause, PublishedIsKept
    <2>9. QuietRules'
      BY <1>r, <2>1, <2>4 DEF QuietRules
    <2>10. HeldUnsettled'
      BY <1>r, <2>1, <2>2, <2>4 DEF HeldUnsettled, d
    <2>. QED BY <2>6, <2>7, <2>8, <2>9, <2>10
  <1>6. ASSUME NEW r \in Readers, Collected(r) PROVE Rest'
    <2> DEFINE d == Reads[r]
    <2>1. /\ d \in Defs /\ pc[r] = "init" /\ holder[d] = r
          /\ \A q \in Readers : Inside[q] = d => pc[q] = "read"
      BY <1>6, <1>d, <1>r DEF Collected, InnerOf, HolderComputes
    <2>2. \A e \in Defs : /\ holder'[e] = IF e = d THEN Unread ELSE holder[e]
                          /\ e # d => settled'[e] = settled[e]
      BY <1>6, <1>r DEF Collected, TypeOK
    <2>3. \A q \in Readers : pc'[q] = IF q = r THEN "wait" ELSE pc[q]
      BY <1>6, <1>r DEF Collected, TypeOK
    <2>4. UNCHANGED <<phase, tree, published, ran, failures>>
      BY <1>6 DEF Collected
    <2> HIDE DEF d
    <2>5. HolderComputes'
      BY <1>d, <1>r, <2>1, <2>2, <2>3 DEF HolderComputes, d
    <2>6. NothingRunsAlone'
      <3> SUFFICES ASSUME NEW q \in Readers, pc'[q] \in {"wait", "init"}, Inside[q] # 0
                   PROVE  holder'[Inside[q]] # Unread
        BY DEF NothingRunsAlone
      <3>1. pc[q] \in {"wait", "init"} /\ Inside[q] # d
        BY <2>1, <2>3
      <3>2. Inside[q] \in Defs
        BY SharingAssumption DEF Places, Defs
      <3>. QED BY <3>1, <3>2, <2>2, <1>r DEF NothingRunsAlone
    <2>7. RunsTheFinalPlan' /\ FailsForCause' /\ PublishedIsKept' /\ QuietRules'
      BY <1>r, <2>1, <2>2, <2>3, <2>4 DEF RunsTheFinalPlan, FailsForCause, PublishedIsKept, QuietRules
    <2>8. HeldUnsettled'
      BY <1>r, <2>2 DEF HeldUnsettled
    <2>. QED BY <2>5, <2>6, <2>7, <2>8
  <1>7. ASSUME NEW r \in Readers, Fail(r) PROVE Rest'
    <2>1. failures' > 0 /\ failures' >= failures /\ failures' \in Nat
      <3>1. CASE \E i \in InnerOf(Reads[r]) : pc[i] = "failed"
        BY <3>1, <1>7, <1>r, SharingAssumption DEF Fail, FailsForCause, InnerOf, TypeOK
      <3>2. CASE ~\E i \in InnerOf(Reads[r]) : pc[i] = "failed"
        BY <3>2, <1>7, <1>r, SharingAssumption DEF Fail, TypeOK
      <3>. QED BY <3>1, <3>2
    <2>2. pc[r] = "init" /\ Leave(r, "failed")
      BY <1>7 DEF Fail
    <2>. QED BY <2>1, <2>2, LeaveKeeps
  <1>8. ASSUME NEW r \in Readers, Drop(r) PROVE Rest'
    <2>1. failures' >= failures /\ failures' \in Nat
      BY <1>8, <1>r, SharingAssumption DEF Drop, TypeOK
    <2>2. pc[r] \in {"wait", "init"} /\ Leave(r, "dropped")
      BY <1>8 DEF Drop
    <2>. QED BY <2>1, <2>2, LeaveKeeps
  <1>9. ASSUME UNCHANGED vars PROVE Rest'
    BY <1>9, <1>r DEF vars, HolderComputes, NothingRunsAlone, RunsTheFinalPlan,
       FailsForCause, QuietRules, PublishedIsKept, HeldUnsettled
  <1>10. Rest'
    BY <1>1, <1>2, <1>3, <1>4, <1>5, <1>6, <1>7, <1>8, <1>9 DEF Next, Over
  <1>. QED BY <1>t, <1>10 DEF SharingIInv, CellInv

LEMMA SharingInvariant == Spec => []SharingIInv
  BY SharingInit, SharingStep, PTL DEF Spec

(* A shared subquery is computed by one reader at a time, for somebody, on *)
(* the plan the optimiser kept, and a reader fails only where a            *)
(* computation did: whatever is dropped, fails, or is nested in what.      *)
THEOREM CellKept == Spec => []CellInv
  <1>1. SharingIInv => CellInv
    BY DEF SharingIInv
  <1>. QED BY <1>1, SharingInvariant, PTL

-----------------------------------------------------------------------------
(* Every step of the sharing is one of OnceAnswer or changes neither what  *)
(* is settled nor what is seen.                                            *)
LEMMA OnceStep == SharingIInv /\ [Next]_vars => [Once!OnceNext]_(Once!onceVars)
  <1> SUFFICES ASSUME SharingIInv, [Next]_vars PROVE [Once!OnceNext]_(Once!onceVars)
    OBVIOUS
  <1>. USE DEF Once!onceVars
  <1>1. ASSUME NEW r \in Readers, Given(r) PROVE Once!OnceNext
    <2>1. Once!See(r)
      BY <1>1 DEF Given, Once!See
    <2>. QED BY <2>1 DEF Once!OnceNext
  <1>2. ASSUME NEW r \in Readers, Compute(r) PROVE Once!OnceNext
    <2>1. Once!Forget(InnerOf(Reads[r]))
      BY <1>2 DEF Compute, Fresh, Once!Forget
    <2>2. InnerOf(Reads[r]) \in SUBSET Readers
      BY DEF InnerOf
    <2>. QED BY <2>1, <2>2 DEF Once!OnceNext
  <1>3. ASSUME NEW r \in Readers, Collected(r) PROVE Once!OnceNext
    <2>1. PICK a \in Answers : settled' = [settled EXCEPT ![Reads[r]] = a]
      BY <1>3 DEF Collected
    <2>2. Reads[r] \in Defs
      BY SharingAssumption
    <2>3. settled[Reads[r]] = Unread
      <3>1. holder[Reads[r]] = r /\ r # Unread
        BY <1>3, SharingAssumption DEF Collected, SharingIInv, CellInv, HolderComputes
      <3>. QED BY <3>1, <2>2 DEF SharingIInv, HeldUnsettled
    <2>4. Once!Settle(Reads[r], a)
      BY <2>1, <2>3, <1>3 DEF Collected, Once!Settle
    <2>. QED BY <2>2, <2>4 DEF Once!OnceNext
  <1>4. ASSUME NEW r \in Readers, Poll(r) \/ Fail(r) \/ Drop(r) PROVE UNCHANGED <<settled, seen>>
    BY <1>4 DEF Poll, Fail, Drop, Leave
  <1>5. ASSUME (\E kept \in BOOLEAN : Rewrite(kept)) \/ PublishShared \/ Execute \/ UNCHANGED vars
        PROVE  UNCHANGED <<settled, seen>>
    BY <1>5 DEF Rewrite, PublishShared, Execute, vars
  <1>. QED
    BY <1>1, <1>2, <1>3, <1>4, <1>5 DEF Next, Over

(* The statement never sees two versions of a subquery: each has one       *)
(* answer, settled once, and every reader reads that one, whoever          *)
(* computed it, gave up or failed meanwhile.                               *)
THEOREM SharingIsOnce == Spec => OneAnswer
  <1>1. Init => Once!OnceInit
    BY DEF Init, Once!OnceInit
  <1>. QED
    BY <1>1, OnceStep, SharingInvariant, PTL DEF Spec, OneAnswer, Once!OnceSpec
=============================================================================
