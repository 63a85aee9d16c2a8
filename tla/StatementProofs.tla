--------------------------- MODULE StatementProofs ---------------------------
(***************************************************************************)
(* Proofs about the statements of one engine, for any calls, any width of  *)
(* the gate, any scans and any number of cancellations.                    *)
(***************************************************************************)
EXTENDS Statement, TLAPS, FiniteSetTheorems

(* The types, those TypeOK leaves to the shape of Init too, and the gate:  *)
(* nobody is called to a slot that is not there.                           *)
Places == {"idle", "planned", "enter", "gate", "poll", "batch", "ran", "done"}
Returned == {"rows", "cancelled", "failed", "refused"}

FullTypes ==
  /\ token \in BOOLEAN /\ cancels \in 0..MaxCancels
  /\ pc \in [Calls -> Places] /\ alive \subseteq Calls \X Scans
  /\ plan \in [Calls -> PlanShape] /\ left \in [Calls -> [Scans -> Nat]]
  /\ ready \in [Calls -> 0..1] /\ chan \in [Calls -> 0..Capacity]
  /\ error \in [Calls -> {"none", "own", "scan"}]
  /\ run \in [Calls -> Returned \cup {"none"}]
  /\ outcome \in [Calls -> Returned \cup {"none", "not a query"}]
  /\ refused \in [Calls -> BOOLEAN] /\ saw \in [Calls -> BOOLEAN]
  /\ taken \in [Calls -> Nat] /\ late \in [Calls -> Nat]

GateCounts == IsFiniteSet(called) /\ free \in Nat /\ Cardinality(called) + free <= Width

-----------------------------------------------------------------------------
(* What holds of one call, whatever the others do. *)
Inside(c) == pc[c] \in {"poll", "batch", "ran"}
InHand(c) == IF pc[c] = "batch" THEN 1 ELSE 0

\* Batches that have left the plan, and those its scans have still to read.
Handed(c) == taken[c] + chan[c] + ready[c] + InHand(c)
Unread(c) == {b \in Scans \X (1..plan[c].items) : b[2] <= left[c][b[1]]}

(* Nothing happens before the plan is executed, or after the call is over. *)
Quiet(c) ==
  /\ ~Inside(c) => chan[c] = 0
  /\ ~Inside(c) /\ pc[c] # "done" => taken[c] = 0 /\ ready[c] = 0 /\ ~refused[c]
  /\ pc[c] \notin {"ran", "done"} => run[c] = "none"
  /\ pc[c] # "done" => outcome[c] = "none"
  /\ c \notin Hosted => chan[c] = 0

(* Nothing is lost between the scans and the callback.                     *)
NothingLost(c) ==
  Streaming(c) =>
    /\ \A s \in Scans : /\ left[c][s] <= plan[c].items
                        /\ <<c, s>> \notin alive => Ended(c, s)
                        /\ plan[c].fails => left[c][s] = plan[c].items
    /\ ~refused[c] /\ ~plan[c].endless =>
         IF plan[c].blocking
         THEN Handed(c) = IF \E s \in Scans : <<c, s>> \in alive THEN 0 ELSE 1
         ELSE Handed(c) + Cardinality(Unread(c)) = plan[c].items * Cardinality(Scans)

(* What `stream` returned, and then the call.                              *)
Reported(c) ==
  /\ pc[c] = "ran" /\ run[c] = "rows" =>
       /\ ~plan[c].fails /\ ~plan[c].endless
       /\ ~refused[c] => taken[c] + chan[c] = Batches(c)
  /\ outcome[c] = "rows" => ~plan[c].fails /\ taken[c] = Batches(c)
  /\ run[c] = "cancelled" => saw[c] \/ refused[c]
  /\ run[c] = "refused" => refused[c]
  /\ outcome[c] = "cancelled" => saw[c]
  /\ (outcome[c] = "refused") <=> (refused[c] /\ pc[c] = "done")

(* The token: who runs while it is set knows, and hears little more.       *)
Heard(c) ==
  token => /\ InFlight(c) => saw[c]
           /\ late[c] + chan[c] + InHand(c) <= IF c \in Hosted THEN Capacity + 1 ELSE 1

CallInv(c) ==
  /\ plan[c].fails => plan[c].endless \/ plan[c].items > 0
  /\ Quiet(c) /\ NothingLost(c) /\ Reported(c) /\ Heard(c)
  /\ Inside(c) => c \in called

StatementIInv == FullTypes /\ GateCounts /\ \A c \in Calls : CallInv(c)

(* The numbers of StatementAssumption. *)
LEMMA Numbers == Width \in Nat \ {0} /\ Capacity \in Nat \ {0} /\ MaxCancels \in Nat
  BY StatementAssumption

LEMMA StatementInit == Init => StatementIInv
  <1> SUFFICES ASSUME Init PROVE StatementIInv
    OBVIOUS
  <1>0. NoPlan \in PlanShape
    BY DEF NoPlan, PlanShape
  <1>1. FullTypes
    <2>1. token \in BOOLEAN /\ cancels \in 0..MaxCancels /\ alive \subseteq Calls \X Scans
      <3>1. token = FALSE /\ cancels = 0 /\ alive = {}
        BY DEF Init
      <3>2. 0 \in 0..MaxCancels
        BY Numbers
      <3>. QED BY <3>1, <3>2
    <2>2. pc \in [Calls -> Places] /\ plan \in [Calls -> PlanShape]
      BY <1>0 DEF Init, Places
    <2>3. left \in [Calls -> [Scans -> Nat]] /\ ready \in [Calls -> 0..1]
      BY DEF Init
    <2>4. chan \in [Calls -> 0..Capacity] /\ error \in [Calls -> {"none", "own", "scan"}]
      BY Numbers DEF Init
    <2>5. /\ run \in [Calls -> Returned \cup {"none"}]
          /\ outcome \in [Calls -> Returned \cup {"none", "not a query"}]
      BY DEF Init
    <2>6. refused \in [Calls -> BOOLEAN] /\ saw \in [Calls -> BOOLEAN]
      BY DEF Init
    <2>7. taken \in [Calls -> Nat] /\ late \in [Calls -> Nat]
      BY DEF Init
    <2>. QED BY <2>1, <2>2, <2>3, <2>4, <2>5, <2>6, <2>7 DEF FullTypes
  <1>2. GateCounts
    BY Numbers, FS_EmptySet DEF Init, Line!LineInit, GateCounts
  <1>3. \A c \in Calls : CallInv(c)
    BY StatementAssumption DEF Init, NoPlan, CallInv, Inside, InHand, InFlight, Quiet,
       NothingLost, Reported, Heard, Streaming
  <1>. QED BY <1>1, <1>2, <1>3 DEF StatementIInv

-----------------------------------------------------------------------------
(* Types. *)
LEMMA TypesSuffice == FullTypes => TypeOK
  BY DEF FullTypes, TypeOK, Places, Returned

LEMMA TypesStep == StatementIInv /\ [Next]_vars => FullTypes'
  <1> SUFFICES ASSUME StatementIInv, [Next]_vars PROVE FullTypes'
    OBVIOUS
  <1>t. FullTypes
    BY DEF StatementIInv
  <1>ready. ready \in [Calls -> 0..1]
    BY <1>t DEF FullTypes
  <1>chan. chan \in [Calls -> 0..Capacity]
    BY <1>t DEF FullTypes
  <1>left. left \in [Calls -> [Scans -> Nat]]
    BY <1>t DEF FullTypes
  <1>error. error \in [Calls -> {"none", "own", "scan"}]
    BY <1>t DEF FullTypes
  <1>pc. pc \in [Calls -> Places]
    BY <1>t DEF FullTypes
  <1>run. run \in [Calls -> Returned \cup {"none"}]
    BY <1>t DEF FullTypes
  <1>counts. taken \in [Calls -> Nat] /\ late \in [Calls -> Nat]
    BY <1>t DEF FullTypes
  <1>refused. refused \in [Calls -> BOOLEAN]
    BY <1>t DEF FullTypes
  <1>saw. saw \in [Calls -> BOOLEAN]
    BY <1>t DEF FullTypes
  <1>token. token \in BOOLEAN /\ cancels \in 0..MaxCancels
    BY <1>t DEF FullTypes
  <1>1. CASE Cancel \/ Reset
    <2>1. token' \in BOOLEAN /\ cancels' \in 0..MaxCancels
      <3>1. CASE Cancel
        <4>1. token' = TRUE /\ cancels < MaxCancels /\ cancels' = cancels + 1
          BY <3>1 DEF Cancel
        <4>. QED BY <4>1, <1>token, Numbers
      <3>2. CASE Reset
        BY <3>2, <1>token DEF Reset
      <3>. QED BY <1>1, <3>1, <3>2
    <2>2. saw' \in [Calls -> BOOLEAN]
      BY <1>1, <1>saw DEF Cancel, Reset, InFlight
    <2>3. late' \in [Calls -> Nat]
      <3>1. CASE Cancel
        BY <3>1 DEF Cancel
      <3>2. CASE Reset
        BY <3>2, <1>counts DEF Reset
      <3>. QED BY <1>1, <3>1, <3>2
    <2>. QED BY <1>1, <1>t, <2>1, <2>2, <2>3 DEF Cancel, Reset, FullTypes
  <1>2. ASSUME NEW c \in Calls, Call(c) PROVE FullTypes'
    <2>1. saw' \in [Calls -> BOOLEAN]
      BY <1>2, <1>saw, <1>token DEF Call
    <2>2. pc' \in [Calls -> Places]
      BY <1>2, <1>pc DEF Call, Places
    <2>3. plan' \in [Calls -> PlanShape]
      BY <1>2, <1>t, StatementAssumption DEF Call, FullTypes
    <2>4. outcome' \in [Calls -> Returned \cup {"none", "not a query"}]
      BY <1>2, <1>t DEF Call, FullTypes
    <2>. QED BY <1>2, <1>t, <2>1, <2>2, <2>3, <2>4 DEF Call, FullTypes
  <1>3. ASSUME NEW c \in Calls, CheckToken(c) \/ Enter(c) PROVE FullTypes'
    <2>1. pc' \in [Calls -> Places]
      BY <1>3, <1>pc DEF CheckToken, Enter, Places
    <2>2. outcome' \in [Calls -> Returned \cup {"none", "not a query"}]
      BY <1>3, <1>t DEF CheckToken, Enter, FullTypes, Returned
    <2>. QED BY <1>3, <1>t, <2>1, <2>2 DEF CheckToken, Enter, FullTypes
  <1>4. ASSUME NEW c \in Calls, Execute(c) PROVE FullTypes'
    <2>1. plan[c].items \in Nat
      BY <1>t DEF FullTypes, PlanShape
    <2>2. left' \in [Calls -> [Scans -> Nat]]
      BY <1>4, <1>left, <2>1 DEF Execute
    <2>3. alive' \subseteq Calls \X Scans
      BY <1>4, <1>t DEF Execute, FullTypes
    <2>4. pc' \in [Calls -> Places]
      BY <1>4, <1>pc DEF Execute, Places
    <2>. QED BY <1>4, <1>t, <2>2, <2>3, <2>4 DEF Execute, FullTypes
  <1>4a. ASSUME NEW c \in Calls, FailToExecute(c) PROVE FullTypes'
    <2>1. run' \in [Calls -> Returned \cup {"none"}]
      BY <1>4a, <1>run DEF FailToExecute, Returns, Returned
    <2>2. pc' \in [Calls -> Places]
      BY <1>4a, <1>pc DEF FailToExecute, Returns, Places
    <2>3. ready' \in [Calls -> 0..1]
      BY <1>4a, <1>ready DEF FailToExecute, Returns
    <2>4. left' \in [Calls -> [Scans -> Nat]]
      BY <1>4a, <1>left DEF FailToExecute, Returns
    <2>. QED BY <1>4a, <1>t, <2>1, <2>2, <2>3, <2>4 DEF FailToExecute, FullTypes
  <1>5. ASSUME NEW c \in Calls, NEW s \in Scans, Scan(c, s) PROVE FullTypes'
    <2>1. left' \in [Calls -> [Scans -> Nat]]
      <3>1. CASE left' = left
        BY <1>left, <3>1
      <3>2. CASE left' = [left EXCEPT ![c][s] = IF plan[c].endless THEN @ ELSE @ - 1]
        <4>1. left[c][s] \in Nat /\ (~plan[c].endless => left[c][s] - 1 \in Nat)
          BY <1>5, <1>left DEF Scan, Ended
        <4>. QED BY <1>left, <3>2, <4>1
      <3>. QED BY <1>5, <3>1, <3>2 DEF Scan
    <2>2. ready' \in [Calls -> 0..1]
      <3>1. ready' = ready \/ \E n \in 0..1 : ready' = [ready EXCEPT ![c] = n]
        BY <1>5 DEF Scan
      <3>. QED BY <3>1, <1>ready
    <2>3. error' \in [Calls -> {"none", "own", "scan"}]
      <3>1. error' = error \/ \E e \in {"own", "scan"} : error' = [error EXCEPT ![c] = e]
        BY <1>5 DEF Scan
      <3>. QED BY <3>1, <1>error
    <2>. QED BY <1>5, <1>t, <2>1, <2>2, <2>3 DEF Scan, FullTypes
  <1>6. ASSUME NEW c \in Calls, NEW s \in Scans, ScanEnds(c, s) PROVE FullTypes'
    <2>1. alive' \subseteq Calls \X Scans
      BY <1>6, <1>t DEF ScanEnds, FullTypes
    <2>2. ready' = ready \/ ready' = [ready EXCEPT ![c] = 1]
      BY <1>6 DEF ScanEnds
    <2>3. ready' \in [Calls -> 0..1]
      BY <2>2, <1>ready
    <2>. QED BY <1>6, <1>t, <2>1, <2>3 DEF ScanEnds, FullTypes
  <1>7. ASSUME NEW c \in Calls, NEW r \in Returned, Returns(c, r)
        PROVE  /\ run' \in [Calls -> Returned \cup {"none"}] /\ pc' \in [Calls -> Places]
               /\ ready' \in [Calls -> 0..1] /\ left' \in [Calls -> [Scans -> Nat]]
    <2>1. run' \in [Calls -> Returned \cup {"none"}]
      BY <1>7, <1>run DEF Returns
    <2>2. pc' \in [Calls -> Places]
      BY <1>7, <1>pc DEF Returns, Places
    <2>3. ready' \in [Calls -> 0..1]
      BY <1>7, <1>ready DEF Returns
    <2>4. left' \in [Calls -> [Scans -> Nat]]
      BY <1>7, <1>left DEF Returns
    <2>. QED BY <2>1, <2>2, <2>3, <2>4
  <1>8. ASSUME NEW c \in Calls, Poll(c) PROVE FullTypes'
    <2>0. NameOfError(c) \in Returned
      BY DEF NameOfError, Returned
    <2>1. CASE \E r \in Returned : Returns(c, r)
      <3>1. /\ run' \in [Calls -> Returned \cup {"none"}] /\ pc' \in [Calls -> Places]
            /\ ready' \in [Calls -> 0..1] /\ left' \in [Calls -> [Scans -> Nat]]
        BY <1>7, <2>1
      <3>. QED BY <3>1, <1>8, <1>t DEF Poll, FullTypes
    <2>2. CASE /\ ready[c] > 0 /\ ready' = [ready EXCEPT ![c] = @ - 1]
               /\ pc' = [pc EXCEPT ![c] = "batch"] /\ UNCHANGED <<run, left>>
      <3>1. ready[c] - 1 \in 0..1
        BY <2>2, <1>ready
      <3>2. ready' \in [Calls -> 0..1]
        BY <3>1, <2>2, <1>ready
      <3>3. pc' \in [Calls -> Places]
        BY <2>2, <1>pc DEF Places
      <3>. QED BY <3>2, <3>3, <2>2, <1>8, <1>t DEF Poll, FullTypes
    <2>3. "rows" \in Returned /\ "cancelled" \in Returned
      BY DEF Returned
    <2>. QED BY <1>8, <2>0, <2>1, <2>2, <2>3 DEF Poll
  <1>9. ASSUME NEW c \in Calls, Counted(c)
        PROVE  taken' \in [Calls -> Nat] /\ late' \in [Calls -> Nat]
    <2>1. taken[c] + 1 \in Nat /\ late[c] + 1 \in Nat
      BY <1>counts
    <2>2. \E n \in Nat : taken' = [taken EXCEPT ![c] = n]
      BY <1>9, <1>counts, <2>1 DEF Counted
    <2>3. \E n \in Nat : late' = [late EXCEPT ![c] = n]
      BY <1>9, <2>1 DEF Counted
    <2>. QED BY <2>2, <2>3, <1>counts
  <1>10. ASSUME NEW c \in Calls, HandOver(c) PROVE FullTypes'
    <2>1. taken' \in [Calls -> Nat] /\ late' \in [Calls -> Nat]
      BY <1>9, <1>10 DEF HandOver
    <2>2. CASE pc' = [pc EXCEPT ![c] = "poll"] /\ UNCHANGED <<run, ready, left, refused>>
      <3>1. pc' \in [Calls -> Places]
        BY <2>2, <1>pc DEF Places
      <3>. QED BY <3>1, <2>1, <2>2, <1>10, <1>t DEF HandOver, FullTypes
    <2>3. CASE refused' = [refused EXCEPT ![c] = TRUE] /\ Returns(c, "refused")
      <3>1. /\ run' \in [Calls -> Returned \cup {"none"}] /\ pc' \in [Calls -> Places]
            /\ ready' \in [Calls -> 0..1] /\ left' \in [Calls -> [Scans -> Nat]]
        BY <1>7, <2>3 DEF Returned
      <3>2. refused' \in [Calls -> BOOLEAN]
        BY <2>3, <1>refused
      <3>. QED BY <3>1, <3>2, <2>1, <1>10, <1>t DEF HandOver, FullTypes
    <2>. QED BY <1>10, <2>2, <2>3 DEF HandOver
  <1>11. ASSUME NEW c \in Calls, Send(c) PROVE FullTypes'
    <2>1. CASE Returns(c, "cancelled") /\ UNCHANGED chan
      <3>1. /\ run' \in [Calls -> Returned \cup {"none"}] /\ pc' \in [Calls -> Places]
            /\ ready' \in [Calls -> 0..1] /\ left' \in [Calls -> [Scans -> Nat]]
        BY <1>7, <2>1 DEF Returned
      <3>. QED BY <3>1, <2>1, <1>11, <1>t DEF Send, FullTypes
    <2>2. CASE /\ chan[c] < Capacity /\ chan' = [chan EXCEPT ![c] = @ + 1]
               /\ pc' = [pc EXCEPT ![c] = "poll"] /\ UNCHANGED <<run, ready, left>>
      <3>1. chan[c] + 1 \in 0..Capacity
        BY <2>2, <1>chan, Numbers
      <3>2. chan' \in [Calls -> 0..Capacity]
        BY <3>1, <2>2, <1>chan
      <3>3. pc' \in [Calls -> Places]
        BY <2>2, <1>pc DEF Places
      <3>. QED BY <3>2, <3>3, <2>2, <1>11, <1>t DEF Send, FullTypes
    <2>. QED BY <1>11, <2>1, <2>2 DEF Send
  <1>12. ASSUME NEW c \in Calls, Receive(c) PROVE FullTypes'
    <2>1. taken' \in [Calls -> Nat] /\ late' \in [Calls -> Nat]
      BY <1>9, <1>12 DEF Receive
    <2>2. chan[c] - 1 \in 0..Capacity /\ 0 \in 0..Capacity
      BY <1>12, <1>chan, Numbers DEF Receive
    <2>3. \E n \in 0..Capacity : chan' = [chan EXCEPT ![c] = n]
      BY <1>12, <2>2 DEF Receive
    <2>4. chan' \in [Calls -> 0..Capacity]
      BY <2>3, <1>chan
    <2>5. refused' \in [Calls -> BOOLEAN]
      BY <1>12, <1>refused DEF Receive
    <2>. QED BY <2>1, <2>4, <2>5, <1>12, <1>t DEF Receive, FullTypes
  <1>13. ASSUME NEW c \in Calls, Finish(c) PROVE FullTypes'
    <2>1. Verdict(c) \in Returned \cup {"none"}
      BY <1>run DEF Verdict, Returned
    <2>2. outcome' \in [Calls -> Returned \cup {"none", "not a query"}]
      BY <1>13, <1>t, <2>1 DEF Finish, FullTypes
    <2>3. pc' \in [Calls -> Places]
      BY <1>13, <1>pc DEF Finish, Places
    <2>4. late' \in [Calls -> Nat]
      BY <1>13, <1>counts DEF Finish
    <2>. QED BY <2>2, <2>3, <2>4, <1>13, <1>t DEF Finish, FullTypes
  <1>14. CASE UNCHANGED vars
    BY <1>14, <1>t DEF vars, FullTypes
  <1>. QED
    BY <1>1, <1>2, <1>3, <1>4, <1>4a, <1>5, <1>6, <1>8, <1>10, <1>11, <1>12, <1>13, <1>14
    DEF Next, Step, Idle

-----------------------------------------------------------------------------
(* The gate. *)
LEMMA GateStep == GateCounts /\ [Next]_vars => GateCounts'
  <1> SUFFICES ASSUME GateCounts, [Next]_vars PROVE GateCounts'
    OBVIOUS
  <1>. USE DEF GateCounts
  <1>c. Cardinality(called) \in Nat
    BY FS_CardinalityType
  <1>1. ASSUME NEW c \in Calls, Enter(c) PROVE GateCounts'
    <2>1. \/ free > 0 /\ called' = called \cup {c} /\ free' = free - 1
          \/ UNCHANGED <<called, free>>
      BY <1>1 DEF Enter, Line!Arrive
    <2>2. /\ IsFiniteSet(called \cup {c})
          /\ Cardinality(called \cup {c}) = IF c \in called THEN Cardinality(called)
                                           ELSE Cardinality(called) + 1
      BY FS_AddElement
    <2>. QED BY <2>1, <2>2, <1>c, Numbers
  <1>2. ASSUME NEW c \in Calls, Finish(c) PROVE GateCounts'
    <2>1. c \in called /\ Line!MoveOn(line, c)
      BY <1>2 DEF Finish, Line!Depart
    <2>2. /\ IsFiniteSet(called \ {c}) /\ Cardinality(called \ {c}) = Cardinality(called) - 1
          /\ Cardinality(called \ {c}) \in Nat
      BY <2>1, FS_RemoveElement, FS_CardinalityType
    <2>3. CASE called' = called \ {c} /\ free' = free + 1
      BY <2>2, <2>3, <1>c, Numbers
    <2>4. CASE called' = (called \ {c}) \cup ({Head(line)} \ {NoGap}) /\ free' = free
      <3>1. CASE Head(line) = NoGap
        <4>1. called' = called \ {c}
          BY <2>4, <3>1
        <4>. QED BY <4>1, <2>2, <2>4, <1>c, Numbers
      <3>2. CASE Head(line) # NoGap
        <4>1. called' = (called \ {c}) \cup {Head(line)}
          BY <2>4, <3>2
        <4> DEFINE kept == called \ {c}
        <4>2. IsFiniteSet(kept) /\ Cardinality(kept) = Cardinality(called) - 1
          BY <2>2
        <4>3. IsFiniteSet(kept \cup {Head(line)})
              /\ Cardinality(kept \cup {Head(line)}) =
                   IF Head(line) \in kept THEN Cardinality(kept) ELSE Cardinality(kept) + 1
          BY <4>2, FS_AddElement
        <4>. QED BY <4>1, <4>2, <4>3, <2>4, <1>c, Numbers
      <3>. QED BY <3>1, <3>2
    <2>. QED BY <2>1, <2>3, <2>4 DEF Line!MoveOn
  <1>3. CASE UNCHANGED gateVars
    BY <1>3 DEF gateVars
  <1>. QED
    BY <1>1, <1>2, <1>3 DEF Next, Step, Idle, vars, gateVars, Cancel, Reset, Call, CheckToken,
       Execute, FailToExecute, Poll, HandOver, Send, Receive, Scan, ScanEnds

-----------------------------------------------------------------------------
(* A step of another call. *)
Same(d) ==
  /\ token' = token /\ pc'[d] = pc[d] /\ plan'[d] = plan[d] /\ left'[d] = left[d]
  /\ \A s \in Scans : <<d, s>> \in alive' <=> <<d, s>> \in alive
  /\ ready'[d] = ready[d] /\ error'[d] = error[d] /\ chan'[d] = chan[d]
  /\ taken'[d] = taken[d] /\ refused'[d] = refused[d] /\ run'[d] = run[d]
  /\ outcome'[d] = outcome[d] /\ saw'[d] = saw[d] /\ late'[d] = late[d]
  /\ d \in called => d \in called'

LEMMA SameKeeps == ASSUME NEW d, CallInv(d), Same(d) PROVE CallInv(d)'
  <1>1. Unread(d)' = Unread(d)
    BY DEF Same, Unread
  <1>2. /\ Inside(d)' = Inside(d) /\ InHand(d)' = InHand(d) /\ Handed(d)' = Handed(d)
        /\ Streaming(d)' = Streaming(d) /\ Batches(d)' = Batches(d) /\ InFlight(d)' = InFlight(d)
        /\ \A s \in Scans : Ended(d, s)' = Ended(d, s)
    BY DEF Same, Inside, InHand, Handed, Streaming, Batches, InFlight, Ended
  <1>3. Quiet(d)' /\ Heard(d)'
    BY <1>2 DEF Same, CallInv, Quiet, Heard
  <1>4. NothingLost(d)'
    BY <1>1, <1>2 DEF Same, CallInv, NothingLost
  <1>5. Reported(d)'
    BY <1>2 DEF Same, CallInv, Reported
  <1>. QED BY <1>2, <1>3, <1>4, <1>5 DEF Same, CallInv

-----------------------------------------------------------------------------
(***************************************************************************)
(* A call's own steps.  Each leaves every other call as it was, and keeps  *)
(* what holds of the call itself.                                          *)
(***************************************************************************)
Kept(c) == /\ \A d \in Calls \ {c} : Same(d)
           /\ CallInv(c)'

LEMMA KeptSuffices ==
  ASSUME StatementIInv, NEW c \in Calls, Kept(c)
  PROVE  \A d \in Calls : CallInv(d)'
  <1> SUFFICES ASSUME NEW d \in Calls PROVE CallInv(d)'
    OBVIOUS
  <1>1. CASE d = c
    BY <1>1 DEF Kept
  <1>2. CASE d # c
    BY <1>2, SameKeeps DEF Kept, StatementIInv
  <1>. QED BY <1>1, <1>2

(* The types by name, each for the steps that need it. *)
LEMMA Typed ==
  ASSUME StatementIInv
  PROVE  /\ token \in BOOLEAN
         /\ pc \in [Calls -> Places] /\ alive \subseteq Calls \X Scans
         /\ plan \in [Calls -> PlanShape] /\ left \in [Calls -> [Scans -> Nat]]
         /\ ready \in [Calls -> 0..1] /\ chan \in [Calls -> 0..Capacity]
         /\ error \in [Calls -> {"none", "own", "scan"}]
         /\ run \in [Calls -> Returned \cup {"none"}]
         /\ outcome \in [Calls -> Returned \cup {"none", "not a query"}]
         /\ refused \in [Calls -> BOOLEAN] /\ saw \in [Calls -> BOOLEAN]
         /\ taken \in [Calls -> Nat] /\ late \in [Calls -> Nat]
  BY DEF StatementIInv, FullTypes

LEMMA Counts ==
  ASSUME StatementIInv, NEW c \in Calls
  PROVE  /\ plan[c].items \in Nat /\ \A s \in Scans : left[c][s] \in Nat
         /\ ready[c] \in Nat /\ taken[c] \in Nat /\ late[c] \in Nat
         /\ chan[c] \in Nat /\ chan[c] <= Capacity
         /\ InHand(c) \in {0, 1} /\ Handed(c) \in Nat
  <1>1. plan[c].items \in Nat
    BY Typed DEF PlanShape
  <1>2. left \in [Calls -> [Scans -> Nat]] /\ ready \in [Calls -> 0..1]
    BY Typed
  <1>3. taken \in [Calls -> Nat] /\ late \in [Calls -> Nat] /\ chan \in [Calls -> 0..Capacity]
    BY Typed
  <1>4. /\ \A s \in Scans : left[c][s] \in Nat
        /\ ready[c] \in Nat /\ taken[c] \in Nat /\ late[c] \in Nat
        /\ chan[c] \in Nat /\ chan[c] <= Capacity
    BY <1>2, <1>3, Numbers
  <1>5. InHand(c) \in {0, 1}
    BY DEF InHand
  <1>. QED BY <1>1, <1>4, <1>5 DEF Handed

LEMMA CallKeeps == ASSUME StatementIInv, NEW c \in Calls, Call(c) PROVE Kept(c)
  <1>1. /\ pc[c] = "idle" /\ saw'[c] = token
        /\ \/ \E p \in Plans : pc'[c] = "planned" /\ plan'[c] = p /\ outcome'[c] = outcome[c]
           \/ pc'[c] = "done" /\ outcome'[c] = "not a query" /\ plan'[c] = plan[c]
        /\ UNCHANGED <<token, called, left, alive, ready, error, chan, taken, refused, run, late>>
    BY Typed DEF Call, gateVars
  <1>2. \A d \in Calls \ {c} : /\ pc'[d] = pc[d] /\ plan'[d] = plan[d] /\ saw'[d] = saw[d]
                               /\ outcome'[d] = outcome[d]
    BY Typed DEF Call
  <1>3. \A d \in Calls \ {c} : Same(d)
    BY <1>1, <1>2 DEF Same
  <1>4. CallInv(c)
    BY DEF StatementIInv
  <1>5. plan'[c].fails => plan'[c].endless \/ plan'[c].items > 0
    BY <1>1, <1>4, StatementAssumption DEF CallInv
  <1>6. Quiet(c)' /\ Heard(c)' /\ NothingLost(c)'
    BY <1>1, <1>4 DEF CallInv, Quiet, Heard, NothingLost, Inside, InHand, InFlight, Streaming
  <1>7. Reported(c)'
    BY <1>1, <1>4 DEF CallInv, Quiet, Reported, Inside
  <1>. QED BY <1>1, <1>3, <1>5, <1>6, <1>7 DEF Kept, CallInv, Inside

LEMMA CheckTokenKeeps == ASSUME StatementIInv, NEW c \in Calls, CheckToken(c) PROVE Kept(c)
  <1>1. /\ pc[c] = "planned"
        /\ \/ token /\ pc'[c] = "done" /\ outcome'[c] = "cancelled"
           \/ ~token /\ pc'[c] = "enter" /\ outcome'[c] = outcome[c]
        /\ UNCHANGED <<token, called, plan, left, alive, ready, error, chan, taken, refused, run,
                       saw, late>>
    BY Typed DEF CheckToken, gateVars
  <1>2. \A d \in Calls \ {c} : pc'[d] = pc[d] /\ outcome'[d] = outcome[d]
    BY Typed DEF CheckToken
  <1>3. \A d \in Calls \ {c} : Same(d)
    BY <1>1, <1>2 DEF Same
  <1>4. CallInv(c)
    BY DEF StatementIInv
  <1>6. Quiet(c)' /\ Heard(c)' /\ NothingLost(c)'
    BY <1>1, <1>4 DEF CallInv, Quiet, Heard, NothingLost, Inside, InHand, InFlight, Streaming
  <1>7. Reported(c)'
    BY <1>1, <1>4 DEF CallInv, Quiet, Heard, Reported, Inside, InFlight
  <1>. QED BY <1>1, <1>3, <1>4, <1>6, <1>7 DEF Kept, CallInv, Inside

LEMMA EnterKeeps == ASSUME StatementIInv, NEW c \in Calls, Enter(c) PROVE Kept(c)
  <1>1. /\ pc[c] = "enter" /\ pc'[c] = "gate" /\ called \subseteq called'
        /\ UNCHANGED <<token, plan, left, alive, ready, error, chan, taken, refused, run,
                       outcome, saw, late>>
    BY Typed DEF Enter, Line!Arrive
  <1>2. \A d \in Calls \ {c} : pc'[d] = pc[d]
    BY Typed DEF Enter
  <1>3. \A d \in Calls \ {c} : Same(d)
    BY <1>1, <1>2 DEF Same
  <1>4. CallInv(c)
    BY DEF StatementIInv
  <1>6. Quiet(c)' /\ Heard(c)' /\ NothingLost(c)'
    BY <1>1, <1>4 DEF CallInv, Quiet, Heard, NothingLost, Inside, InHand, InFlight, Streaming
  <1>7. Reported(c)'
    BY <1>1, <1>4 DEF CallInv, Quiet, Reported, Inside, Batches
  <1>. QED BY <1>1, <1>3, <1>4, <1>6, <1>7 DEF Kept, CallInv, Inside

LEMMA ExecuteKeeps == ASSUME StatementIInv, NEW c \in Calls, Execute(c) PROVE Kept(c)
  <1> DEFINE n == plan[c].items
  <1>n. n \in Nat
    BY Typed DEF PlanShape
  <1>1. /\ pc[c] = "gate" /\ pc'[c] = "poll" /\ c \in called
        /\ left'[c] = [s \in Scans |-> n] /\ \A s \in Scans : <<c, s>> \in alive'
        /\ UNCHANGED <<token, called, plan, ready, error, chan, taken, refused, run, outcome,
                       saw, late>>
    BY Typed DEF Execute, gateVars
  <1>2. \A d \in Calls \ {c} : /\ pc'[d] = pc[d] /\ left'[d] = left[d]
                               /\ \A s \in Scans : <<d, s>> \in alive' <=> <<d, s>> \in alive
    BY Typed DEF Execute
  <1>3. \A d \in Calls \ {c} : Same(d)
    BY <1>1, <1>2 DEF Same
  <1>4. CallInv(c)
    BY DEF StatementIInv
  <1>5. Quiet(c)' /\ Heard(c)'
    BY <1>1, <1>4 DEF CallInv, Quiet, Heard, Inside, InHand, InFlight
  <1>6. NothingLost(c)'
    <2>1. Handed(c)' = 0
      BY <1>1, <1>4 DEF Handed, InHand, CallInv, Quiet, Inside
    <2>2. Unread(c)' = Scans \X (1..n)
      BY <1>1, <1>n DEF Unread
    <2>3. IsFiniteSet(1..n) /\ Cardinality(1..n) = n
      BY <1>n, FS_Interval
    <2>4. IsFiniteSet(Scans) /\ Cardinality(Scans) \in Nat
      BY StatementAssumption, FS_CardinalityType
    <2>5. Cardinality(Scans \X (1..n)) = Cardinality(Scans) * n
      BY <2>3, <2>4, FS_Product
    <2>6. Cardinality(Unread(c)') = n * Cardinality(Scans)
      BY <2>2, <2>4, <2>5, <1>n
    <2>7. \E s \in Scans : <<c, s>> \in alive'
      BY <1>1, StatementAssumption
    <2>8. plan'[c] = plan[c] /\ \A s \in Scans : left'[c][s] = n /\ <<c, s>> \in alive'
      BY <1>1
    <2> HIDE DEF n
    <2>9. 0 + Cardinality(Unread(c)') = n * Cardinality(Scans)
      BY <2>4, <2>6, <1>n
    <2>. QED BY <2>1, <2>7, <2>8, <2>9, <1>n DEF NothingLost, n
  <1>7. Reported(c)'
    BY <1>1, <1>4 DEF CallInv, Quiet, Reported, Inside, Batches
  <1>. QED BY <1>1, <1>3, <1>4, <1>5, <1>6, <1>7 DEF Kept, CallInv, Inside

LEMMA UnreadFinite ==
  ASSUME StatementIInv, NEW c \in Calls
  PROVE  IsFiniteSet(Unread(c)) /\ Cardinality(Unread(c)) \in Nat
  <1>1. plan[c].items \in Nat
    BY Typed DEF PlanShape
  <1>2. IsFiniteSet(Scans \X (1..plan[c].items))
    <2>1. IsFiniteSet(1..plan[c].items) /\ IsFiniteSet(Scans)
      BY <1>1, FS_Interval, StatementAssumption
    <2>. QED BY <2>1, FS_Product
  <1>3. Unread(c) \subseteq Scans \X (1..plan[c].items)
    BY DEF Unread
  <1>. QED BY <1>2, <1>3, FS_Subset, FS_CardinalityType

(* A batch read leaves one less to read and one more on its way.           *)
LEMMA ScanKeeps ==
  ASSUME StatementIInv, NEW c \in Calls, NEW s \in Scans, Scan(c, s) PROVE Kept(c)
  <1>1. /\ Streaming(c) /\ <<c, s>> \in alive /\ ~Ended(c, s)
        /\ UNCHANGED <<token, called, pc, plan, alive, chan, taken, refused, run, outcome, saw, late>>
    BY DEF Scan, gateVars
  <1>2. \A d \in Calls \ {c} : /\ left'[d] = left[d] /\ ready'[d] = ready[d] /\ error'[d] = error[d]
    BY Typed DEF Scan
  <1>3. \A d \in Calls \ {c} : Same(d)
    BY <1>1, <1>2 DEF Same
  <1>4. CallInv(c)
    BY DEF StatementIInv
  <1>5. Quiet(c)' /\ Heard(c)' /\ Reported(c)'
    BY <1>1, <1>4 DEF CallInv, Quiet, Heard, Reported, Inside, InHand, InFlight, Streaming, Batches
  <1>6. CASE UNCHANGED <<left, ready>>
    <2>1. NothingLost(c)'
      <3>1. Unread(c)' = Unread(c) /\ Handed(c)' = Handed(c) /\ Streaming(c)' = Streaming(c)
            /\ \A r \in Scans : Ended(c, r)' = Ended(c, r)
        BY <1>1, <1>6 DEF Unread, Handed, InHand, Streaming, Ended
      <3>. QED BY <3>1, <1>1, <1>4, <1>6 DEF CallInv, NothingLost
    <2>. QED BY <2>1, <1>1, <1>3, <1>4, <1>5 DEF Kept, CallInv, Inside
  <1>7. CASE /\ ~ScanFails(c, s) /\ ready[c] = 0
             /\ left' = [left EXCEPT ![c][s] = IF plan[c].endless THEN @ ELSE @ - 1]
             /\ ready' = [ready EXCEPT ![c] = IF plan[c].blocking THEN 0 ELSE 1]
    <2> DEFINE n == left[c][s]
    <2>n. n \in Nat /\ plan[c].items \in Nat /\ (~plan[c].endless => n - 1 \in Nat /\ n # 0)
      BY <1>1, Counts DEF Ended
    <2>1. n <= plan[c].items /\ ~plan[c].fails
      BY <1>1, <1>4, <1>7 DEF CallInv, NothingLost, ScanFails
    <2>2. /\ \A r \in Scans \ {s} : left'[c][r] = left[c][r]
          /\ left'[c][s] = IF plan[c].endless THEN n ELSE n - 1
          /\ ready'[c] = IF plan[c].blocking THEN 0 ELSE 1
      BY <1>7, Typed
    <2> HIDE DEF n
    <2>3. \A r \in Scans : /\ left'[c][r] <= plan[c].items
                           /\ <<c, r>> \notin alive' => Ended(c, r)'
      <3> SUFFICES ASSUME NEW r \in Scans
                   PROVE  /\ left'[c][r] <= plan[c].items
                          /\ <<c, r>> \notin alive' => Ended(c, r)'
        OBVIOUS
      <3>1. CASE r = s
        BY <3>1, <2>1, <2>2, <2>n, <1>1
      <3>2. CASE r # s
        BY <3>2, <2>2, <1>1, <1>4 DEF CallInv, NothingLost, Ended
      <3>. QED BY <3>1, <3>2
    <2>4. ASSUME ~refused[c], ~plan[c].endless, plan[c].blocking
          PROVE  Handed(c)' = IF \E r \in Scans : <<c, r>> \in alive' THEN 0 ELSE 1
      <3>1. Handed(c)' = Handed(c)
        BY <2>2, <2>4, <1>1, <1>7 DEF Handed, InHand
      <3>. QED BY <3>1, <2>4, <1>1, <1>4 DEF CallInv, NothingLost
    <2>5. ASSUME ~refused[c], ~plan[c].endless, ~plan[c].blocking
          PROVE  Handed(c)' + Cardinality(Unread(c)') = plan[c].items * Cardinality(Scans)
      <3>1. Unread(c)' = Unread(c) \ {<<s, n>>}
        <4>1. \A b \in Scans \X (1..plan[c].items) :
                b[2] <= left'[c][b[1]] <=> b[2] <= left[c][b[1]] /\ b # <<s, n>>
          <5> SUFFICES ASSUME NEW r \in Scans, NEW k \in 1..plan[c].items
                       PROVE  k <= left'[c][r] <=> k <= left[c][r] /\ <<r, k>> # <<s, n>>
            OBVIOUS
          <5>1. CASE r = s
            BY <5>1, <2>2, <2>5, <2>n DEF n
          <5>2. CASE r # s
            BY <5>2, <2>2
          <5>. QED BY <5>1, <5>2
        <4>. QED BY <4>1, <1>1 DEF Unread
      <3>2. <<s, n>> \in Unread(c)
        <4>1. n \in 1..plan[c].items
          BY <2>1, <2>5, <2>n
        <4>. QED BY <4>1 DEF Unread, n
      <3>3. Cardinality(Unread(c)') = Cardinality(Unread(c)) - 1
        BY <3>1, <3>2, UnreadFinite, FS_RemoveElement
      <3>4. Handed(c)' = Handed(c) + 1 /\ Handed(c) \in Nat
        <4>1. taken[c] \in Nat /\ chan[c] \in Nat /\ InHand(c) \in Nat /\ Handed(c) \in Nat
          BY Counts
        <4>. QED BY <4>1, <2>2, <2>5, <1>1, <1>7 DEF Handed, InHand
      <3>5. Handed(c) + Cardinality(Unread(c)) = plan[c].items * Cardinality(Scans)
        BY <2>5, <1>1, <1>4 DEF CallInv, NothingLost
      <3>6. Cardinality(Unread(c)) \in Nat
        BY UnreadFinite
      <3>7. Handed(c)' + Cardinality(Unread(c)') = Handed(c) + Cardinality(Unread(c))
        BY <3>3, <3>4, <3>6
      <3>. QED BY <3>5, <3>7
    <2>6. NothingLost(c)'
      BY <2>1, <2>3, <2>4, <2>5, <1>1 DEF NothingLost
    <2>. QED BY <2>6, <1>1, <1>3, <1>4, <1>5 DEF Kept, CallInv, Inside
  <1>. QED BY <1>6, <1>7 DEF Scan

(* A scan that ends has read everything; the last lets a blocking plan     *)
(* emit.                                                                   *)
LEMMA ScanEndsKeeps ==
  ASSUME StatementIInv, NEW c \in Calls, NEW s \in Scans, ScanEnds(c, s) PROVE Kept(c)
  <1>1. /\ <<c, s>> \in alive /\ alive' = alive \ {<<c, s>>}
        /\ Streaming(c) => Ended(c, s) /\ ready[c] = 0
        /\ UNCHANGED <<token, called, pc, plan, left, error, chan, taken, refused, run, outcome,
                       saw, late>>
    BY DEF ScanEnds, gateVars
  <1>2. \A d \in Calls \ {c} : /\ ready'[d] = ready[d]
                               /\ \A r \in Scans : <<d, r>> \in alive' <=> <<d, r>> \in alive
    BY <1>1, Typed DEF ScanEnds
  <1>3. \A d \in Calls \ {c} : Same(d)
    BY <1>1, <1>2 DEF Same
  <1>4. CallInv(c)
    BY DEF StatementIInv
  <1>r. ~Streaming(c) => ready' = ready
    BY DEF ScanEnds
  <1>5. Quiet(c)' /\ Heard(c)' /\ Reported(c)'
    BY <1>1, <1>r, <1>4 DEF CallInv, Quiet, Heard, Reported, Inside, InHand, InFlight, Streaming, Batches
  <1>6. ASSUME Streaming(c) PROVE NothingLost(c)'
    <2> DEFINE last == plan[c].blocking /\ \A r \in Scans : <<c, r>> \notin alive'
    <2>1. ready'[c] = IF last THEN 1 ELSE ready[c]
      BY <1>6, Typed DEF ScanEnds
    <2>2. \A r \in Scans : /\ left'[c][r] = left[c][r] /\ Ended(c, r)' = Ended(c, r)
                           /\ <<c, r>> \notin alive' => Ended(c, r)
      BY <1>1, <1>4, <1>6 DEF CallInv, NothingLost, Ended
    <2>3. Unread(c)' = Unread(c)
      BY <1>1 DEF Unread
    <2>4. ready[c] = 0 /\ \E r \in Scans : <<c, r>> \in alive
      BY <1>1, <1>6
    <2>5. Handed(c)' = IF last THEN Handed(c) + 1 ELSE Handed(c)
      <3>1. taken[c] \in Nat /\ chan[c] \in Nat /\ InHand(c) \in Nat
        BY Counts
      <3>. QED BY <3>1, <2>1, <2>4, <1>1 DEF Handed, InHand
    <2>6. ASSUME ~refused[c], ~plan[c].endless, plan[c].blocking
          PROVE  Handed(c)' = IF \E r \in Scans : <<c, r>> \in alive' THEN 0 ELSE 1
      <3>1. Handed(c) = 0
        BY <2>4, <2>6, <1>4, <1>6 DEF CallInv, NothingLost
      <3>2. last <=> ~\E r \in Scans : <<c, r>> \in alive'
        BY <2>6
      <3> HIDE DEF last
      <3>3. Handed(c)' = IF last THEN 1 ELSE 0
        BY <3>1, <2>5
      <3>. QED BY <3>2, <3>3
    <2>7. ASSUME ~refused[c], ~plan[c].endless, ~plan[c].blocking
          PROVE  Handed(c)' + Cardinality(Unread(c)') = plan[c].items * Cardinality(Scans)
      <3>1. Handed(c) + Cardinality(Unread(c)) = plan[c].items * Cardinality(Scans)
        BY <2>7, <1>4, <1>6 DEF CallInv, NothingLost
      <3>. QED BY <3>1, <2>3, <2>5, <2>7
    <2>8. \A r \in Scans : /\ left[c][r] <= plan[c].items
                           /\ plan[c].fails => left[c][r] = plan[c].items
      BY <1>4, <1>6 DEF CallInv, NothingLost
    <2> HIDE DEF last
    <2>. QED BY <2>2, <2>6, <2>7, <2>8, <1>1 DEF NothingLost
  <1>7. NothingLost(c)'
    BY <1>1, <1>6 DEF NothingLost, Streaming
  <1>. QED BY <1>1, <1>3, <1>4, <1>5, <1>7 DEF Kept, CallInv, Inside

(* What `stream` returns says what became of the plan: rows only when      *)
(* nothing is left of it, cancelled only for the token.                    *)
LEMMA ReturnsAt ==
  ASSUME StatementIInv, NEW c \in Calls, NEW r \in Returned, Returns(c, r)
  PROVE  /\ run'[c] = r /\ pc'[c] = "ran" /\ ready'[c] = 0
         /\ \A d \in Calls \ {c} : /\ run'[d] = run[d] /\ pc'[d] = pc[d]
                                   /\ ready'[d] = ready[d] /\ left'[d] = left[d]
  <1>1. run' = [run EXCEPT ![c] = r] /\ pc' = [pc EXCEPT ![c] = "ran"]
        /\ ready' = [ready EXCEPT ![c] = 0]
        /\ left' = [left EXCEPT ![c] = [s \in Scans |-> 0]]
    BY DEF Returns
  <1>2. run \in [Calls -> Returned \cup {"none"}] /\ pc \in [Calls -> Places]
        /\ ready \in [Calls -> 0..1] /\ left \in [Calls -> [Scans -> Nat]]
    BY Typed
  <1>. QED BY <1>1, <1>2

LEMMA FailToExecuteKeeps == ASSUME StatementIInv, NEW c \in Calls, FailToExecute(c) PROVE Kept(c)
  <1>1. /\ pc[c] = "gate" /\ c \in called
        /\ UNCHANGED <<token, called, plan, alive, error, chan, taken, refused, outcome, saw, late>>
    BY DEF FailToExecute, gateVars
  <1>2. /\ run'[c] = "failed" /\ pc'[c] = "ran" /\ ready'[c] = 0
        /\ \A d \in Calls \ {c} : /\ run'[d] = run[d] /\ pc'[d] = pc[d]
                                  /\ ready'[d] = ready[d] /\ left'[d] = left[d]
    BY ReturnsAt DEF FailToExecute, Returned
  <1>3. \A d \in Calls \ {c} : Same(d)
    BY <1>1, <1>2 DEF Same
  <1>4. CallInv(c)
    BY DEF StatementIInv
  <1>5. Quiet(c)' /\ Heard(c)' /\ NothingLost(c)'
    BY <1>1, <1>2, <1>4 DEF CallInv, Quiet, Heard, NothingLost, Inside, InHand, InFlight, Streaming
  <1>6. Reported(c)'
    BY <1>1, <1>2, <1>4 DEF CallInv, Quiet, Reported, Inside
  <1>. QED BY <1>1, <1>2, <1>3, <1>4, <1>5, <1>6 DEF Kept, CallInv, Inside

(* With nothing left to read or to emit, everything has been handed on.    *)
LEMMA ExhaustedIsWhole ==
  ASSUME StatementIInv, NEW c \in Calls, pc[c] = "poll", Exhausted(c)
  PROVE  /\ ~plan[c].fails /\ ~plan[c].endless
         /\ ~refused[c] => taken[c] + chan[c] = Batches(c)
  <1>1. CallInv(c) /\ Streaming(c)
    BY DEF StatementIInv, Streaming
  <1>2. ready[c] = 0 /\ \A s \in Scans : <<c, s>> \notin alive
    BY DEF Exhausted
  <1>3. \A s \in Scans : Ended(c, s)
    BY <1>1, <1>2 DEF CallInv, NothingLost
  <1>4. PICK s \in Scans : TRUE
    BY StatementAssumption
  <1>5. ~plan[c].endless /\ left[c][s] = 0
    BY <1>3, <1>4 DEF Ended
  <1>6. ~plan[c].fails
    <2>1. plan[c].fails => left[c][s] = plan[c].items /\ plan[c].items > 0
      BY <1>1, <1>4, <1>5 DEF CallInv, NothingLost
    <2>. QED BY <2>1, <1>5
  <1>7. Handed(c) = taken[c] + chan[c]
    BY <1>2, Counts DEF Handed, InHand
  <1>8. Cardinality(Unread(c)) = 0
    <2>1. ASSUME NEW b \in Unread(c) PROVE FALSE
      <3>1. b[1] \in Scans /\ b[2] \in 1..plan[c].items /\ b[2] <= left[c][b[1]]
        BY DEF Unread
      <3>2. left[c][b[1]] = 0
        BY <3>1, <1>3 DEF Ended
      <3>. QED BY <3>1, <3>2, Counts
    <2>2. Unread(c) = {}
      BY <2>1
    <2>. QED BY <2>2, FS_EmptySet
  <1>9. ASSUME ~refused[c] PROVE taken[c] + chan[c] = Batches(c)
    <2>1. CASE plan[c].blocking
      <3>1. Handed(c) = 1
        BY <2>1, <1>1, <1>2, <1>5, <1>9 DEF CallInv, NothingLost
      <3>. QED BY <3>1, <2>1, <1>7 DEF Batches
    <2>2. CASE ~plan[c].blocking
      <3>1. Handed(c) + Cardinality(Unread(c)) = plan[c].items * Cardinality(Scans)
        BY <2>2, <1>1, <1>5, <1>9 DEF CallInv, NothingLost
      <3>2. Handed(c) \in Nat
        BY Counts
      <3>3. Handed(c) = plan[c].items * Cardinality(Scans)
        BY <3>1, <3>2, <1>8
      <3>. QED BY <3>3, <2>2, <1>7 DEF Batches
    <2>. QED BY <2>1, <2>2
  <1>. QED BY <1>5, <1>6, <1>9

LEMMA PollKeeps == ASSUME StatementIInv, NEW c \in Calls, Poll(c) PROVE Kept(c)
  <1>1. /\ pc[c] = "poll"
        /\ UNCHANGED <<token, called, plan, alive, error, chan, taken, refused, outcome, saw, late>>
    BY DEF Poll, gateVars
  <1>2. CallInv(c)
    BY DEF StatementIInv
  <1>3. InFlight(c) /\ Inside(c)
    BY <1>1 DEF InFlight, Inside
  <1>4. ASSUME NEW r \in Returned, Returns(c, r),
               r # "refused", r = "cancelled" => token, r = "rows" => Exhausted(c)
        PROVE  Kept(c)
    <2>1. /\ run'[c] = r /\ pc'[c] = "ran" /\ ready'[c] = 0
          /\ \A d \in Calls \ {c} : /\ run'[d] = run[d] /\ pc'[d] = pc[d]
                                    /\ ready'[d] = ready[d] /\ left'[d] = left[d]
      BY <1>4, ReturnsAt
    <2>2. \A d \in Calls \ {c} : Same(d)
      BY <2>1, <1>1 DEF Same
    <2>3. r = "cancelled" => saw[c]
      BY <1>2, <1>3, <1>4 DEF CallInv, Heard
    <2>4. r = "rows" => /\ ~plan[c].fails /\ ~plan[c].endless
                        /\ ~refused[c] => taken[c] + chan[c] = Batches(c)
      BY <1>1, <1>4, ExhaustedIsWhole
    <2>5. Quiet(c)' /\ Heard(c)' /\ NothingLost(c)'
      BY <2>1, <1>1, <1>2, <1>3
      DEF CallInv, Quiet, Heard, NothingLost, Inside, InHand, InFlight, Streaming
    <2>6. Reported(c)'
      BY <2>1, <2>3, <2>4, <1>1, <1>2, <1>4 DEF CallInv, Quiet, Reported, Batches
    <2>. QED BY <2>1, <2>2, <2>5, <2>6, <1>1, <1>2, <1>3 DEF Kept, CallInv, Inside
  <1>5. CASE /\ ~token /\ ready[c] > 0 /\ ready' = [ready EXCEPT ![c] = @ - 1]
             /\ pc' = [pc EXCEPT ![c] = "batch"] /\ UNCHANGED <<run, left>>
    <2>1. /\ ready'[c] = ready[c] - 1 /\ pc'[c] = "batch"
          /\ \A d \in Calls \ {c} : pc'[d] = pc[d] /\ ready'[d] = ready[d]
      <3>1. pc \in [Calls -> Places] /\ ready \in [Calls -> 0..1]
        BY Typed
      <3>. QED BY <3>1, <1>5
    <2>2. \A d \in Calls \ {c} : Same(d)
      BY <2>1, <1>1, <1>5 DEF Same
    <2>3. Handed(c)' = Handed(c)
      <3>1. taken[c] \in Nat /\ chan[c] \in Nat /\ ready[c] \in Nat
        BY Counts
      <3>. QED BY <3>1, <2>1, <1>1 DEF Handed, InHand
    <2>4. Unread(c)' = Unread(c) /\ \A s \in Scans : Ended(c, s)' = Ended(c, s)
      BY <1>1, <1>5 DEF Unread, Ended
    <2>5. NothingLost(c)'
      BY <2>1, <2>3, <2>4, <1>1, <1>2, <1>5 DEF CallInv, NothingLost, Streaming
    <2>6. Quiet(c)' /\ Heard(c)' /\ Reported(c)'
      BY <2>1, <1>1, <1>2, <1>3, <1>5 DEF CallInv, Quiet, Heard, Reported, Inside, Batches
    <2>. QED BY <2>1, <2>2, <2>5, <2>6, <1>1, <1>2, <1>3 DEF Kept, CallInv, Inside
  <1>6. "rows" \in Returned /\ "cancelled" \in Returned /\ "failed" \in Returned
    BY DEF Returned
  <1>7. CASE Returns(c, NameOfError(c))
    <2>1. CASE token
      <3>1. Returns(c, "cancelled")
        BY <2>1, <1>7 DEF NameOfError
      <3>. QED BY <3>1, <2>1, <1>4, <1>6
    <2>2. CASE ~token
      <3>1. Returns(c, "failed")
        BY <2>2, <1>7 DEF NameOfError
      <3>. QED BY <3>1, <1>4, <1>6
    <2>. QED BY <2>1, <2>2
  <1>8. CASE Exhausted(c) /\ Returns(c, "rows")
    BY <1>4, <1>6, <1>8
  <1>9. CASE token /\ Returns(c, "cancelled")
    BY <1>4, <1>6, <1>9
  <1>. QED BY <1>5, <1>7, <1>8, <1>9 DEF Poll

(* One batch more with the callback, and one less on its way.              *)
LEMMA CountedAt ==
  ASSUME StatementIInv, NEW c \in Calls, Counted(c)
  PROVE  /\ taken'[c] = IF plan[c].endless THEN taken[c] ELSE taken[c] + 1
         /\ late'[c] = IF token THEN late[c] + 1 ELSE 0
         /\ \A d \in Calls \ {c} : taken'[d] = taken[d] /\ late'[d] = late[d]
  <1>1. taken \in [Calls -> Nat] /\ late \in [Calls -> Nat]
    BY Typed
  <1>. QED BY <1>1 DEF Counted

LEMMA HandOverKeeps == ASSUME StatementIInv, NEW c \in Calls, HandOver(c) PROVE Kept(c)
  <1>1. /\ pc[c] = "batch" /\ c \notin Hosted
        /\ UNCHANGED <<token, called, plan, alive, error, chan, outcome, saw>>
    BY DEF HandOver, gateVars
  <1>2. CallInv(c) /\ Inside(c) /\ InFlight(c) /\ InHand(c) = 1
    BY <1>1 DEF StatementIInv, Inside, InFlight, InHand
  <1>3. /\ taken'[c] = IF plan[c].endless THEN taken[c] ELSE taken[c] + 1
        /\ late'[c] = IF token THEN late[c] + 1 ELSE 0
        /\ \A d \in Calls \ {c} : taken'[d] = taken[d] /\ late'[d] = late[d]
    BY CountedAt DEF HandOver
  <1>n. taken[c] \in Nat /\ chan[c] \in Nat /\ ready[c] \in Nat /\ late[c] \in Nat
    BY Counts
  <1>4. pc'[c] # "batch" /\ Inside(c)' => Heard(c)'
    BY <1>1, <1>2, <1>3, <1>n DEF CallInv, Quiet, Heard, InHand, InFlight
  <1>5. CASE pc' = [pc EXCEPT ![c] = "poll"] /\ UNCHANGED <<run, ready, left, refused>>
    <2>1. pc'[c] = "poll" /\ \A d \in Calls \ {c} : pc'[d] = pc[d]
      <3>1. pc \in [Calls -> Places]
        BY Typed
      <3>. QED BY <3>1, <1>5
    <2>2. \A d \in Calls \ {c} : Same(d)
      BY <2>1, <1>1, <1>3, <1>5 DEF Same
    <2>3. ~plan[c].endless => Handed(c)' = Handed(c)
      BY <2>1, <1>1, <1>3, <1>5, <1>n DEF Handed, InHand
    <2>4. Unread(c)' = Unread(c) /\ \A s \in Scans : Ended(c, s)' = Ended(c, s)
      BY <1>1, <1>5 DEF Unread, Ended
    <2>5. NothingLost(c)'
      BY <2>1, <2>3, <2>4, <1>1, <1>2, <1>5 DEF CallInv, NothingLost, Streaming
    <2>6. Quiet(c)' /\ Reported(c)'
      BY <2>1, <1>1, <1>2, <1>5 DEF CallInv, Quiet, Reported, Inside, Batches
    <2>. QED BY <2>1, <2>2, <2>5, <2>6, <1>1, <1>2, <1>4 DEF Kept, CallInv, Inside
  <1>6. CASE refused' = [refused EXCEPT ![c] = TRUE] /\ Returns(c, "refused")
    <2>0. "refused" \in Returned
      BY DEF Returned
    <2>1. /\ run'[c] = "refused" /\ pc'[c] = "ran" /\ ready'[c] = 0
          /\ \A d \in Calls \ {c} : /\ run'[d] = run[d] /\ pc'[d] = pc[d]
                                    /\ ready'[d] = ready[d] /\ left'[d] = left[d]
      BY <1>6, <2>0, ReturnsAt
    <2>2. refused'[c] /\ \A d \in Calls \ {c} : refused'[d] = refused[d]
      <3>1. refused \in [Calls -> BOOLEAN]
        BY Typed
      <3>. QED BY <3>1, <1>6
    <2>3. \A d \in Calls \ {c} : Same(d)
      BY <2>1, <2>2, <1>1, <1>3 DEF Same
    <2>4. Quiet(c)' /\ NothingLost(c)' /\ Reported(c)'
      BY <2>1, <2>2, <1>1, <1>2
      DEF CallInv, Quiet, NothingLost, Reported, Inside, Streaming, Batches
    <2>. QED BY <2>1, <2>3, <2>4, <1>1, <1>2, <1>4 DEF Kept, CallInv, Inside
  <1>. QED BY <1>5, <1>6 DEF HandOver

LEMMA SendKeeps == ASSUME StatementIInv, NEW c \in Calls, Send(c) PROVE Kept(c)
  <1>1. /\ pc[c] = "batch" /\ c \in Hosted
        /\ UNCHANGED <<token, called, plan, alive, error, taken, refused, outcome, saw, late>>
    BY DEF Send, gateVars
  <1>2. CallInv(c) /\ Inside(c) /\ InFlight(c) /\ InHand(c) = 1
    BY <1>1 DEF StatementIInv, Inside, InFlight, InHand
  <1>n. taken[c] \in Nat /\ chan[c] \in Nat /\ ready[c] \in Nat /\ late[c] \in Nat
    BY Counts
  <1>3. CASE /\ chan' = [chan EXCEPT ![c] = @ + 1]
             /\ pc' = [pc EXCEPT ![c] = "poll"] /\ UNCHANGED <<run, ready, left>>
    <2>1. /\ pc'[c] = "poll" /\ chan'[c] = chan[c] + 1
          /\ \A d \in Calls \ {c} : pc'[d] = pc[d] /\ chan'[d] = chan[d]
      <3>1. pc \in [Calls -> Places] /\ chan \in [Calls -> 0..Capacity]
        BY Typed
      <3>. QED BY <3>1, <1>3
    <2>2. \A d \in Calls \ {c} : Same(d)
      BY <2>1, <1>1, <1>3 DEF Same
    <2>3. Handed(c)' = Handed(c)
      BY <2>1, <1>1, <1>3, <1>n DEF Handed, InHand
    <2>4. Unread(c)' = Unread(c) /\ \A s \in Scans : Ended(c, s)' = Ended(c, s)
      BY <1>1, <1>3 DEF Unread, Ended
    <2>5. NothingLost(c)'
      BY <2>1, <2>3, <2>4, <1>1, <1>2, <1>3 DEF CallInv, NothingLost, Streaming
    <2>6. Quiet(c)' /\ Reported(c)' /\ Heard(c)'
      BY <2>1, <1>1, <1>2, <1>3, <1>n
      DEF CallInv, Quiet, Reported, Heard, Inside, InHand, InFlight, Batches
    <2>. QED BY <2>1, <2>2, <2>5, <2>6, <1>1, <1>2 DEF Kept, CallInv, Inside
  <1>4. CASE refused[c] /\ Returns(c, "cancelled") /\ UNCHANGED chan
    <2>0. "cancelled" \in Returned
      BY DEF Returned
    <2>1. /\ run'[c] = "cancelled" /\ pc'[c] = "ran" /\ ready'[c] = 0
          /\ \A d \in Calls \ {c} : /\ run'[d] = run[d] /\ pc'[d] = pc[d]
                                    /\ ready'[d] = ready[d] /\ left'[d] = left[d]
      BY <1>4, <2>0, ReturnsAt
    <2>3. \A d \in Calls \ {c} : Same(d)
      BY <2>1, <1>1, <1>4 DEF Same
    <2>4. Quiet(c)' /\ NothingLost(c)' /\ Reported(c)'
      BY <2>1, <1>1, <1>2, <1>4
      DEF CallInv, Quiet, NothingLost, Reported, Inside, Streaming, Batches
    <2>5. Heard(c)'
      BY <2>1, <1>1, <1>2, <1>4, <1>n, Numbers DEF CallInv, Heard, InHand, InFlight
    <2>. QED BY <2>1, <2>3, <2>4, <2>5, <1>1, <1>2 DEF Kept, CallInv, Inside
  <1>. QED BY <1>3, <1>4 DEF Send

LEMMA ReceiveKeeps == ASSUME StatementIInv, NEW c \in Calls, Receive(c) PROVE Kept(c)
  <1>1. /\ chan[c] > 0 /\ ~refused[c]
        /\ UNCHANGED <<token, called, pc, plan, left, alive, ready, error, run, outcome, saw>>
    BY DEF Receive, gateVars
  <1>n. /\ taken[c] \in Nat /\ chan[c] \in Nat /\ ready[c] \in Nat /\ late[c] \in Nat
        /\ InHand(c) \in {0, 1} /\ Capacity \in Nat
    BY Counts, Numbers
  <1>2. CallInv(c) /\ Inside(c) /\ c \in Hosted
    <2>1. CallInv(c)
      BY DEF StatementIInv
    <2>. QED BY <2>1, <1>1, <1>n DEF CallInv, Quiet
  <1>3. /\ taken'[c] = IF plan[c].endless THEN taken[c] ELSE taken[c] + 1
        /\ late'[c] = IF token THEN late[c] + 1 ELSE 0
        /\ \A d \in Calls \ {c} : taken'[d] = taken[d] /\ late'[d] = late[d]
    BY CountedAt DEF Receive
  <1>4. /\ \/ chan'[c] = chan[c] - 1 /\ refused'[c] = refused[c]
           \/ chan'[c] = 0 /\ refused'[c]
        /\ \A d \in Calls \ {c} : chan'[d] = chan[d] /\ refused'[d] = refused[d]
    <2>1. chan \in [Calls -> 0..Capacity] /\ refused \in [Calls -> BOOLEAN]
      BY Typed
    <2>. QED BY <2>1 DEF Receive
  <1>5. \A d \in Calls \ {c} : Same(d)
    BY <1>1, <1>3, <1>4 DEF Same
  <1>6. Heard(c)'
    <2> SUFFICES ASSUME token
                 PROVE  /\ InFlight(c) => saw[c]
                        /\ late'[c] + chan'[c] + InHand(c) <= Capacity + 1
      BY <1>1, <1>2 DEF Heard, InFlight, InHand
    <2>1. late[c] + chan[c] + InHand(c) <= Capacity + 1 /\ (InFlight(c) => saw[c])
      BY <1>2 DEF CallInv, Heard
    <2>2. late'[c] = late[c] + 1 /\ (chan'[c] = chan[c] - 1 \/ chan'[c] = 0)
      BY <1>3, <1>4
    <2>. QED BY <2>1, <2>2, <1>1, <1>n
  <1>7. Quiet(c)'
    BY <1>1, <1>2 DEF CallInv, Quiet, Inside
  <1>8. NothingLost(c)'
    <2>1. ~refused'[c] /\ ~plan[c].endless => Handed(c)' = Handed(c)
      BY <1>1, <1>3, <1>4, <1>n DEF Handed, InHand
    <2>2. Unread(c)' = Unread(c) /\ \A s \in Scans : Ended(c, s)' = Ended(c, s)
      BY <1>1 DEF Unread, Ended
    <2>. QED BY <2>1, <2>2, <1>1, <1>2 DEF CallInv, NothingLost, Streaming
  <1>9. Reported(c)'
    <2>1. ~refused'[c] /\ ~plan[c].endless => taken'[c] + chan'[c] = taken[c] + chan[c]
      BY <1>3, <1>4, <1>n
    <2>2. pc[c] # "done" /\ outcome[c] = "none"
      BY <1>2 DEF Inside, CallInv, Quiet
    <2>3. Batches(c)' = Batches(c)
      BY <1>1 DEF Batches
    <2>. QED BY <2>1, <2>2, <2>3, <1>1, <1>2 DEF CallInv, Reported
  <1>. QED BY <1>1, <1>2, <1>5, <1>6, <1>7, <1>8, <1>9 DEF Kept, CallInv, Inside

LEMMA FinishKeeps == ASSUME StatementIInv, NEW c \in Calls, Finish(c) PROVE Kept(c)
  <1>1. /\ pc[c] = "ran" /\ chan[c] = 0
        /\ UNCHANGED <<token, plan, left, alive, ready, error, chan, taken, refused, run, saw>>
    BY DEF Finish
  <1>2. CallInv(c)
    BY DEF StatementIInv
  <1>3. /\ outcome'[c] = Verdict(c) /\ pc'[c] = "done" /\ late'[c] = 0
        /\ \A d \in Calls \ {c} : /\ outcome'[d] = outcome[d] /\ pc'[d] = pc[d]
                                  /\ late'[d] = late[d]
    <2>1. /\ outcome \in [Calls -> Returned \cup {"none", "not a query"}]
          /\ pc \in [Calls -> Places] /\ late \in [Calls -> Nat]
      BY Typed
    <2>. QED BY <2>1 DEF Finish
  <1>4. \A d \in Calls \ {c} : d \in called => d \in called'
    BY DEF Finish, Line!Depart, Line!MoveOn
  <1>5. \A d \in Calls \ {c} : Same(d)
    BY <1>1, <1>3, <1>4 DEF Same
  <1>6. Quiet(c)' /\ NothingLost(c)' /\ Heard(c)'
    BY <1>1, <1>2, <1>3, Numbers
    DEF CallInv, Quiet, NothingLost, Heard, Inside, InHand, InFlight, Streaming
  <1>7. Reported(c)'
    <2>1. Batches(c)' = Batches(c)
      BY <1>1 DEF Batches
    <2>2. taken[c] + chan[c] = taken[c]
      BY <1>1, Counts
    <2>. QED BY <2>1, <2>2, <1>1, <1>2, <1>3 DEF CallInv, Reported, Verdict
  <1>. QED BY <1>1, <1>2, <1>3, <1>5, <1>6, <1>7 DEF Kept, CallInv, Inside

-----------------------------------------------------------------------------
(* The host's steps touch every call. *)
LEMMA HostKeeps ==
  ASSUME StatementIInv, NEW d \in Calls, Cancel \/ Reset
  PROVE  CallInv(d)'
  <1>1. UNCHANGED <<called, pc, plan, left, alive, ready, error, chan, taken, refused, run, outcome>>
    BY DEF Cancel, Reset, gateVars
  <1>2. CallInv(d)
    BY DEF StatementIInv
  <1>3. (saw[d] => saw'[d]) /\ (saw'[d] => saw[d] \/ token')
    BY DEF Cancel, Reset
  <1>4. Quiet(d)' /\ NothingLost(d)'
    <2>1. Unread(d)' = Unread(d) /\ \A s \in Scans : Ended(d, s)' = Ended(d, s)
      BY <1>1 DEF Unread, Ended
    <2>2. Handed(d)' = Handed(d)
      BY <1>1 DEF Handed, InHand
    <2>. QED BY <2>1, <2>2, <1>1, <1>2 DEF CallInv, Quiet, NothingLost, Inside, Streaming
  <1>5. Reported(d)'
    BY <1>1, <1>2, <1>3 DEF CallInv, Reported, Batches
  <1>6. Heard(d)'
    <2>1. CASE Cancel
      <3>1. /\ token' = TRUE /\ late'[d] = 0
            /\ InFlight(d) => saw'[d]
        BY <2>1 DEF Cancel
      <3>n. Capacity \in Nat
        BY Numbers
      <3>2. /\ chan[d] \in Nat /\ chan[d] <= Capacity /\ InHand(d) \in {0, 1}
            /\ d \notin Hosted => chan[d] = 0
        BY <1>2, Counts DEF CallInv, Quiet
      <3>3. late'[d] + chan[d] + InHand(d) <= IF d \in Hosted THEN Capacity + 1 ELSE 1
        BY <3>1, <3>2, <3>n
      <3>4. chan'[d] = chan[d] /\ InHand(d)' = InHand(d) /\ InFlight(d)' = InFlight(d)
        BY <1>1 DEF InHand, InFlight
      <3>. QED BY <3>1, <3>3, <3>4 DEF Heard
    <2>2. CASE Reset
      BY <2>2 DEF Reset, Heard
    <2>. QED BY <2>1, <2>2
  <1>. QED BY <1>1, <1>2, <1>4, <1>5, <1>6 DEF CallInv, Inside

LEMMA StatementStep == StatementIInv /\ [Next]_vars => StatementIInv'
  <1> SUFFICES ASSUME StatementIInv, [Next]_vars PROVE StatementIInv'
    OBVIOUS
  <1>1. FullTypes'
    BY TypesStep
  <1>2. GateCounts'
    BY GateStep DEF StatementIInv
  <1>3. ASSUME NEW c \in Calls, Kept(c) PROVE \A d \in Calls : CallInv(d)'
    BY <1>3, KeptSuffices
  <1>4. ASSUME NEW c \in Calls, Call(c) \/ Step(c) \/ Receive(c)
        PROVE  \A d \in Calls : CallInv(d)'
    <2>1. Kept(c)
      BY <1>4, CallKeeps, CheckTokenKeeps, EnterKeeps, ExecuteKeeps, FailToExecuteKeeps, PollKeeps,
         HandOverKeeps, SendKeeps, ReceiveKeeps, FinishKeeps DEF Step
    <2>. QED BY <2>1, <1>3
  <1>5. ASSUME NEW c \in Calls, NEW s \in Scans, Scan(c, s) \/ ScanEnds(c, s)
        PROVE  \A d \in Calls : CallInv(d)'
    <2>1. Kept(c)
      BY <1>5, ScanKeeps, ScanEndsKeeps
    <2>. QED BY <2>1, <1>3
  <1>6. ASSUME Cancel \/ Reset PROVE \A d \in Calls : CallInv(d)'
    BY <1>6, HostKeeps
  <1>7. ASSUME UNCHANGED vars PROVE \A d \in Calls : CallInv(d)'
    <2> SUFFICES ASSUME NEW d \in Calls PROVE CallInv(d)'
      OBVIOUS
    <2>1. Same(d)
      BY <1>7 DEF vars, gateVars, Same
    <2>. QED BY <2>1, SameKeeps DEF StatementIInv
  <1>8. \A d \in Calls : CallInv(d)'
    BY <1>4, <1>5, <1>6, <1>7 DEF Next, Idle
  <1>. QED BY <1>1, <1>2, <1>8 DEF StatementIInv

LEMMA StatementInvariant == Spec => []StatementIInv
  BY StatementInit, StatementStep, PTL DEF Spec

(* At most the width of the gate streams at a time, on every gate; a       *)
(* statement is called cancelled only for the token, and its callback      *)
(* hears of at most what had passed the check when the token was set; and  *)
(* one that answers has answered wholly.                                   *)
THEOREM StatementsKept == Spec => []StatementInv
  <1>1. StatementIInv => StatementInv
    <2> SUFFICES ASSUME StatementIInv PROVE StatementInv
      OBVIOUS
    <2>0. \A c \in Calls : CallInv(c)
      BY DEF StatementIInv
    <2>1. TypeOK
      BY TypesSuffice DEF StatementIInv
    <2>2. InsideTheGate
      <3> DEFINE inside == {c \in Calls : pc[c] \in {"poll", "batch", "ran"}}
      <3>1. \A c \in Calls : pc[c] \in {"poll", "batch", "ran"} => c \in called
        BY <2>0 DEF CallInv, Inside
      <3>2. IsFiniteSet(called) /\ Cardinality(called) \in Nat /\ free \in Nat
            /\ Cardinality(called) + free <= Width
        BY FS_CardinalityType DEF StatementIInv, GateCounts
      <3>3. Cardinality(inside) <= Cardinality(called) /\ Cardinality(inside) \in Nat
        BY <3>1, <3>2, FS_Subset, FS_CardinalityType
      <3>. QED BY <3>1, <3>2, <3>3, Numbers DEF InsideTheGate
    <2>3. CancelledForCause
      BY <2>0 DEF CallInv, Reported, CancelledForCause
    <2>4. FewAfterCancel
      <3> SUFFICES ASSUME NEW c \in Calls, token
                   PROVE  late[c] <= IF c \in Hosted THEN Capacity + 1 ELSE 1
        BY DEF FewAfterCancel
      <3>1. late[c] + chan[c] + InHand(c) <= IF c \in Hosted THEN Capacity + 1 ELSE 1
        BY <2>0 DEF CallInv, Heard
      <3>. QED BY <3>1, Counts, Numbers
    <2>5. AnswerIsWhole
      BY <2>0 DEF CallInv, Reported, AnswerIsWhole
    <2>. QED BY <2>1, <2>2, <2>3, <2>4, <2>5 DEF StatementInv
  <1>. QED BY <1>1, StatementInvariant, PTL

(* A statement that answers has handed its callback every batch of its     *)
(* plan: whatever was cancelled and cleared, read late, or refused         *)
(* elsewhere, a scan that stopped never passes for one that ended.         *)
THEOREM AnswersAreWhole == Spec => []AnswerIsWhole
  <1>1. StatementIInv => AnswerIsWhole
    BY DEF StatementIInv, CallInv, Reported, AnswerIsWhole
  <1>. QED BY <1>1, StatementInvariant, PTL
=============================================================================
