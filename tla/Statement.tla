------------------------------ MODULE Statement ------------------------------
(***************************************************************************)
(* Statements of one engine (src/df/mod.rs, src/df/cancel.rs): refused or  *)
(* planned, let in at the gate, streamed batch by batch to the caller's    *)
(* callback, stopped by the one cancel token of the engine.                *)
(*                                                                         *)
(* A statement's scans are tasks of the engine's runtime; the plan above   *)
(* them either passes batches on as they come or holds back until every    *)
(* scan has ended.  A caller whose thread a host's runtime drives is       *)
(* "hosted": the statement then runs on a thread of its own and its        *)
(* batches come back through a channel.                                    *)
(***************************************************************************)
EXTENDS Naturals, Sequences, FiniteSets

CONSTANTS
  Calls,       \* each makes one call of sql_for_each
  Hosted,      \* those on a thread a host's runtime drives
  Width,       \* of the engine's gate
  Scans,       \* scan tasks of a statement
  Plans,       \* what a statement may plan to, a set of PlanShape
  Capacity,    \* of the channel of a hosted call
  MaxCancels   \* bounds how often the host sets the token

\* `items` batches come from each scan, of which one may fail; an endless plan
\* never finishes; a blocking one emits one batch when every scan has ended.
PlanShape ==
  [items : Nat, endless : BOOLEAN, blocking : BOOLEAN, fails : BOOLEAN]

ASSUME StatementAssumption ==
  /\ IsFiniteSet(Calls) /\ Hosted \subseteq Calls
  /\ Width \in Nat \ {0} /\ Capacity \in Nat \ {0} /\ MaxCancels \in Nat
  /\ IsFiniteSet(Scans) /\ Scans # {} /\ Plans \subseteq PlanShape
  /\ \A p \in Plans : p.fails => p.endless \/ p.items > 0

VARIABLES
  token,    \* the engine's cancel token
  cancels,  \* how often it was set
  line, called, free,  \* the gate
  pc,       \* where the thread that drives the statement is
  plan,     \* what the statement planned to
  left,     \* batches each scan has still to read
  alive,    \* scan tasks on the runtime, <<call, scan>>
  ready,    \* batches of the plan the stream has not been asked for
  error,    \* the stream ends in an error: "none", "own", "scan" (the token, at a scan)
  chan,     \* batches in the channel of a hosted call
  taken,    \* batches the callback has had
  refused,  \* the callback has returned an error
  run,      \* what `stream` returned
  outcome,  \* what the call returned
  saw,      \* the token was set at some time while the call ran
  late      \* batches the callback had since the token was set and stayed so

gateVars == <<line, called, free>>
vars == <<token, cancels, line, called, free, pc, plan, left, alive, ready, error,
          chan, taken, refused, run, outcome, saw, late>>

NoPlan == [items |-> 0, endless |-> FALSE, blocking |-> FALSE, fails |-> FALSE]

\* What an engine's gate is taken to do is the line that Gate implements; no
\* statement waits there with a token, so nobody leaves it early.
NoGap == "gap"
Line == INSTANCE AdmissionLine WITH Callers <- Calls, Slots <- Width, Gap <- NoGap

Init ==
  /\ token = FALSE /\ cancels = 0
  /\ Line!LineInit
  /\ pc = [c \in Calls |-> "idle"]
  /\ plan = [c \in Calls |-> NoPlan]
  /\ left = [c \in Calls |-> [s \in Scans |-> 0]]
  /\ alive = {}
  /\ ready = [c \in Calls |-> 0]
  /\ error = [c \in Calls |-> "none"]
  /\ chan = [c \in Calls |-> 0]
  /\ taken = [c \in Calls |-> 0]
  /\ refused = [c \in Calls |-> FALSE]
  /\ run = [c \in Calls |-> "none"]
  /\ outcome = [c \in Calls |-> "none"]
  /\ saw = [c \in Calls |-> FALSE]
  /\ late = [c \in Calls |-> 0]

InFlight(c) == pc[c] \notin {"idle", "done"}

-----------------------------------------------------------------------------
\* The host sets the token of the engine, whichever statement it means, and
\* clears it when it sees fit.
Cancel ==
  /\ cancels < MaxCancels /\ ~token
  /\ token' = TRUE /\ cancels' = cancels + 1
  /\ saw' = [c \in Calls |-> saw[c] \/ InFlight(c)]
  /\ late' = [c \in Calls |-> 0]
  /\ UNCHANGED <<gateVars, pc, plan, left, alive, ready, error, chan, taken, refused,
                 run, outcome>>

Reset ==
  /\ token /\ token' = FALSE
  /\ UNCHANGED <<cancels, gateVars, pc, plan, left, alive, ready, error, chan, taken,
                 refused, run, outcome, saw, late>>

-----------------------------------------------------------------------------
\* Hidden names, a statement that does not plan and one that is no query are
\* refused before the token is looked at.
Call(c) ==
  /\ pc[c] = "idle"
  /\ saw' = [saw EXCEPT ![c] = token]
  /\ \/ \E p \in Plans : pc' = [pc EXCEPT ![c] = "planned"] /\ plan' = [plan EXCEPT ![c] = p]
                         /\ UNCHANGED outcome
     \/ pc' = [pc EXCEPT ![c] = "done"] /\ outcome' = [outcome EXCEPT ![c] = "not a query"]
        /\ UNCHANGED plan
  /\ UNCHANGED <<token, cancels, gateVars, left, alive, ready, error, chan, taken, refused,
                 run, late>>

\* The token is read once, then the call takes its place in line.
CheckToken(c) ==
  /\ pc[c] = "planned"
  /\ IF token
     THEN pc' = [pc EXCEPT ![c] = "done"] /\ outcome' = [outcome EXCEPT ![c] = "cancelled"]
     ELSE pc' = [pc EXCEPT ![c] = "enter"] /\ UNCHANGED outcome
  /\ UNCHANGED <<token, cancels, gateVars, plan, left, alive, ready, error, chan, taken,
                 refused, run, saw, late>>

Enter(c) ==
  /\ pc[c] = "enter"
  /\ Line!Arrive(c)
  /\ pc' = [pc EXCEPT ![c] = "gate"]
  /\ UNCHANGED <<token, cancels, plan, left, alive, ready, error, chan, taken, refused,
                 run, outcome, saw, late>>

\* `stream` returns r: its stream is dropped with what it had, and the tasks
\* under it are told to stop, which each does at its next yield (ScanEnds).
Returns(c, r) ==
  /\ run' = [run EXCEPT ![c] = r]
  /\ pc' = [pc EXCEPT ![c] = "ran"]
  /\ ready' = [ready EXCEPT ![c] = 0]
  /\ left' = [left EXCEPT ![c] = [s \in Scans |-> 0]]

\* Inside, the physical plan is made and its scans are started.
Execute(c) ==
  /\ pc[c] = "gate" /\ c \in called
  /\ pc' = [pc EXCEPT ![c] = "poll"]
  /\ left' = [left EXCEPT ![c] = [s \in Scans |-> plan[c].items]]
  /\ alive' = alive \cup ({c} \X Scans)
  /\ UNCHANGED <<token, cancels, gateVars, plan, ready, error, chan, taken, refused, run,
                 outcome, saw, late>>

\* One of a failing plan may fail to be made, whatever the token says.
FailToExecute(c) ==
  /\ pc[c] = "gate" /\ c \in called /\ plan[c].fails
  /\ Returns(c, "failed")
  /\ UNCHANGED <<token, cancels, gateVars, plan, alive, error, chan, taken, refused, outcome,
                 saw, late>>

-----------------------------------------------------------------------------
\* The stream of a statement lives from Execute until `stream` returns.
Streaming(c) == pc[c] \in {"poll", "batch"}

Ended(c, s) == ~plan[c].endless /\ left[c][s] = 0

\* CancelExec: every batch a scan or a join passes on, and every evaluation of
\* a join's filter, looks at the token first.
ScanStops(c) == token

\* A failing plan fails at the first batch of a scan.
ScanFails(c, s) == plan[c].fails /\ left[c][s] = plan[c].items

Scan(c, s) ==
  /\ Streaming(c) /\ <<c, s>> \in alive /\ error[c] = "none"
  /\ ~Ended(c, s)
  /\ \/ /\ ScanStops(c)
        /\ error' = [error EXCEPT ![c] = "scan"] /\ UNCHANGED <<left, ready>>
     \/ /\ ~ScanStops(c) /\ ScanFails(c, s)
        /\ error' = [error EXCEPT ![c] = "own"] /\ UNCHANGED <<left, ready>>
     \/ /\ ~ScanStops(c) /\ ~ScanFails(c, s)
        /\ ready[c] = 0
        /\ left' = [left EXCEPT ![c][s] = IF plan[c].endless THEN @ ELSE @ - 1]
        /\ ready' = [ready EXCEPT ![c] = IF plan[c].blocking THEN 0 ELSE 1]
        /\ UNCHANGED error
  /\ UNCHANGED <<token, cancels, gateVars, pc, plan, alive, chan, taken, refused, run,
                 outcome, saw, late>>

\* A scan that has read everything ends; the last one of a blocking plan lets
\* the plan emit what it held back.
ScanEnds(c, s) ==
  /\ <<c, s>> \in alive
  /\ Streaming(c) => Ended(c, s) /\ error[c] = "none" /\ ready[c] = 0
  /\ alive' = alive \ {<<c, s>>}
  /\ ready' = IF Streaming(c) /\ plan[c].blocking /\ \A r \in Scans : <<c, r>> \notin alive'
              THEN [ready EXCEPT ![c] = 1] ELSE ready
  /\ UNCHANGED <<token, cancels, gateVars, pc, plan, left, error, chan, taken, refused, run,
                 outcome, saw, late>>

-----------------------------------------------------------------------------
Exhausted(c) == ready[c] = 0 /\ error[c] = "none" /\ \A s \in Scans : <<c, s>> \notin alive

\* What a failed stream is called: a token that is set explains any error.
NameOfError(c) == IF token THEN "cancelled" ELSE "failed"

\* Without the race against the token only a batch or the end wakes the loop,
\* and a batch is handed on whatever the token says.
PollUnraced(c) ==
  /\ pc[c] = "poll"
  /\ \/ /\ error[c] # "none" /\ ready[c] = 0
        /\ Returns(c, NameOfError(c))
     \/ /\ ready[c] > 0
        /\ ready' = [ready EXCEPT ![c] = @ - 1]
        /\ pc' = [pc EXCEPT ![c] = "batch"]
        /\ UNCHANGED <<run, left>>
     \/ Exhausted(c) /\ Returns(c, "rows")
  /\ UNCHANGED <<token, cancels, gateVars, plan, alive, error, chan, taken, refused,
                 outcome, saw, late>>

Poll(c) ==
  /\ pc[c] = "poll"
  /\ \/ /\ ready[c] > 0 \/ error[c] # "none"
        /\ \/ /\ token \/ ready[c] = 0
              /\ Returns(c, NameOfError(c))
           \/ /\ ~token /\ ready[c] > 0
              /\ ready' = [ready EXCEPT ![c] = @ - 1]
              /\ pc' = [pc EXCEPT ![c] = "batch"]
              /\ UNCHANGED <<run, left>>
     \/ Exhausted(c) /\ Returns(c, "rows")
     \/ /\ ready[c] = 0 /\ error[c] = "none" /\ ~Exhausted(c) /\ token
        /\ Returns(c, "cancelled")
  /\ UNCHANGED <<token, cancels, gateVars, plan, alive, error, chan, taken, refused,
                 outcome, saw, late>>

\* The batches of an endless plan are not counted, save those after a cancel.
Counted(c) ==
  /\ taken' = [taken EXCEPT ![c] = IF plan[c].endless THEN @ ELSE @ + 1]
  /\ late' = [late EXCEPT ![c] = IF token THEN @ + 1 ELSE 0]

\* The callback on the caller's thread, which may refuse.
HandOver(c) ==
  /\ pc[c] = "batch" /\ c \notin Hosted
  /\ Counted(c)
  /\ \/ pc' = [pc EXCEPT ![c] = "poll"] /\ UNCHANGED <<run, ready, left, refused>>
     \/ refused' = [refused EXCEPT ![c] = TRUE] /\ Returns(c, "refused")
  /\ UNCHANGED <<token, cancels, gateVars, plan, alive, error, chan, outcome, saw>>

\* A receiver that outlives its loop: the channel stays open and full.
SendToNobody(c) ==
  /\ pc[c] = "batch" /\ c \in Hosted
  /\ chan[c] < Capacity
  /\ chan' = [chan EXCEPT ![c] = @ + 1]
  /\ pc' = [pc EXCEPT ![c] = "poll"]
  /\ UNCHANGED <<token, cancels, gateVars, plan, left, alive, ready, error, taken, refused,
                 run, outcome, saw, late>>

\* The statement's own thread puts the batch in the channel, or finds that the
\* caller no longer listens and calls that a cancellation.
Send(c) ==
  /\ pc[c] = "batch" /\ c \in Hosted
  /\ \/ /\ ~refused[c] /\ chan[c] < Capacity
        /\ chan' = [chan EXCEPT ![c] = @ + 1]
        /\ pc' = [pc EXCEPT ![c] = "poll"] /\ UNCHANGED <<run, ready, left>>
     \/ refused[c] /\ Returns(c, "cancelled") /\ UNCHANGED chan
  /\ UNCHANGED <<token, cancels, gateVars, plan, alive, error, taken, refused, outcome, saw,
                 late>>

\* The callback on the caller's thread takes a batch off the channel; if it
\* refuses, the receiver goes with the loop and what was in it is dropped.
Receive(c) ==
  /\ chan[c] > 0 /\ ~refused[c]
  /\ Counted(c)
  /\ \/ chan' = [chan EXCEPT ![c] = @ - 1] /\ UNCHANGED refused
     \/ refused' = [refused EXCEPT ![c] = TRUE] /\ chan' = [chan EXCEPT ![c] = 0]
  /\ UNCHANGED <<token, cancels, gateVars, pc, plan, left, alive, ready, error, run,
                 outcome, saw>>

\* The thread is joined once its channel is drained or refused; the caller's
\* own refusal comes before whatever the thread made of it.
Verdict(c) == IF refused[c] THEN "refused" ELSE run[c]

FinishBeforeTheRest(c) ==
  /\ pc[c] = "ran"
  /\ outcome' = [outcome EXCEPT ![c] = Verdict(c)]
  /\ pc' = [pc EXCEPT ![c] = "done"]
  /\ chan' = [chan EXCEPT ![c] = 0]
  /\ Line!Depart(c)
  /\ late' = [late EXCEPT ![c] = 0]
  /\ UNCHANGED <<token, cancels, plan, left, alive, ready, error, taken, refused, run, saw>>

Finish(c) ==
  /\ pc[c] = "ran" /\ chan[c] = 0
  /\ outcome' = [outcome EXCEPT ![c] = Verdict(c)]
  /\ pc' = [pc EXCEPT ![c] = "done"]
  /\ Line!Depart(c)
  /\ late' = [late EXCEPT ![c] = 0]
  /\ UNCHANGED <<token, cancels, plan, left, alive, ready, error, chan, taken, refused, run,
                 saw>>

-----------------------------------------------------------------------------
\* What the runtime and the threads do, without the host.
Step(c) ==
  CheckToken(c) \/ Enter(c) \/ Execute(c) \/ FailToExecute(c) \/ Poll(c) \/ HandOver(c) \/ Send(c) \/ Finish(c)

Idle == (\A c \in Calls : pc[c] = "done") /\ UNCHANGED vars

Next ==
  \/ Cancel \/ Reset \/ Idle
  \/ \E c \in Calls : Call(c) \/ Step(c) \/ Receive(c)
  \/ \E c \in Calls, s \in Scans : Scan(c, s) \/ ScanEnds(c, s)

\* Threads run and the runtime schedules its tasks; nobody need call, cancel
\* or clear the token.
Fairness ==
  \A c \in Calls :
    /\ WF_vars(Step(c)) /\ WF_vars(Receive(c))
    /\ \A s \in Scans : WF_vars(Scan(c, s)) /\ WF_vars(ScanEnds(c, s))

Spec == Init /\ [][Next]_vars /\ Fairness

-----------------------------------------------------------------------------
TypeOK ==
  /\ token \in BOOLEAN /\ cancels \in 0..MaxCancels
  /\ pc \in [Calls -> {"idle", "planned", "enter", "gate", "poll", "batch", "ran", "done"}]
  /\ alive \subseteq Calls \X Scans
  /\ \A c \in Calls :
       /\ left[c] \in [Scans -> Nat] /\ ready[c] \in 0..1 /\ chan[c] \in 0..Capacity
       /\ error[c] \in {"none", "own", "scan"}
       /\ run[c] \in {"none", "rows", "cancelled", "failed", "refused"}
       /\ outcome[c] \in {"none", "rows", "cancelled", "failed", "refused", "not a query"}

(* A statement that answers has handed its callback every batch of its     *)
(* plan, whatever was cancelled and cleared meanwhile: a scan that stopped *)
(* for the token never passes for one that ended.                          *)
Batches(c) == IF plan[c].blocking THEN 1 ELSE plan[c].items * Cardinality(Scans)
AnswerIsWhole ==
  \A c \in Calls : outcome[c] = "rows" => taken[c] = Batches(c) /\ ~plan[c].fails

(* A statement is called cancelled only if the token was set while it ran: *)
(* a callback's refusal on a hosted thread, which ends the statement       *)
(* through the same error, never is.                                       *)
CancelledForCause ==
  \A c \in Calls :
    /\ outcome[c] = "cancelled" => saw[c]
    /\ (outcome[c] = "refused") <=> (refused[c] /\ pc[c] = "done")

(* After the token is set and while it stays so, a callback has at most    *)
(* the one batch that had passed the check, and on a hosted thread those   *)
(* that were in the channel as well.                                       *)
FewAfterCancel ==
  \A c \in Calls : token => late[c] <= IF c \in Hosted THEN Capacity + 1 ELSE 1

(* The gate bounds the statements that stream, not the tasks: only what is *)
(* inside streams, and one place frees only when the call is over.         *)
InsideTheGate ==
  /\ \A c \in Calls : pc[c] \in {"poll", "batch", "ran"} => c \in called
  /\ Cardinality({c \in Calls : pc[c] \in {"poll", "batch", "ran"}}) <= Width

(* At most the width streams; a cancellation is the token's, and acts at   *)
(* once but for what was past the check; an answer is the whole answer.    *)
StatementInv == TypeOK /\ InsideTheGate /\ CancelledForCause /\ FewAfterCancel /\ AnswerIsWhole

(* While the token stays set every statement in flight ends, one without   *)
(* an end and those in line behind it too; a statement that is not         *)
(* cancelled ends if nothing endless runs before it.  No caller waits on a *)
(* thread that waits on the caller.                                        *)
NothingEndless == \A c \in Calls : ~plan[c].endless
EveryStatementEnds ==
  ([]NothingEndless \/ <>[]token) => \A c \in Calls : pc[c] = "planned" ~> pc[c] = "done"

(* And the tasks of a statement that is over, cancelled or not, all stop.  *)
TasksStop == \A c \in Calls : pc[c] = "done" ~> \A s \in Scans : <<c, s>> \notin alive

(* Statements end, and so does what they started.                          *)
StatementsEnd == EveryStatementEnds /\ TasksStop
=============================================================================
