-------------------------------- MODULE Gate --------------------------------
(***************************************************************************)
(* The admission gate in front of the fold's thread pool (src/gate.rs): a  *)
(* ticket lock with a width.  Every query takes a ticket, proceeds once    *)
(* ticket < released + width, and may give its turn up while it waits when *)
(* its caller is cancelled.                                                *)
(*                                                                         *)
(* Everything between taking the mutex and either returning or going to    *)
(* sleep in wait_timeout is one step, because the mutex is held            *)
(* throughout.  A sleeping waiter re-runs the loop test when it is         *)
(* notified or when two milliseconds have passed, so it may run it at any  *)
(* time; a test that changes nothing is a stuttering step.                 *)
(***************************************************************************)
EXTENDS Naturals, Sequences, FiniteSets

CONSTANTS
  Callers,      \* the threads that ask for a turn
  Cancellable,  \* those that pass a token somebody else can cancel
  Capacity,     \* the width the gate was built with
  MaxTickets    \* bound: how many tickets are ever handed out

ASSUME GateAssumption ==
  /\ IsFiniteSet(Callers) /\ "gap" \notin Callers
  /\ Cancellable \subseteq Callers
  /\ Capacity \in Nat
  /\ MaxTickets \in Nat

\* Gate::new: `width.max(1)`.
Width == IF Capacity > 1 THEN Capacity ELSE 1

VARIABLES
  next, released, inFlight, peak,  \* the mutex-guarded State
  pc,         \* where each caller is: "out", "waiting", "inside"
  ticket,     \* the ticket a waiting or inside caller holds
  cancelled,  \* the caller's CancelToken
  forfeited   \* history: the tickets that were given up

vars == <<next, released, inFlight, peak, pc, ticket, cancelled, forfeited>>

GateInit ==
  /\ next = 0
  /\ released = 0
  /\ inFlight = 0
  /\ peak = 0

Init ==
  /\ GateInit
  /\ pc = [c \in Callers |-> "out"]
  /\ ticket = [c \in Callers |-> 0]
  /\ cancelled = [c \in Callers |-> FALSE]
  /\ forfeited = {}

-----------------------------------------------------------------------------
\* Mutants of the definitions below, for checking that the properties bite.
TurnOffByOne(t) == t <= released + Width

ForfeitAbandoned(c, t) ==
  /\ pc' = [pc EXCEPT ![c] = "out"]
  /\ forfeited' = forfeited \cup {t}
  /\ UNCHANGED <<released, inFlight, peak>>

ForfeitUnnoticed(c, t) ==
  /\ pc' = [pc EXCEPT ![c] = "out"]
  /\ UNCHANGED <<released, inFlight, peak, forfeited>>

WakeForfeitHeadOnly(c) ==
  /\ pc[c] = "waiting"
  /\ ticket[c] = released + Width
  /\ cancelled[c]
  /\ pc' = [pc EXCEPT ![c] = "out"]
  /\ released' = released + 1
  /\ forfeited' = forfeited \cup {ticket[c]}
  /\ UNCHANGED <<next, inFlight, peak, ticket, cancelled>>

LeaveNotReleased(c) ==
  /\ pc[c] = "inside"
  /\ pc' = [pc EXCEPT ![c] = "out"]
  /\ inFlight' = inFlight - 1
  /\ UNCHANGED <<next, released, peak, ticket, cancelled, forfeited>>

-----------------------------------------------------------------------------
\* The negation of the loop test.
Turn(t) == t < released + Width

\* The bookkeeping of an admission: one more holder, and the high-water mark.
Admitted(c) ==
  /\ pc' = [pc EXCEPT ![c] = "inside"]
  /\ inFlight' = inFlight + 1
  /\ peak' = IF inFlight + 1 > peak THEN inFlight + 1 ELSE peak
  /\ UNCHANGED <<released, forfeited>>

\* Giving up: the ticket counts as finished, so the line does not lose a slot.
Forfeit(c, t) ==
  /\ pc' = [pc EXCEPT ![c] = "out"]
  /\ released' = released + 1
  /\ forfeited' = forfeited \cup {t}
  /\ UNCHANGED <<inFlight, peak>>

\* Taking a ticket is the first thing a caller does once it has the mutex.
TakeTicket(c) ==
  /\ pc[c] = "out"
  /\ next < MaxTickets
  /\ next' = next + 1
  /\ ticket' = [ticket EXCEPT ![c] = next]
  /\ UNCHANGED cancelled

\* enter_cancellable, when the turn has already come.
EnterAtOnce(c) == TakeTicket(c) /\ Turn(next) /\ Admitted(c)

\* enter_cancellable, when the turn has not come and the token is set already.
EnterForfeit(c) ==
  TakeTicket(c) /\ ~Turn(next) /\ cancelled[c] /\ Forfeit(c, next)

\* enter_cancellable, going to sleep for the first time.
EnterWait(c) ==
  /\ TakeTicket(c)
  /\ ~Turn(next)
  /\ ~cancelled[c]
  /\ pc' = [pc EXCEPT ![c] = "waiting"]
  /\ UNCHANGED <<released, inFlight, peak, forfeited>>

Enter(c) == EnterAtOnce(c) \/ EnterForfeit(c) \/ EnterWait(c)

\* A sleeping waiter wakes (notified, or after the poll interval) to its turn.
\* The turn is tested first, so a cancelled waiter whose turn came is admitted.
WakeAdmit(c) ==
  /\ pc[c] = "waiting"
  /\ Turn(ticket[c])
  /\ Admitted(c)
  /\ UNCHANGED <<next, ticket, cancelled>>

\* A sleeping waiter wakes, is not in turn, and finds its token set.
WakeForfeit(c) ==
  /\ pc[c] = "waiting"
  /\ ~Turn(ticket[c])
  /\ cancelled[c]
  /\ Forfeit(c, ticket[c])
  /\ UNCHANGED <<next, ticket, cancelled>>

Wake(c) == WakeAdmit(c) \/ WakeForfeit(c)

\* Pass::drop, on return and on panic alike.
Leave(c) ==
  /\ pc[c] = "inside"
  /\ pc' = [pc EXCEPT ![c] = "out"]
  /\ released' = released + 1
  /\ inFlight' = inFlight - 1
  /\ UNCHANGED <<next, peak, ticket, cancelled, forfeited>>

\* CancelToken::cancel and ::reset, from another thread, at any time.
Cancel(c) ==
  /\ ~cancelled[c]
  /\ cancelled' = [cancelled EXCEPT ![c] = TRUE]
  /\ UNCHANGED <<next, released, inFlight, peak, pc, ticket, forfeited>>

Reset(c) ==
  /\ cancelled[c]
  /\ cancelled' = [cancelled EXCEPT ![c] = FALSE]
  /\ UNCHANGED <<next, released, inFlight, peak, pc, ticket, forfeited>>

Next ==
  \/ \E c \in Callers : Enter(c) \/ Wake(c) \/ Leave(c)
  \/ \E c \in Cancellable : Cancel(c) \/ Reset(c)

Spec == Init /\ [][Next]_vars

\* The poll makes every waiter run its test again; nothing makes a holder leave.
PollingSpec == Spec /\ \A c \in Callers : WF_vars(Wake(c))

\* Holders leave too: a fold ends by itself or by its deadline.
HoldersLeave == \A c \in Callers : WF_vars(Leave(c))

-----------------------------------------------------------------------------
Waiting == {c \in Callers : pc[c] = "waiting"}
Inside == {c \in Callers : pc[c] = "inside"}

\* Waiters whose turn has come and who have not woken to it yet.
Called == {c \in Waiting : Turn(ticket[c])}

\* Tickets given up by waiters whose turn the line has not reached.
Early == {t \in forfeited : ~Turn(t)}

\* The tickets the window covers: as many as were issued, up to its end.
Reached == IF next < released + Width THEN next ELSE released + Width

TypeOK ==
  /\ next \in 0..MaxTickets
  /\ released \in Nat
  /\ inFlight \in Nat
  /\ peak \in Nat
  /\ pc \in [Callers -> {"out", "waiting", "inside"}]
  /\ ticket \in [Callers -> 0..MaxTickets]
  /\ cancelled \in [Callers -> BOOLEAN]
  /\ forfeited \in SUBSET (0..MaxTickets)

(* No ticket is lost or counted twice: every ticket handed out is waiting, *)
(* inside, or released, whichever way callers left (return, panic, or      *)
(* giving up in the queue), so the line never loses a slot.                *)
Accounting ==
  /\ inFlight = Cardinality(Inside)
  /\ next = released + inFlight + Cardinality(Waiting)

(* Two callers never hold the same ticket, and a given-up ticket is not    *)
(* held by anybody: the order of the line is well defined.                 *)
TicketsUnique ==
  \A c \in Waiting \cup Inside :
    /\ ticket[c] < next
    /\ ticket[c] \notin forfeited
    /\ \A d \in Waiting \cup Inside : ticket[c] = ticket[d] => c = d

(* Every place in the line is held: a ticket the window has not reached    *)
(* belongs to a waiting caller or was given up, so when the window gets    *)
(* there it either calls somebody or passes a gap, and never stalls.       *)
PlacesHeld ==
  /\ \A t \in forfeited : t < next
  /\ \A t \in 0..MaxTickets :
       ~Turn(t) /\ t < next => t \in forfeited \/ \E c \in Waiting : ticket[c] = t

(* How many queries can be inside at once.  A ticket given up before its   *)
(* turn moves the window by one while no holder has left, so it lets one   *)
(* more query in, until the window passes that ticket.  Callers already    *)
(* called but still asleep count against the same allowance.               *)
Occupancy == inFlight + Cardinality(Called) <= Width + Cardinality(Early)

(* The window's slots are all accounted for: with nobody early, a gate     *)
(* with a line behind it has no idle slot.                                 *)
NoIdleSlot ==
  inFlight + Cardinality(Called) = Reached - released + Cardinality(Early)

(* The line is in order: its tickets are its callers' own, and none is     *)
(* missing.                                                                *)
Ordered == TicketsUnique /\ PlacesHeld

(* No slot is lost, and no more are used than the tickets given up early   *)
(* allow.                                                                  *)
Slots == TypeOK /\ Accounting /\ NoIdleSlot /\ Occupancy

\* Who, or what, holds the place of ticket t in the line.
InLine(t) ==
  IF t \in forfeited THEN "gap" ELSE CHOOSE c \in Waiting : ticket[c] = t

Line == INSTANCE AdmissionLine WITH
  Slots <- Width,
  Gap <- "gap",
  line <- [i \in 1..(next - Reached) |-> InLine(Reached + i - 1)],
  called <- Inside \cup Called,
  free <- released + Width - Reached

(* The gate is the ticketless line of AdmissionLine: callers are called in *)
(* the order they arrived, one per departure and one per give-up.          *)
LineRefined == Line!LineSpec

(* What src/gate.rs:20-22 says: at most `capacity` queries are inside.     *)
WidthRespected == inFlight <= Width

(* As long as holders leave, a query that waits is eventually admitted or  *)
(* gives up, and one that nobody cancels is admitted.                      *)
NoStarvation ==
  HoldersLeave =>
    \A c \in Callers :
      /\ pc[c] = "waiting" ~> pc[c] # "waiting"
      /\ c \notin Cancellable => (pc[c] = "waiting" ~> pc[c] = "inside")

(* A cancelled waiter leaves the line though no holder ever leaves.        *)
CancelIsPrompt ==
  \A c \in Callers :
    (pc[c] = "waiting" /\ cancelled[c]) ~> (pc[c] # "waiting" \/ ~cancelled[c])
=============================================================================
