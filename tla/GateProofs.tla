----------------------------- MODULE GateProofs -----------------------------
(***************************************************************************)
(* Proofs about the admission gate, for every set of callers, every        *)
(* capacity and every bound on the tickets.                                *)
(***************************************************************************)
EXTENDS Gate, TLAPS, FiniteSetTheorems, SequenceTheorems

(* The loop test compares with a positive width. *)
LEMMA WidthPositive == Width \in Nat \ {0}
  BY GateAssumption, SMT DEF Width

(* The sets of callers and of tickets that are counted are finite. *)
LEMMA CountedFinite ==
  ASSUME TypeOK
  PROVE  /\ IsFiniteSet(Waiting) /\ IsFiniteSet(Inside) /\ IsFiniteSet(Called)
         /\ IsFiniteSet(forfeited) /\ IsFiniteSet(Early)
  <1>1. IsFiniteSet(Callers) BY GateAssumption
  <1>2. IsFiniteSet(0..MaxTickets) BY FS_Interval, GateAssumption
  <1>3. Waiting \subseteq Callers /\ Inside \subseteq Callers /\ Called \subseteq Callers
    BY DEF Waiting, Inside, Called
  <1>4. forfeited \subseteq 0..MaxTickets /\ Early \subseteq 0..MaxTickets
    BY DEF TypeOK, Early
  <1>. QED BY <1>1, <1>2, <1>3, <1>4, FS_Subset

-----------------------------------------------------------------------------
(* Types and the accounting of tickets are inductive together: a departure *)
(* keeps inFlight a natural only because the departing caller was counted. *)
Counted == TypeOK /\ Accounting

LEMMA CountedInit == Init => Counted
  <1> SUFFICES ASSUME Init PROVE Counted
    OBVIOUS
  <1>1. TypeOK
    BY GateAssumption DEF Init, GateInit, TypeOK
  <1>2. Waiting = {} /\ Inside = {}
    BY DEF Init, Waiting, Inside
  <1>3. Accounting
    BY <1>2, FS_EmptySet DEF Accounting, Init, GateInit
  <1>. QED BY <1>1, <1>3 DEF Counted

LEMMA CountedStep == Counted /\ [Next]_vars => Counted'
  <1> SUFFICES ASSUME Counted, [Next]_vars PROVE Counted'
    OBVIOUS
  <1> USE DEF Counted
  <1>f. /\ IsFiniteSet(Waiting) /\ Cardinality(Waiting) \in Nat
        /\ IsFiniteSet(Inside) /\ Cardinality(Inside) \in Nat
    BY CountedFinite, FS_CardinalityType
  <1>w. Width \in Nat BY WidthPositive
  <1>1. ASSUME NEW c \in Callers, EnterAtOnce(c) PROVE Counted'
    <2>1. Inside' = Inside \cup {c} /\ c \notin Inside /\ Waiting' = Waiting
      BY <1>1 DEF EnterAtOnce, TakeTicket, Admitted, Inside, Waiting, TypeOK
    <2>2. Cardinality(Inside') = Cardinality(Inside) + 1
      BY <2>1, <1>f, FS_AddElement
    <2>3. Accounting'
      BY <2>1, <2>2, <1>1, <1>f DEF EnterAtOnce, TakeTicket, Admitted, Accounting, TypeOK
    <2>4. TypeOK'
      BY <1>1, GateAssumption DEF EnterAtOnce, TakeTicket, Admitted, TypeOK
    <2>. QED BY <2>3, <2>4
  <1>2. ASSUME NEW c \in Callers, EnterForfeit(c) PROVE Counted'
    <2>1. Inside' = Inside /\ Waiting' = Waiting
      BY <1>2 DEF EnterForfeit, TakeTicket, Forfeit, Inside, Waiting, TypeOK
    <2>3. Accounting'
      BY <2>1, <1>2, <1>f DEF EnterForfeit, TakeTicket, Forfeit, Accounting, TypeOK
    <2>4. TypeOK'
      BY <1>2, GateAssumption DEF EnterForfeit, TakeTicket, Forfeit, TypeOK
    <2>. QED BY <2>3, <2>4
  <1>3. ASSUME NEW c \in Callers, EnterWait(c) PROVE Counted'
    <2>1. Waiting' = Waiting \cup {c} /\ c \notin Waiting /\ Inside' = Inside
      BY <1>3 DEF EnterWait, TakeTicket, Inside, Waiting, TypeOK
    <2>2. Cardinality(Waiting') = Cardinality(Waiting) + 1
      BY <2>1, <1>f, FS_AddElement
    <2>3. Accounting'
      BY <2>1, <2>2, <1>3, <1>f DEF EnterWait, TakeTicket, Accounting, TypeOK
    <2>4. TypeOK'
      BY <1>3, GateAssumption DEF EnterWait, TakeTicket, TypeOK
    <2>. QED BY <2>3, <2>4
  <1>4. ASSUME NEW c \in Callers, WakeAdmit(c) PROVE Counted'
    <2>1. /\ Inside' = Inside \cup {c} /\ c \notin Inside
          /\ Waiting' = Waiting \ {c} /\ c \in Waiting
      BY <1>4 DEF WakeAdmit, Admitted, Inside, Waiting, TypeOK
    <2>2. /\ Cardinality(Inside') = Cardinality(Inside) + 1
          /\ Cardinality(Waiting') = Cardinality(Waiting) - 1
      BY <2>1, <1>f, FS_AddElement, FS_RemoveElement
    <2>3. Accounting'
      BY <2>1, <2>2, <1>4, <1>f DEF WakeAdmit, Admitted, Accounting, TypeOK
    <2>4. TypeOK'
      BY <1>4, GateAssumption DEF WakeAdmit, Admitted, TypeOK
    <2>. QED BY <2>3, <2>4
  <1>5. ASSUME NEW c \in Callers, WakeForfeit(c) PROVE Counted'
    <2>1. Waiting' = Waiting \ {c} /\ c \in Waiting /\ Inside' = Inside
      BY <1>5 DEF WakeForfeit, Forfeit, Inside, Waiting, TypeOK
    <2>2. Cardinality(Waiting') = Cardinality(Waiting) - 1
      BY <2>1, <1>f, FS_RemoveElement
    <2>3. Accounting'
      BY <2>1, <2>2, <1>5, <1>f DEF WakeForfeit, Forfeit, Accounting, TypeOK
    <2>4. ticket[c] \in 0..MaxTickets
      BY DEF TypeOK
    <2>5. TypeOK'
      <3>1. forfeited' \in SUBSET (0..MaxTickets)
        BY <2>4, <1>5 DEF WakeForfeit, Forfeit, TypeOK
      <3>2. pc' \in [Callers -> {"out", "waiting", "inside"}] /\ released' \in Nat
        BY <1>5 DEF WakeForfeit, Forfeit, TypeOK
      <3>. QED BY <3>1, <3>2, <1>5 DEF WakeForfeit, Forfeit, TypeOK
    <2>. QED BY <2>3, <2>5
  <1>6. ASSUME NEW c \in Callers, Leave(c) PROVE Counted'
    <2>1. Inside' = Inside \ {c} /\ c \in Inside /\ Waiting' = Waiting
      BY <1>6 DEF Leave, Inside, Waiting, TypeOK
    <2>2. Cardinality(Inside') = Cardinality(Inside) - 1
      BY <2>1, <1>f, FS_RemoveElement
    <2>3. Cardinality(Inside') \in Nat
      BY <2>1, <1>f, FS_RemoveElement, FS_CardinalityType
    <2>4. Accounting'
      BY <2>1, <2>2, <1>6, <1>f DEF Leave, Accounting, TypeOK
    <2>5. inFlight - 1 \in Nat
      BY <2>2, <2>3 DEF Accounting
    <2>6. TypeOK'
      BY <2>5, <1>6 DEF Leave, TypeOK
    <2>. QED BY <2>4, <2>6
  <1>7. ASSUME NEW c \in Callers, Cancel(c) \/ Reset(c) PROVE Counted'
    <2>1. Waiting' = Waiting /\ Inside' = Inside
      BY <1>7 DEF Cancel, Reset, Waiting, Inside
    <2>. QED BY <2>1, <1>7 DEF Cancel, Reset, Accounting, TypeOK
  <1>8. ASSUME UNCHANGED vars PROVE Counted'
    BY <1>8 DEF vars, Accounting, TypeOK, Waiting, Inside
  <1>. QED
    BY <1>1, <1>2, <1>3, <1>4, <1>5, <1>6, <1>7, <1>8, GateAssumption
    DEF Next, Enter, Wake

(* Every variable keeps its type: a departure never drives inFlight below  *)
(* zero (src/gate.rs, Pass::drop subtracts from an unsigned counter).      *)
THEOREM Typing == Spec => []TypeOK
  <1>1. Spec => []Counted
    BY CountedInit, CountedStep, PTL DEF Spec
  <1>2. Counted => TypeOK
    BY DEF Counted
  <1>. QED BY <1>1, <1>2, PTL

(* Every ticket handed out is waiting, inside or released, whichever way   *)
(* callers left: giving up in the line loses no slot.                      *)
THEOREM TicketsAccounted == Spec => []Accounting
  <1>1. Spec => []Counted
    BY CountedInit, CountedStep, PTL DEF Spec
  <1>2. Counted => Accounting
    BY DEF Counted
  <1>. QED BY <1>1, <1>2, PTL

-----------------------------------------------------------------------------
(* The order of the line. *)
LEMMA OrderedInit == Init => Ordered
  BY DEF Init, GateInit, Ordered, TicketsUnique, PlacesHeld, Waiting, Inside

LEMMA OrderedStep == TypeOK /\ Ordered /\ [Next]_vars => Ordered'
  <1> SUFFICES ASSUME TypeOK, Ordered, [Next]_vars PROVE Ordered'
    OBVIOUS
  <1> USE DEF Ordered
  <1>w. Width \in Nat BY WidthPositive
  <1>1. ASSUME NEW c \in Callers, Enter(c) PROVE Ordered'
    <2>. USE <1>w DEF TypeOK, Turn, TakeTicket, Waiting, Inside, TicketsUnique, PlacesHeld
    <2>1. CASE EnterAtOnce(c)
      BY <2>1 DEF EnterAtOnce, Admitted
    <2>2. CASE EnterForfeit(c)
      BY <2>2 DEF EnterForfeit, Forfeit
    <2>3. CASE EnterWait(c)
      BY <2>3 DEF EnterWait
    <2>. QED BY <1>1, <2>1, <2>2, <2>3 DEF Enter
  <1>2. ASSUME NEW c \in Callers, Wake(c) PROVE Ordered'
    <2>. USE <1>w DEF TypeOK, Turn, Waiting, Inside, TicketsUnique, PlacesHeld
    <2>1. CASE WakeAdmit(c)
      BY <2>1 DEF WakeAdmit, Admitted
    <2>2. CASE WakeForfeit(c)
      BY <2>2 DEF WakeForfeit, Forfeit
    <2>. QED BY <1>2, <2>1, <2>2 DEF Wake
  <1>3. ASSUME NEW c \in Callers, Leave(c) PROVE Ordered'
    BY <1>3, <1>w DEF Leave, TypeOK, Turn, Waiting, Inside, TicketsUnique, PlacesHeld
  <1>4. ASSUME NEW c \in Callers, Cancel(c) \/ Reset(c) PROVE Ordered'
    BY <1>4 DEF Cancel, Reset, Turn, Waiting, Inside, TicketsUnique, PlacesHeld
  <1>5. ASSUME UNCHANGED vars PROVE Ordered'
    BY <1>5 DEF vars, Turn, Waiting, Inside, TicketsUnique, PlacesHeld
  <1>. QED
    BY <1>1, <1>2, <1>3, <1>4, <1>5, GateAssumption DEF Next

(* Tickets are held by one caller at most, and every place the window has  *)
(* still to reach is held: the line has an order and no holes.             *)
THEOREM LineOrdered == Spec => []Ordered
  <1>1. Init => Ordered BY OrderedInit
  <1>2. TypeOK /\ Ordered /\ [Next]_vars => Ordered' BY OrderedStep
  <1>. QED BY <1>1, <1>2, Typing, PTL DEF Spec

-----------------------------------------------------------------------------
(***************************************************************************)
(* How many are inside.  The bound on inFlight is not inductive: an        *)
(* admission adds a holder and needs to know that a slot was left.  The    *)
(* equation NoIdleSlot is, given that the line is ordered: when the window *)
(* moves by one, the ticket it reaches is either a waiter's, who is then   *)
(* called, or a given-up one, which stops being early.                     *)
(***************************************************************************)
SlotInv == TypeOK /\ Ordered /\ NoIdleSlot

LEMMA SlotInit == Init => NoIdleSlot
  <1> SUFFICES ASSUME Init PROVE NoIdleSlot
    OBVIOUS
  <1>1. Called = {} /\ Early = {}
    BY DEF Init, Called, Early, Waiting
  <1>. QED
    BY <1>1, WidthPositive, FS_EmptySet DEF NoIdleSlot, Reached, Init, GateInit

(* Giving a ticket up moves the window by one without a departure.  If the *)
(* ticket was next in line nobody is called; otherwise somebody else is,   *)
(* or a gap is passed, and the ticket itself is early from now on.         *)
LEMMA GiveUpKeepsSlots ==
  ASSUME SlotInv, NEW c \in Callers, NEW t \in Nat,
         ~Turn(t), t <= next, t \notin forfeited,
         c \in Waiting => ticket[c] = t,
         \A d \in Waiting \ {c} : ticket[d] # t /\ ticket'[d] = ticket[d],
         Waiting' = Waiting \ {c},
         released' = released + 1, inFlight' = inFlight,
         forfeited' = forfeited \cup {t},
         next' \in Nat, t < next'
  PROVE  NoIdleSlot'
  <1> DEFINE R == released + Width
  <1>w. Width \in Nat \ {0} BY WidthPositive
  <1>t. /\ next \in Nat /\ released \in Nat /\ inFlight \in Nat
        /\ forfeited \subseteq Nat /\ next <= MaxTickets /\ MaxTickets \in Nat
        /\ \A d \in Waiting : ticket[d] \in Nat
    BY GateAssumption DEF SlotInv, TypeOK, Waiting
  <1>f. /\ IsFiniteSet(Called) /\ Cardinality(Called) \in Nat
        /\ IsFiniteSet(Early) /\ Cardinality(Early) \in Nat
    BY CountedFinite, FS_CardinalityType DEF SlotInv
  <1>n. inFlight + Cardinality(Called) = Reached - released + Cardinality(Early)
    BY DEF SlotInv, NoIdleSlot
  <1>o. TicketsUnique /\ PlacesHeld
    BY DEF SlotInv, Ordered
  <1>r. R \in Nat /\ R <= t /\ Reached = R /\ Reached' = R + 1
    BY <1>w, <1>t DEF Turn, Reached
  <1>1. \A u \in Nat : Turn(u)' <=> Turn(u) \/ u = R
    BY <1>t, <1>w DEF Turn
  <1>2. Early' = (Early \cup {t}) \ {R}
    <2>1. \A u \in forfeited \cup {t} : Turn(u)' <=> Turn(u) \/ u = R
      BY <1>1, <1>t
    <2>. QED BY <2>1, <1>r DEF Early, Turn
  <1>3. Called' = Called \cup {d \in Waiting \ {c} : ticket[d] = R}
    <2>1. \A d \in Waiting \ {c} : Turn(ticket[d])' <=> Turn(ticket[d]) \/ ticket[d] = R
      BY <1>t, <1>w DEF Turn
    <2>2. c \notin Called
      BY DEF Called
    <2>. QED BY <2>1, <2>2 DEF Called
  <1>4. t \notin Early
    BY DEF Early
  <1>5. Cardinality(Called') - Cardinality(Called) = Cardinality(Early') - Cardinality(Early)
    <2>1. CASE t = R
      <3>1. Early' = Early BY <2>1, <1>2, <1>4
      <3>2. {d \in Waiting \ {c} : ticket[d] = R} = {} BY <2>1
      <3>3. Called' = Called BY <3>2, <1>3
      <3>. QED BY <3>1, <3>3, <1>f
    <2>2. CASE t # R /\ R \in forfeited
      <3>1. {d \in Waiting \ {c} : ticket[d] = R} = {}
        BY <2>2, <1>o DEF TicketsUnique
      <3>2. Called' = Called BY <3>1, <1>3
      <3>3. R \in Early
        BY <2>2, <1>t, <1>w DEF Early, Turn
      <3>4. IsFiniteSet(Early \cup {t}) /\ Cardinality(Early \cup {t}) = Cardinality(Early) + 1
        BY <1>f, <1>4, FS_AddElement
      <3>5. Cardinality(Early') = Cardinality(Early \cup {t}) - 1
        BY <3>3, <3>4, <1>2, FS_RemoveElement
      <3>. QED BY <3>2, <3>4, <3>5, <1>f
    <2>3. CASE t # R /\ R \notin forfeited
      <3>1. ~Turn(R) /\ R < next /\ R \in 0..MaxTickets
        BY <2>3, <1>r, <1>t, <1>w DEF Turn
      <3>2. PICK d \in Waiting : ticket[d] = R
        BY <3>1, <2>3, <1>o DEF PlacesHeld
      <3>3. d # c BY <3>2, <2>3
      <3>4. \A e \in Waiting : ticket[e] = R => e = d
        BY <3>2, <1>o DEF TicketsUnique
      <3>5. {e \in Waiting \ {c} : ticket[e] = R} = {d}
        BY <3>2, <3>3, <3>4
      <3>6. d \notin Called
        BY <3>1, <3>2 DEF Called
      <3>7. Cardinality(Called') = Cardinality(Called) + 1
        BY <3>5, <3>6, <1>3, <1>f, FS_AddElement
      <3>8. R \notin Early BY <2>3 DEF Early
      <3>9. Early' = Early \cup {t}
        BY <3>8, <2>3, <1>2
      <3>10. Cardinality(Early') = Cardinality(Early) + 1
        BY <3>9, <1>4, <1>f, FS_AddElement
      <3>. QED BY <3>7, <3>10, <1>f
    <2>. QED BY <2>1, <2>2, <2>3
  <1>6. Cardinality(Called') \in Nat /\ Cardinality(Early') \in Nat
    <2>1. IsFiniteSet(Called') /\ IsFiniteSet(Early')
      <3>1. IsFiniteSet(Waiting) BY CountedFinite DEF SlotInv
      <3>2. Called' \subseteq Waiting BY <1>3 DEF Called
      <3>3. IsFiniteSet(Early \cup {t}) /\ Early' \subseteq Early \cup {t}
        BY <1>2, <1>f, FS_AddElement
      <3>. QED BY <3>1, <3>2, <3>3, FS_Subset
    <2>. QED BY <2>1, FS_CardinalityType
  <1>. QED
    BY <1>5, <1>6, <1>n, <1>r, <1>f, <1>t DEF NoIdleSlot

LEMMA SlotStep == SlotInv /\ [Next]_vars => NoIdleSlot'
  <1> SUFFICES ASSUME SlotInv, [Next]_vars PROVE NoIdleSlot'
    OBVIOUS
  <1>w. Width \in Nat \ {0} BY WidthPositive
  <1>t. /\ next \in Nat /\ released \in Nat /\ inFlight \in Nat
        /\ forfeited \subseteq Nat
        /\ \A c \in Callers : ticket[c] \in Nat /\ ticket[c] <= MaxTickets
    BY GateAssumption DEF SlotInv, TypeOK
  <1>f. /\ IsFiniteSet(Called) /\ Cardinality(Called) \in Nat
        /\ IsFiniteSet(Early) /\ Cardinality(Early) \in Nat
    BY CountedFinite, FS_CardinalityType DEF SlotInv
  <1>n. inFlight + Cardinality(Called) = Reached - released + Cardinality(Early)
    BY DEF SlotInv, NoIdleSlot
  <1>o. TicketsUnique /\ PlacesHeld
    BY DEF SlotInv, Ordered
  <1>p. pc \in [Callers -> {"out", "waiting", "inside"}] /\ ticket \in [Callers -> 0..MaxTickets]
    BY DEF SlotInv, TypeOK
  <1>1. ASSUME NEW c \in Callers, EnterAtOnce(c) PROVE NoIdleSlot'
    <2>1. Called' = Called /\ Early' = Early
      BY <1>1, <1>p DEF EnterAtOnce, TakeTicket, Admitted, Called, Waiting, Early, Turn
    <2>2. Reached' = Reached + 1
      BY <1>1, <1>t, <1>w DEF EnterAtOnce, TakeTicket, Admitted, Reached, Turn
    <2>. QED
      BY <2>1, <2>2, <1>1, <1>n, <1>t, <1>f, <1>w
      DEF EnterAtOnce, Admitted, NoIdleSlot, Reached
  <1>2. ASSUME NEW c \in Callers, EnterWait(c) PROVE NoIdleSlot'
    <2>1. Called' = Called /\ Early' = Early
      BY <1>2, <1>p, <1>t, <1>w DEF EnterWait, TakeTicket, Called, Waiting, Early, Turn
    <2>2. Reached' = Reached
      BY <1>2, <1>t, <1>w DEF EnterWait, TakeTicket, Reached, Turn
    <2>. QED
      BY <2>1, <2>2, <1>2, <1>n DEF EnterWait, NoIdleSlot
  <1>3. ASSUME NEW c \in Callers, WakeAdmit(c) PROVE NoIdleSlot'
    <2>1. Called' = Called \ {c} /\ c \in Called /\ Early' = Early
      BY <1>3, <1>p DEF WakeAdmit, Admitted, Called, Waiting, Early, Turn
    <2>2. Cardinality(Called') = Cardinality(Called) - 1
      BY <2>1, <1>f, FS_RemoveElement
    <2>3. Reached' = Reached /\ released' = released /\ inFlight' = inFlight + 1
      BY <1>3 DEF WakeAdmit, Admitted, Reached
    <2>. QED
      BY <2>1, <2>2, <2>3, <1>n, <1>t, <1>f DEF NoIdleSlot
  <1>4. ASSUME NEW c \in Callers, Leave(c) PROVE NoIdleSlot'
    <2> DEFINE R == released + Width
    <2>1. /\ Called' = Called \cup {d \in Waiting : ticket[d] = R}
          /\ Early' = Early \ {R}
          /\ released' = released + 1 /\ inFlight' = inFlight - 1
      <3>1. released' = released + 1 /\ inFlight' = inFlight - 1
            /\ forfeited' = forfeited /\ ticket' = ticket
        BY <1>4 DEF Leave
      <3>2. Waiting' = Waiting
        BY <1>4, <1>p DEF Leave, Waiting
      <3>3. \A u \in Nat : Turn(u)' <=> Turn(u) \/ u = R
        BY <3>1, <1>t, <1>w DEF Turn
      <3>4. \A d \in Waiting : ticket[d] \in Nat /\ ticket'[d] = ticket[d]
        BY <3>1, <1>t DEF Waiting
      <3>5. \A d \in Waiting : Turn(ticket[d])' <=> Turn(ticket[d]) \/ ticket[d] = R
        BY <3>1, <3>4, <1>w, <1>t DEF Turn
      <3>6. Called' = Called \cup {d \in Waiting : ticket[d] = R}
        BY <3>2, <3>5 DEF Called
      <3>7. \A u \in forfeited : Turn(u)' <=> Turn(u) \/ u = R
        BY <3>3, <1>t
      <3>8. Early' = Early \ {R}
        BY <3>1, <3>7, <1>t, <1>w DEF Early, Turn
      <3>. QED BY <3>1, <3>6, <3>8
    <2>2. CASE R < next
      <3>1. Reached' = Reached + 1
        BY <2>2, <1>4, <1>t, <1>w DEF Leave, Reached
      <3>2. CASE R \in forfeited
        <4>1. {d \in Waiting : ticket[d] = R} = {}
          BY <3>2, <1>o DEF TicketsUnique
        <4>2. R \in Early
          BY <3>2, <1>t, <1>w DEF Early, Turn
        <4>3. Cardinality(Early') = Cardinality(Early) - 1
          BY <4>2, <2>1, <1>f, FS_RemoveElement
        <4>4. Called' = Called
          BY <4>1, <2>1
        <4>. QED
          BY <4>4, <4>3, <3>1, <2>1, <1>n, <1>t, <1>f, <1>w DEF NoIdleSlot, Reached
      <3>3. CASE R \notin forfeited
        <4>1. PICK d \in Waiting : ticket[d] = R
          BY <3>3, <2>2, <1>o, <1>t, <1>w, GateAssumption DEF PlacesHeld, Turn, SlotInv, TypeOK
        <4>2. {e \in Waiting : ticket[e] = R} = {d}
          BY <4>1, <1>o DEF TicketsUnique
        <4>3. d \notin Called
          BY <4>1, <1>t, <1>w DEF Called, Turn
        <4>4. Cardinality(Called') = Cardinality(Called) + 1
          BY <4>2, <4>3, <2>1, <1>f, FS_AddElement
        <4>5. Early' = Early
          BY <3>3, <2>1 DEF Early
        <4>. QED
          BY <4>4, <4>5, <3>1, <2>1, <1>n, <1>t, <1>f, <1>w DEF NoIdleSlot, Reached
      <3>. QED BY <3>2, <3>3
    <2>3. CASE ~(R < next)
      <3>1. Reached' = next /\ Reached = next
        BY <2>3, <1>4, <1>t, <1>w DEF Leave, Reached
      <3>2. {d \in Waiting : ticket[d] = R} = {}
        BY <2>3, <1>o, <1>t, <1>w DEF TicketsUnique, Waiting
      <3>3. R \notin Early
        BY <2>3, <1>o, <1>t, <1>w DEF PlacesHeld, Early
      <3>4. Called' = Called /\ Early' = Early
        BY <3>2, <3>3, <2>1
      <3>. QED
        BY <3>1, <3>4, <2>1, <1>n, <1>t, <1>f DEF NoIdleSlot
    <2>. QED BY <2>2, <2>3
  <1>5. ASSUME NEW c \in Callers, WakeForfeit(c) PROVE NoIdleSlot'
    <2>1. Waiting' = Waiting \ {c} /\ c \in Waiting
      BY <1>5, <1>p DEF WakeForfeit, Forfeit, Waiting
    <2>2. ticket[c] < next /\ ticket[c] \notin forfeited
          /\ \A d \in Waiting \ {c} : ticket[d] # ticket[c]
      BY <2>1, <1>o DEF TicketsUnique
    <2>3. /\ ~Turn(ticket[c]) /\ released' = released + 1 /\ inFlight' = inFlight
          /\ forfeited' = forfeited \cup {ticket[c]} /\ next' = next /\ ticket' = ticket
      BY <1>5 DEF WakeForfeit, Forfeit
    <2>4. ticket[c] \in Nat /\ ticket[c] <= next
      BY <2>2, <1>t
    <2>. QED BY <2>1, <2>2, <2>3, <2>4, <1>t, GiveUpKeepsSlots
  <1>6. ASSUME NEW c \in Callers, EnterForfeit(c) PROVE NoIdleSlot'
    <2>1. Waiting' = Waiting \ {c} /\ c \notin Waiting
      BY <1>6, <1>p DEF EnterForfeit, TakeTicket, Forfeit, Waiting
    <2>2. \A d \in Waiting \ {c} : ticket[d] # next /\ ticket'[d] = ticket[d]
      BY <1>6, <1>p, <1>o, <1>t DEF EnterForfeit, TakeTicket, TicketsUnique, Waiting
    <2>3. /\ ~Turn(next) /\ released' = released + 1 /\ inFlight' = inFlight
          /\ forfeited' = forfeited \cup {next} /\ next' = next + 1
      BY <1>6 DEF EnterForfeit, TakeTicket, Forfeit
    <2>4. next \notin forfeited
      BY <1>o, <1>t DEF PlacesHeld
    <2>. QED BY <2>1, <2>2, <2>3, <2>4, <1>t, GiveUpKeepsSlots
  <1>7. ASSUME NEW c \in Callers, Cancel(c) \/ Reset(c) PROVE NoIdleSlot'
    BY <1>7, <1>n DEF Cancel, Reset, NoIdleSlot, Called, Waiting, Early, Turn, Reached
  <1>8. ASSUME UNCHANGED vars PROVE NoIdleSlot'
    BY <1>8, <1>n DEF vars, NoIdleSlot, Called, Waiting, Early, Turn, Reached
  <1>. QED
    BY <1>1, <1>2, <1>3, <1>4, <1>5, <1>6, <1>7, <1>8, GateAssumption DEF Next, Enter, Wake

(* The slots are all accounted for: holders and called callers are exactly *)
(* the tickets the window covers, less the released, plus the early gaps.  *)
THEOREM SlotsAccounted == Spec => []NoIdleSlot
  <1>1. Init => NoIdleSlot BY SlotInit
  <1>2. TypeOK /\ Ordered /\ NoIdleSlot /\ [Next]_vars => NoIdleSlot'
    BY SlotStep DEF SlotInv
  <1>. QED BY <1>1, <1>2, Typing, LineOrdered, PTL DEF Spec

(* At most width queries are inside, plus one for each ticket given up     *)
(* before its turn that the window has not yet passed.                     *)
THEOREM OccupancyBounded == Spec => []Occupancy
  <1>1. TypeOK /\ NoIdleSlot => Occupancy
    <2> SUFFICES ASSUME TypeOK, NoIdleSlot PROVE Occupancy
      OBVIOUS
    <2>1. Cardinality(Called) \in Nat /\ Cardinality(Early) \in Nat
      BY CountedFinite, FS_CardinalityType
    <2>2. Reached <= released + Width
      BY WidthPositive DEF Reached, TypeOK
    <2>3. Reached \in Nat
      BY WidthPositive, GateAssumption DEF Reached, TypeOK
    <2>. QED
      BY <2>1, <2>2, <2>3, WidthPositive DEF NoIdleSlot, Occupancy, TypeOK
  <1>. QED BY <1>1, Typing, SlotsAccounted, PTL

(* The slots of the gate, all told: counted, given out and bounded.        *)
THEOREM SlotsKept == Spec => []Slots
  <1>1. TypeOK /\ Accounting /\ NoIdleSlot /\ Occupancy => Slots
    BY DEF Slots
  <1>. QED BY <1>1, Typing, TicketsAccounted, SlotsAccounted, OccupancyBounded, PTL

(* The width of src/gate.rs:22-24 is respected for as long as no ticket    *)
(* has been given up: Gate::enter, whose token is never cancelled, needs   *)
(* no more.                                                                *)
THEOREM WidthWithoutForfeits == Spec => [](forfeited = {} => WidthRespected)
  <1>1. TypeOK /\ Occupancy /\ forfeited = {} => WidthRespected
    <2> SUFFICES ASSUME TypeOK, Occupancy, forfeited = {} PROVE WidthRespected
      OBVIOUS
    <2>1. Early = {} BY DEF Early
    <2>2. Cardinality(Called) \in Nat BY CountedFinite, FS_CardinalityType
    <2>. QED
      BY <2>1, <2>2, FS_EmptySet, WidthPositive DEF Occupancy, WidthRespected, TypeOK
  <1>. QED BY <1>1, Typing, OccupancyBounded, PTL

-----------------------------------------------------------------------------
(***************************************************************************)
(* The gate is the ticketless line of AdmissionLine.  The line is read off *)
(* the tickets the window has not reached, and the steps are matched one   *)
(* by one: waking to one's turn and setting a token leave the line alone,  *)
(* the others are what it does.                                            *)
(***************************************************************************)
End == released + Width
Queue == [i \in 1..(next - Reached) |-> InLine(Reached + i - 1)]
LineCalled == Inside \cup Called
LineFree == released + Width - Reached
Places == Callers \cup {"gap"}

LEMMA QueueIsLine ==
  /\ Line!lineVars = <<Queue, LineCalled, LineFree>>
  /\ Line!LineInit <=> Queue = <<>> /\ LineCalled = {} /\ LineFree = Width
  BY DEF Line!lineVars, Line!LineInit, Queue, LineCalled, LineFree

(* Who is in line for a ticket is whoever holds it. *)
LineHeld ==
  /\ \A t : \A d \in Waiting : ticket[d] = t => InLine(t) = d
  /\ \A t \in forfeited : InLine(t) = "gap"

LEMMA HeldInLine == Ordered => LineHeld
  BY DEF Ordered, TicketsUnique, LineHeld, InLine

LEMMA HeldInLineNext == Ordered' => LineHeld'
  <1>1. Ordered => LineHeld BY HeldInLine
  <1>. QED BY <1>1, PTL

(* The line has as many places as tickets the window has not reached.      *)
QueueShaped ==
  /\ next - Reached \in Nat /\ Reached \in Nat /\ LineFree \in Nat
  /\ Queue \in Seq(Places) /\ Len(Queue) = next - Reached
  /\ \A i, t \in Nat :
       0 < i /\ i <= next - Reached /\ t = Reached + i - 1 => Queue[i] = InLine(t)

LEMMA QueueShape == TypeOK /\ Ordered => QueueShaped
  <1> SUFFICES ASSUME TypeOK, Ordered PROVE QueueShaped
    OBVIOUS
  <1>1. next \in Nat /\ released \in Nat /\ Width \in Nat /\ next <= MaxTickets /\ MaxTickets \in Nat
    BY WidthPositive, GateAssumption DEF TypeOK
  <1>2. next - Reached \in Nat /\ Reached \in Nat /\ LineFree \in Nat
    BY <1>1 DEF Reached, LineFree
  <1>3. \A i \in 1..(next - Reached) : InLine(Reached + i - 1) \in Places
    <2> SUFFICES ASSUME NEW i \in 1..(next - Reached) PROVE InLine(Reached + i - 1) \in Places
      OBVIOUS
    <2> DEFINE t == Reached + i - 1
    <2>1. t \in 0..MaxTickets /\ t < next /\ ~Turn(t)
      BY <1>1, <1>2 DEF Reached, Turn
    <2>2. t \in forfeited \/ \E c \in Waiting : ticket[c] = t
      BY <2>1 DEF Ordered, PlacesHeld
    <2>. QED BY <2>2, HeldInLine DEF LineHeld, Places, Waiting
  <1> DEFINE m == next - Reached
  <1>4. m \in Nat /\ Queue = [i \in 1..m |-> InLine(Reached + i - 1)]
    BY <1>2 DEF Queue
  <1> HIDE DEF m
  <1>5. Queue \in [1..m -> Places]
    BY <1>3, <1>4 DEF m
  <1>6. Queue \in Seq(Places) /\ Len(Queue) = m
    BY <1>4, <1>5
  <1>. QED BY <1>2, <1>4, <1>6 DEF QueueShaped, m

LEMMA QueueShapeNext == TypeOK' /\ Ordered' => QueueShaped'
  <1>1. TypeOK /\ Ordered => QueueShaped BY QueueShape
  <1>. QED BY <1>1, PTL

(* A place nobody gave up just now is held by the same caller.             *)
LEMMA PlaceKept ==
  ASSUME TypeOK, Ordered, Ordered', NEW c, NEW t \in Nat, ~Turn(t), t < next,
         forfeited \subseteq forfeited', Waiting \ {c} \subseteq Waiting',
         \A d \in Waiting \ {c} : ticket'[d] = ticket[d],
         c \in Waiting => ticket[c] # t
  PROVE  InLine(t)' = InLine(t)
  <1>1. LineHeld /\ LineHeld'
    BY HeldInLine, HeldInLineNext
  <1>2. CASE t \in forfeited
    <2>1. t \in forfeited'
      BY <1>2
    <2>. QED BY <1>1, <1>2, <2>1 DEF LineHeld
  <1>3. CASE t \notin forfeited
    <2>1. t \in 0..MaxTickets
      BY GateAssumption DEF TypeOK
    <2>2. PICK d \in Waiting : ticket[d] = t
      BY <2>1, <1>3 DEF Ordered, PlacesHeld
    <2>3. d # c /\ d \in Waiting' /\ ticket'[d] = t
      BY <2>2
    <2>. QED BY <2>2, <2>3, <1>1 DEF LineHeld
  <1>. QED BY <1>2, <1>3

(* When the window moves, whoever is first in line is called.              *)
LEMMA HeadCalled ==
  ASSUME TypeOK, Ordered, End < next
  PROVE  {d \in Waiting : ticket[d] = End} = {InLine(End)} \ {"gap"}
  <1>1. End \in 0..MaxTickets /\ ~Turn(End)
    BY WidthPositive, GateAssumption DEF TypeOK, End, Turn
  <1>2. LineHeld
    BY HeldInLine
  <1>3. End \in forfeited \/ \E c \in Waiting : ticket[c] = End
    BY <1>1 DEF Ordered, PlacesHeld
  <1>4. \A d \in Waiting : d # "gap" /\ (ticket[d] = End => End \notin forfeited)
    BY GateAssumption DEF Waiting, Ordered, TicketsUnique
  <1>. QED BY <1>2, <1>3, <1>4 DEF LineHeld

LEMMA CalledNext ==
  ASSUME TypeOK, NEW c, c \notin Called,
         released' = released + 1, Waiting' = Waiting \ {c},
         \A d \in Waiting \ {c} : ticket'[d] = ticket[d]
  PROVE  Called' = Called \cup ({d \in Waiting : ticket[d] = End} \ {c})
  <1>1. \A d \in Waiting : ticket[d] \in Nat
    BY GateAssumption DEF TypeOK, Waiting
  <1>2. released \in Nat /\ Width \in Nat
    BY WidthPositive DEF TypeOK
  <1>3. \A d \in Waiting \ {c} : Turn(ticket[d])' <=> Turn(ticket[d]) \/ ticket[d] = End
    BY <1>1, <1>2 DEF Turn, End
  <1>. QED BY <1>3 DEF Called

(* What the line is after it moved on.                                     *)
LEMMA MovedOn ==
  ASSUME QueueShaped', NEW c, NEW q \in Seq(Places), q # <<>>,
         Len(Queue') = Len(q) - 1, \A i \in 1..(Len(q) - 1) : Queue'[i] = q[i + 1],
         LineCalled' = (LineCalled \ {c}) \cup ({q[1]} \ {"gap"}), LineFree' = LineFree
  PROVE  Line!MoveOn(q, c)
  <1>1. Tail(q) \in Seq(Places) /\ Len(Tail(q)) = Len(q) - 1 /\ Head(q) = q[1]
        /\ \A i \in 1..Len(Tail(q)) : Tail(q)[i] = q[i + 1]
    BY HeadTailProperties
  <1>2. Queue' \in Seq(Places)
    BY DEF QueueShaped
  <1>3. Queue' = Tail(q)
    BY <1>1, <1>2, SeqEqual
  <1>. QED BY <1>1, <1>3 DEF Line!MoveOn, Queue, LineCalled, LineFree

(* Only waiting callers stand in the line. *)
LEMMA NotInLine ==
  ASSUME TypeOK, Ordered, NEW c \in Callers, c \notin Waiting
  PROVE  \A i \in DOMAIN Queue : Queue[i] # c
  <1> SUFFICES ASSUME NEW i \in DOMAIN Queue PROVE Queue[i] # c
    OBVIOUS
  <1> DEFINE t == Reached + i - 1
  <1>1. QueueShaped /\ LineHeld
    BY QueueShape, HeldInLine
  <1>2. i \in 1..(next - Reached) /\ Queue[i] = InLine(t)
    BY <1>1 DEF QueueShaped, Queue
  <1>3. t \in 0..MaxTickets /\ t < next /\ ~Turn(t)
    BY <1>2, WidthPositive, GateAssumption DEF TypeOK, Reached, Turn
  <1>4. t \in forfeited \/ \E d \in Waiting : ticket[d] = t
    BY <1>3 DEF Ordered, PlacesHeld
  <1>. QED BY <1>1, <1>2, <1>4, GateAssumption DEF LineHeld

EndsMeet ==
  /\ Reached = (IF next < End THEN next ELSE End)
  /\ LineFree = End - Reached
  /\ \A t \in Nat : Turn(t) <=> t < End

LEMMA Bounds ==
  ASSUME TypeOK
  PROVE  /\ next \in Nat /\ released \in Nat /\ Width \in Nat \ {0} /\ End \in Nat
         /\ next <= MaxTickets /\ MaxTickets \in Nat
  BY WidthPositive, GateAssumption DEF TypeOK, End

LEMMA Ends == TypeOK => EndsMeet
  <1> SUFFICES ASSUME TypeOK PROVE EndsMeet
    OBVIOUS
  <1>0. next \in Nat /\ released \in Nat /\ Width \in Nat
    BY Bounds
  <1>1. Reached = (IF next < End THEN next ELSE End)
    BY DEF End, Reached
  <1>2. LineFree = End - Reached
    BY <1>0, <1>1 DEF End, LineFree
  <1>3. \A t \in Nat : Turn(t) <=> t < End
    BY DEF End, Turn
  <1>. QED BY <1>1, <1>2, <1>3 DEF EndsMeet

LEMMA EndsNext == TypeOK' => EndsMeet'
  <1>1. TypeOK => EndsMeet BY Ends
  <1>. QED BY <1>1, PTL

LEMMA StandingNext ==
  QueueShaped' =>
    \A i, t \in Nat :
      0 < i /\ i <= next' - Reached' /\ t = Reached' + i - 1 => Queue'[i] = InLine(t)'
  BY DEF QueueShaped

LEMMA LineArrives ==
  ASSUME NEW c, c \notin LineCalled, \A i \in DOMAIN Queue : Queue[i] # c,
         IF LineFree > 0
         THEN LineCalled' = LineCalled \cup {c} /\ LineFree' = LineFree - 1 /\ Queue' = Queue
         ELSE Queue' = Append(Queue, c) /\ LineCalled' = LineCalled /\ LineFree' = LineFree
  PROVE  Line!Arrive(c)
  BY DEF Line!Arrive, Queue, LineCalled, LineFree

LEMMA AtOnceStep ==
  ASSUME TypeOK, Ordered, TypeOK', Ordered', NEW c \in Callers, EnterAtOnce(c)
  PROVE  Line!Arrive(c)
  <1>1. QueueShaped /\ QueueShaped'
    BY QueueShape, QueueShapeNext
  <1>2. next < End /\ End' = End /\ next' = next + 1 /\ next \in Nat /\ End \in Nat
    BY Bounds, Ends DEF EndsMeet, EnterAtOnce, TakeTicket, Admitted, End
  <1>3. Reached = next /\ Reached' = next + 1 /\ LineFree > 0 /\ LineFree' = LineFree - 1
    BY <1>2, Ends, EndsNext DEF EndsMeet
  <1>4. Len(Queue) = 0 /\ Len(Queue') = 0
    BY <1>1, <1>2, <1>3 DEF QueueShaped
  <1>5. Queue = <<>> /\ Queue' = <<>>
    BY <1>1, <1>4, EmptySeq DEF QueueShaped
  <1>6. /\ pc[c] = "out" /\ pc' = [pc EXCEPT ![c] = "inside"]
        /\ ticket' = [ticket EXCEPT ![c] = next]
        /\ pc \in [Callers -> {"out", "waiting", "inside"}]
        /\ ticket \in [Callers -> 0..MaxTickets]
    BY DEF EnterAtOnce, TakeTicket, Admitted, TypeOK
  <1>7. Inside' = Inside \cup {c} /\ Waiting' = Waiting /\ c \notin Inside /\ c \notin Waiting
    BY <1>6 DEF Inside, Waiting
  <1>8. Called' = Called
    BY <1>6, <1>7 DEF Called, Turn, EnterAtOnce, Admitted, Waiting
  <1>9. c \notin LineCalled /\ LineCalled' = LineCalled \cup {c}
    BY <1>7, <1>8 DEF LineCalled, Called
  <1>10. \A i \in DOMAIN Queue : Queue[i] # c
    BY <1>7, NotInLine
  <1>. QED
    BY <1>3, <1>5, <1>9, <1>10, LineArrives

LEMMA WaitStep ==
  ASSUME TypeOK, Ordered, TypeOK', Ordered', NEW c \in Callers, EnterWait(c)
  PROVE  Line!Arrive(c)
  <1>1. QueueShaped /\ QueueShaped' /\ LineHeld'
    BY QueueShape, QueueShapeNext, HeldInLineNext
  <1>2. /\ ~(next < End) /\ End' = End /\ next' = next + 1 /\ forfeited' = forfeited
        /\ next \in Nat /\ End \in Nat
    BY Bounds, Ends DEF EndsMeet, EnterWait, TakeTicket, End
  <1>3. Reached = End /\ Reached' = End /\ LineFree = 0 /\ LineFree' = 0
    BY <1>2, Ends, EndsNext DEF EndsMeet
  <1>6. /\ pc[c] = "out" /\ pc' = [pc EXCEPT ![c] = "waiting"]
        /\ ticket' = [ticket EXCEPT ![c] = next]
        /\ pc \in [Callers -> {"out", "waiting", "inside"}]
        /\ ticket \in [Callers -> 0..MaxTickets]
    BY DEF EnterWait, TakeTicket, TypeOK
  <1>7. Waiting' = Waiting \cup {c} /\ Inside' = Inside /\ c \notin Inside /\ c \notin Waiting
        /\ ticket'[c] = next /\ \A d \in Waiting : ticket'[d] = ticket[d]
    BY <1>6 DEF Inside, Waiting
  <1>8. Called' = Called
    <2>1. c \notin Called'
      BY <1>2, <1>7, EndsNext DEF EndsMeet, Called
    <2>2. released' = released
      BY DEF EnterWait
    <2>3. \A d \in Waiting : Turn(ticket[d])' <=> Turn(ticket[d])
      BY <2>2, <1>7 DEF Turn
    <2>. QED BY <2>1, <2>3, <1>7 DEF Called
  <1>9. c \notin LineCalled /\ LineCalled' = LineCalled
    BY <1>7, <1>8 DEF LineCalled, Called
  <1>10. \A i \in DOMAIN Queue : Queue[i] # c
    BY <1>7, NotInLine
  <1>11. PICK m \in Nat : m = next - End
    BY <1>2
  <1>12. /\ Queue \in Seq(Places) /\ Len(Queue) = m /\ c \in Places
         /\ Queue' \in Seq(Places) /\ Len(Queue') = m + 1
    BY <1>1, <1>2, <1>3, <1>11 DEF QueueShaped, Places
  <1>13. \A i \in 1..m : Queue'[i] = Queue[i]
    <2> SUFFICES ASSUME NEW i \in 1..m PROVE Queue'[i] = Queue[i]
      OBVIOUS
    <2>0. PICK t \in Nat : t = End + i - 1
      BY <1>2
    <2>1. ~Turn(t) /\ t < next
      BY <2>0, <1>2, <1>11, Ends DEF EndsMeet
    <2>2. InLine(t)' = InLine(t)
      BY <2>1, <1>2, <1>7, PlaceKept
    <2>3. Queue[i] = InLine(t)
      BY <2>0, <1>1, <1>3, <1>11 DEF QueueShaped
    <2>4. i \in Nat /\ 0 < i /\ i <= next' - Reached' /\ t = Reached' + i - 1
      BY <2>0, <1>2, <1>3, <1>11
    <2>5. Queue'[i] = InLine(t)'
      BY <2>4, <1>1, StandingNext
    <2>. QED BY <2>2, <2>3, <2>5
  <1>14. Queue'[m + 1] = c
    <2>0. PICK t \in Nat : t = next
      BY <1>2
    <2>1. InLine(t)' = c
      BY <2>0, <1>1, <1>7 DEF LineHeld
    <2>2. m + 1 \in Nat /\ 0 < m + 1 /\ m + 1 <= next' - Reached' /\ t = Reached' + (m + 1) - 1
      BY <2>0, <1>2, <1>3, <1>11
    <2>3. Queue'[m + 1] = InLine(t)'
      BY <1>1, <2>2, StandingNext
    <2>. QED BY <2>1, <2>3
  <1>15. Queue' = Append(Queue, c)
    <2>1. /\ Append(Queue, c) \in Seq(Places) /\ Len(Append(Queue, c)) = m + 1
          /\ \A i \in 1..m : Append(Queue, c)[i] = Queue[i]
          /\ Append(Queue, c)[m + 1] = c
      BY <1>12, AppendProperties
    <2>2. \A i \in 1..(m + 1) : Queue'[i] = Append(Queue, c)[i]
      BY <2>1, <1>11, <1>13, <1>14
    <2>. QED BY <2>1, <2>2, <1>12, SeqEqual
  <1>. QED
    BY <1>3, <1>9, <1>10, <1>15, LineArrives

(* Waking to one's turn moves a caller from called to inside: no change.   *)
LEMMA AdmitStep ==
  ASSUME TypeOK, Ordered, TypeOK', Ordered', NEW c \in Callers, WakeAdmit(c)
  PROVE  UNCHANGED Line!lineVars
  <1>1. QueueShaped /\ QueueShaped'
    BY QueueShape, QueueShapeNext
  <1>2. /\ next' = next /\ released' = released /\ ticket' = ticket /\ forfeited' = forfeited
        /\ Turn(ticket[c])
    BY DEF WakeAdmit, Admitted
  <1>3. /\ pc[c] = "waiting" /\ pc' = [pc EXCEPT ![c] = "inside"]
        /\ pc \in [Callers -> {"out", "waiting", "inside"}]
    BY DEF WakeAdmit, Admitted, TypeOK
  <1>4. Waiting' = Waiting \ {c} /\ Inside' = Inside \cup {c} /\ c \in Waiting
    BY <1>3 DEF Waiting, Inside
  <1>5. c \in Called /\ Called' = Called \ {c}
    BY <1>2, <1>4 DEF Called, Turn
  <1>6. LineCalled' = LineCalled
    BY <1>4, <1>5 DEF LineCalled
  <1>7. Reached' = Reached /\ LineFree' = LineFree
    BY <1>2 DEF Reached, LineFree
  <1>8. Queue' = Queue
    <2>1. PICK m \in Nat : m = next - Reached
      BY <1>1 DEF QueueShaped
    <2>2. /\ Queue \in Seq(Places) /\ Len(Queue) = m
          /\ Queue' \in Seq(Places) /\ Len(Queue') = m
      BY <1>1, <1>2, <1>7, <2>1 DEF QueueShaped
    <2>3. ASSUME NEW i \in 1..m PROVE Queue'[i] = Queue[i]
      <3>1. Reached \in Nat /\ next \in Nat
        BY <1>1, Bounds DEF QueueShaped
      <3>2. PICK t \in Nat : t = Reached + i - 1
        BY <3>1
      <3>3. t < next /\ Reached <= t
        BY <3>1, <3>2, <2>1
      <3>4. ~Turn(t)
        BY <3>1, <3>3, Bounds, Ends DEF EndsMeet
      <3>5. InLine(t)' = InLine(t)
        BY <3>3, <3>4, <1>2, <1>4, PlaceKept
      <3>6. Queue[i] = InLine(t)
        BY <3>1, <3>2, <2>1, <1>1 DEF QueueShaped
      <3>7. Queue'[i] = InLine(t)'
        BY <3>1, <3>2, <2>1, <1>1, <1>2, <1>7, StandingNext
      <3>. QED BY <3>5, <3>6, <3>7
    <2>. QED BY <2>2, <2>3, SeqEqual
  <1>. QED BY <1>6, <1>7, <1>8 DEF Line!lineVars, Queue, LineCalled, LineFree

(* When the window moves by one, the line is what was behind its head.     *)
LEMMA WindowMoves ==
  ASSUME TypeOK, TypeOK', Ordered', NEW q \in Seq(Places),
         End <= next, End < next', released' = released + 1, Len(q) = next' - End,
         \A i, t \in Nat : 1 < i /\ i <= Len(q) /\ t = End + i - 1 => q[i] = InLine(t)'
  PROVE  /\ q # <<>> /\ Len(Queue') = Len(q) - 1
         /\ \A i \in 1..(Len(q) - 1) : Queue'[i] = q[i + 1]
         /\ LineFree' = LineFree
  <1>1. QueueShaped'
    BY QueueShapeNext
  <1>2. next \in Nat /\ End \in Nat /\ End' = End + 1
    BY Bounds DEF End
  <1>3. next' \in Nat
    BY <1>2 DEF TypeOK
  <1>4. Reached = End /\ LineFree = 0 /\ Reached' = End + 1 /\ LineFree' = 0
    BY <1>2, <1>3, Ends, EndsNext DEF EndsMeet
  <1>5. Len(Queue') = next' - (End + 1)
    <2>1. Len(Queue') = next' - Reached'
      BY <1>1 DEF QueueShaped
    <2>. QED BY <2>1, <1>4
  <1>6. PICK m \in Nat : m = next' - (End + 1)
    <2>1. next' - Reached' \in Nat
      BY <1>1 DEF QueueShaped
    <2>. QED BY <2>1, <1>4, Zenon
  <1>7. Len(q) = m + 1
    BY <1>2, <1>3, <1>6
  <1>8. ASSUME NEW i \in 1..m PROVE Queue'[i] = q[i + 1]
    <2>1. PICK t \in Nat : t = End + 1 + i - 1
      BY <1>2
    <2>2. i \in Nat /\ 0 < i /\ i <= next' - Reached' /\ t = Reached' + i - 1
      BY <2>1, <1>2, <1>4, <1>6
    <2>3. Queue'[i] = InLine(t)'
      BY <2>2, <1>1, StandingNext
    <2>4. i + 1 \in Nat /\ 1 < i + 1 /\ i + 1 <= Len(q) /\ t = End + (i + 1) - 1
      BY <2>1, <1>2, <1>7
    <2>5. q[i + 1] = InLine(t)'
      BY <2>4
    <2>. QED BY <2>3, <2>5
  <1>. QED BY <1>4, <1>5, <1>6, <1>7, <1>8

LEMMA DepartStep ==
  ASSUME TypeOK, Ordered, TypeOK', Ordered', NEW c \in Callers, Leave(c)
  PROVE  Line!Depart(c)
  <1>1. QueueShaped /\ QueueShaped'
    BY QueueShape, QueueShapeNext
  <1>2. next' = next /\ released' = released + 1 /\ ticket' = ticket /\ forfeited' = forfeited
    BY DEF Leave
  <1>3. /\ pc[c] = "inside" /\ pc' = [pc EXCEPT ![c] = "out"]
        /\ pc \in [Callers -> {"out", "waiting", "inside"}]
    BY DEF Leave, TypeOK
  <1>4. Waiting' = Waiting /\ Inside' = Inside \ {c} /\ c \in Inside /\ c \notin Waiting
    BY <1>3 DEF Waiting, Inside
  <1>5. Called' = Called \cup {d \in Waiting : ticket[d] = End} /\ c \notin Called
    <2>1. c \notin Called /\ Waiting' = Waiting \ {c}
      BY <1>4 DEF Called
    <2>2. Called' = Called \cup ({d \in Waiting : ticket[d] = End} \ {c})
      BY <2>1, <1>2, CalledNext
    <2>. QED BY <2>1, <2>2, <1>4
  <1>6. /\ next \in Nat /\ End \in Nat /\ End' = End + 1
        /\ \A d \in Waiting : ticket[d] < next
    BY <1>2, Bounds DEF End, Ordered, TicketsUnique
  <1>7. c \in LineCalled
    BY <1>4 DEF LineCalled
  <1>8. CASE End < next
    <2>1. LineCalled' = (LineCalled \ {c}) \cup ({InLine(End)} \ {"gap"})
      BY <1>8, <1>4, <1>5, HeadCalled DEF LineCalled
    <2>2. Reached = End
      BY <1>6, <1>8, Ends DEF EndsMeet
    <2>3. Queue \in Seq(Places) /\ Len(Queue) = next' - End /\ next - End > 0
      BY <2>2, <1>1, <1>2, <1>6, <1>8 DEF QueueShaped
    <2>4. Queue[1] = InLine(End)
      <3>1. PICK t \in Nat : t = End
        BY <1>6
      <3>2. Queue[1] = InLine(t)
        BY <3>1, <2>2, <1>1, <1>6, <1>8 DEF QueueShaped
      <3>. QED BY <3>1, <3>2
    <2>5. ASSUME NEW i \in Nat, NEW t \in Nat, 1 < i, i <= next - End, t = End + i - 1
          PROVE  Queue[i] = InLine(t)'
      <3>1. t < next /\ ~(t < End)
        BY <2>5, <1>6
      <3>2. ~Turn(t)
        BY <3>1, Ends DEF EndsMeet
      <3>3. InLine(t)' = InLine(t)
        BY <3>1, <3>2, <1>2, <1>4, PlaceKept
      <3>4. Queue[i] = InLine(t)
        BY <2>2, <2>5, <1>1, <1>6 DEF QueueShaped
      <3>. QED BY <3>3, <3>4
    <2>6. /\ Queue # <<>> /\ Len(Queue') = Len(Queue) - 1
          /\ \A i \in 1..(Len(Queue) - 1) : Queue'[i] = Queue[i + 1]
          /\ LineFree' = LineFree
      BY <2>3, <2>5, <1>2, <1>6, <1>8, WindowMoves
    <2>7. Line!MoveOn(Queue, c)
      BY <1>1, <2>1, <2>3, <2>4, <2>6, MovedOn
    <2>. QED BY <2>7, <1>7 DEF Line!Depart, Queue, LineCalled
  <1>9. CASE ~(End < next)
    <2>1. {d \in Waiting : ticket[d] = End} = {}
      BY <1>6, <1>9
    <2>2. LineCalled' = LineCalled \ {c}
      BY <2>1, <1>4, <1>5 DEF LineCalled
    <2>3. Reached = next /\ Reached' = next /\ LineFree' = LineFree + 1
      BY <1>2, <1>6, <1>9, Ends, EndsNext DEF EndsMeet
    <2>4. Len(Queue) = 0 /\ Len(Queue') = 0
      BY <2>3, <1>1, <1>2, <1>6 DEF QueueShaped
    <2>5. Queue = <<>> /\ Queue' = <<>>
      BY <2>4, <1>1, EmptySeq DEF QueueShaped
    <2>6. Line!MoveOn(Queue, c)
      BY <2>2, <2>3, <2>5 DEF Line!MoveOn, Queue, LineCalled, LineFree
    <2>. QED BY <2>6, <1>7 DEF Line!Depart, Queue, LineCalled
  <1>. QED BY <1>8, <1>9

(* Giving up where one stands: the place becomes a gap, the line moves on. *)
LEMMA GiveUpStep ==
  ASSUME TypeOK, Ordered, TypeOK', Ordered', NEW c \in Callers, WakeForfeit(c)
  PROVE  Line!GiveUp(c)
  <1>1. QueueShaped /\ QueueShaped' /\ LineHeld /\ LineHeld'
    BY QueueShape, QueueShapeNext, HeldInLine, HeldInLineNext
  <1>2. /\ next' = next /\ released' = released + 1 /\ ticket' = ticket
        /\ forfeited' = forfeited \cup {ticket[c]} /\ ~Turn(ticket[c])
    BY DEF WakeForfeit, Forfeit
  <1>3. /\ pc[c] = "waiting" /\ pc' = [pc EXCEPT ![c] = "out"]
        /\ pc \in [Callers -> {"out", "waiting", "inside"}]
    BY DEF WakeForfeit, Forfeit, TypeOK
  <1>4. Waiting' = Waiting \ {c} /\ Inside' = Inside /\ c \in Waiting /\ c \notin Inside
    BY <1>3 DEF Waiting, Inside
  <1>5. Called' = Called \cup ({d \in Waiting : ticket[d] = End} \ {c}) /\ c \notin Called
    <2>1. c \notin Called
      BY <1>2 DEF Called
    <2>. QED BY <2>1, <1>2, <1>4, CalledNext
  <1>6. PICK s \in Nat : s = ticket[c]
    BY GateAssumption DEF TypeOK
  <1>7. next \in Nat /\ End \in Nat /\ End <= s /\ s < next
    <2>1. s < next
      BY <1>4, <1>6 DEF Ordered, TicketsUnique
    <2>2. ~(s < End)
      BY <1>2, <1>6, Ends DEF EndsMeet
    <2>. QED BY <2>1, <2>2, Bounds
  <1>8. Reached = End
    BY <1>7, Ends DEF EndsMeet
  <1>9. PICK j \in Nat : j = s - End + 1
    BY <1>7
  <1>10. 0 < j /\ j <= next - End /\ s = End + j - 1
    BY <1>7, <1>9
  <1>11. Queue \in Seq(Places) /\ Len(Queue) = next - End
    BY <1>1, <1>8 DEF QueueShaped
  <1>12. Queue[j] = c
    <2>1. InLine(s) = c
      BY <1>1, <1>4, <1>6 DEF LineHeld
    <2>. QED BY <2>1, <1>1, <1>8, <1>10 DEF QueueShaped
  <1> DEFINE q == [Queue EXCEPT ![j] = "gap"]
  <1>13. /\ q \in Seq(Places) /\ Len(q) = next - End /\ q[j] = "gap"
         /\ \A i \in 1..(next - End) : i # j => q[i] = Queue[i]
    <2>1. PICK m \in Nat : m = next - End
      BY <1>7
    <2>2. Queue \in [1..m -> Places] /\ "gap" \in Places /\ j \in 1..m
      BY <1>10, <1>11, <2>1, LenProperties DEF Places
    <2>3. /\ q \in [1..m -> Places] /\ q[j] = "gap"
          /\ \A i \in 1..m : i # j => q[i] = Queue[i]
      BY <2>2
    <2> HIDE DEF q
    <2>4. q \in Seq(Places) /\ Len(q) = m
      BY <2>3, <2>1
    <2>. QED BY <2>1, <2>3, <2>4
  <1> HIDE DEF q
  <1>14. ASSUME NEW i \in Nat, NEW t \in Nat, 0 < i, i <= next - End, t = End + i - 1
         PROVE  q[i] = IF i = j THEN "gap" ELSE InLine(t)
    <2>1. i \in 1..(next - End)
      BY <1>14, <1>7
    <2>2. Queue[i] = InLine(t)
      BY <1>14, <1>1, <1>8 DEF QueueShaped
    <2>. QED BY <2>1, <2>2, <1>13
  <1>15. ASSUME NEW i \in Nat, NEW t \in Nat, 1 < i, i <= Len(q), t = End + i - 1
         PROVE  q[i] = InLine(t)'
    <2>0. t < next /\ ~(t < End) /\ 0 < i /\ i <= next - End /\ (i = j <=> t = s)
      BY <1>15, <1>13, <1>7, <1>10
    <2>1. CASE t = s
      <3>1. t \in forfeited'
        BY <2>1, <1>2, <1>6
      <3>2. InLine(t)' = "gap"
        BY <3>1, <1>1 DEF LineHeld
      <3>. QED BY <3>2, <2>0, <2>1, <1>13
    <2>2. CASE t # s
      <3>1. ~Turn(t)
        BY <2>0, Ends DEF EndsMeet
      <3>2. InLine(t)' = InLine(t)
        BY <2>0, <3>1, <2>2, <1>2, <1>4, <1>6, PlaceKept
      <3>3. q[i] = InLine(t)
        BY <2>0, <2>2, <1>14, <1>15
      <3>. QED BY <3>2, <3>3
    <2>. QED BY <2>1, <2>2
  <1>16. /\ q # <<>> /\ Len(Queue') = Len(q) - 1
         /\ \A i \in 1..(Len(q) - 1) : Queue'[i] = q[i + 1]
         /\ LineFree' = LineFree
    <2>1. End <= next /\ End < next' /\ Len(q) = next' - End
      BY <1>2, <1>7, <1>13
    <2>. QED BY <2>1, <1>2, <1>13, <1>15, WindowMoves
  <1>17. LineCalled' = (LineCalled \ {c}) \cup ({q[1]} \ {"gap"})
    <2>1. c \notin LineCalled
      BY <1>4, <1>5 DEF LineCalled
    <2>2. CASE j = 1
      <3>0. s = End
        BY <2>2, <1>7, <1>10
      <3>1. \A d \in Waiting : ticket[d] = ticket[c] => d = c
        BY <1>4 DEF Ordered, TicketsUnique
      <3>2. {d \in Waiting : ticket[d] = End} \ {c} = {}
        BY <3>0, <3>1, <1>6
      <3>. QED BY <2>1, <2>2, <3>2, <1>4, <1>5, <1>13 DEF LineCalled
    <2>3. CASE j # 1
      <3>1. End < next /\ s # End
        BY <2>3, <1>7, <1>10
      <3>2. {d \in Waiting : ticket[d] = End} \ {c} = {InLine(End)} \ {"gap"}
        BY <3>1, <1>6, HeadCalled
      <3>3. PICK t \in Nat : t = End
        BY <1>7
      <3>4. q[1] = InLine(t)
        BY <2>3, <3>1, <3>3, <1>7, <1>14
      <3>. QED BY <2>1, <3>2, <3>3, <3>4, <1>4, <1>5 DEF LineCalled
    <2>. QED BY <2>2, <2>3
  <1>18. Line!MoveOn(q, c)
    BY <1>1, <1>13, <1>16, <1>17, MovedOn
  <1>19. j \in DOMAIN Queue
    BY <1>10, <1>11, <1>7, LenProperties
  <1>. QED BY <1>12, <1>18, <1>19 DEF Line!GiveUp, Queue, q

(* Arriving with the token set: a gap joins the line, which moves on.      *)
LEMMA ArriveGoneStep ==
  ASSUME TypeOK, Ordered, TypeOK', Ordered', NEW c \in Callers, EnterForfeit(c)
  PROVE  Line!ArriveGone(c)
  <1>1. QueueShaped /\ QueueShaped' /\ LineHeld'
    BY QueueShape, QueueShapeNext, HeldInLineNext
  <1>2. /\ next' = next + 1 /\ released' = released + 1 /\ forfeited' = forfeited \cup {next}
        /\ ~Turn(next) /\ next \in Nat /\ End \in Nat
    BY Bounds DEF EnterForfeit, TakeTicket, Forfeit
  <1>3. /\ pc[c] = "out" /\ pc' = [pc EXCEPT ![c] = "out"]
        /\ pc \in [Callers -> {"out", "waiting", "inside"}]
        /\ ticket' = [ticket EXCEPT ![c] = next] /\ ticket \in [Callers -> 0..MaxTickets]
    BY DEF EnterForfeit, TakeTicket, Forfeit, TypeOK
  <1>4. /\ Waiting' = Waiting \ {c} /\ Waiting' = Waiting /\ Inside' = Inside
        /\ c \notin Waiting /\ c \notin Inside
    BY <1>3 DEF Waiting, Inside
  <1>4a. \A d \in Waiting \ {c} : ticket'[d] = ticket[d]
    BY <1>3 DEF Waiting
  <1>5. Called' = Called \cup ({d \in Waiting : ticket[d] = End} \ {c}) /\ c \notin Called
    <2>1. c \notin Called
      BY <1>4 DEF Called
    <2>. QED BY <2>1, <1>2, <1>4, <1>4a, CalledNext
  <1>6. End <= next
    BY <1>2, Ends DEF EndsMeet
  <1>7. Reached = End /\ LineFree = 0
    BY <1>2, <1>6, Ends DEF EndsMeet
  <1>8. PICK m \in Nat : m = next - End
    BY <1>2, <1>6
  <1>9. Queue \in Seq(Places) /\ Len(Queue) = m
    BY <1>1, <1>7, <1>8 DEF QueueShaped
  <1> DEFINE q == Append(Queue, "gap")
  <1>10. /\ q \in Seq(Places) /\ Len(q) = m + 1 /\ q[m + 1] = "gap"
         /\ \A i \in 1..m : q[i] = Queue[i]
    <2>1. "gap" \in Places
      BY DEF Places
    <2>. QED BY <2>1, <1>9, AppendProperties
  <1> HIDE DEF q
  <1>11. ASSUME NEW i \in Nat, NEW t \in Nat, 0 < i, i <= m, t = End + i - 1
         PROVE  q[i] = InLine(t) /\ InLine(t)' = InLine(t)
    <2>1. i \in 1..m /\ t < next /\ ~(t < End) /\ i <= next - Reached /\ t = Reached + i - 1
      BY <1>11, <1>2, <1>7, <1>8
    <2>2. Queue[i] = InLine(t)
      BY <2>1, <1>1, <1>11 DEF QueueShaped
    <2>3. ~Turn(t)
      BY <2>1, Ends DEF EndsMeet
    <2>4. InLine(t)' = InLine(t)
      BY <2>1, <2>3, <1>2, <1>4, <1>4a, PlaceKept
    <2>. QED BY <2>1, <2>2, <2>4, <1>10
  <1>12. ASSUME NEW i \in Nat, NEW t \in Nat, 1 < i, i <= Len(q), t = End + i - 1
         PROVE  q[i] = InLine(t)'
    <2>0. 0 < i /\ i <= m + 1 /\ (i = m + 1 <=> t = next)
      BY <1>12, <1>10, <1>2, <1>8
    <2>1. CASE i = m + 1
      <3>1. t \in forfeited'
        BY <2>0, <2>1, <1>2
      <3>2. InLine(t)' = "gap"
        BY <3>1, <1>1 DEF LineHeld
      <3>. QED BY <3>2, <2>1, <1>10
    <2>2. CASE i # m + 1
      <3>1. i <= m
        BY <2>0, <2>2
      <3>. QED BY <3>1, <2>0, <1>11, <1>12
    <2>. QED BY <2>1, <2>2
  <1>13. /\ q # <<>> /\ Len(Queue') = Len(q) - 1
         /\ \A i \in 1..(Len(q) - 1) : Queue'[i] = q[i + 1]
         /\ LineFree' = LineFree
    <2>1. End <= next /\ End < next' /\ Len(q) = next' - End
      BY <1>2, <1>6, <1>8, <1>10
    <2>. QED BY <2>1, <1>2, <1>10, <1>12, WindowMoves
  <1>14. c \notin LineCalled
    BY <1>4, <1>5 DEF LineCalled
  <1>15. LineCalled' = (LineCalled \ {c}) \cup ({q[1]} \ {"gap"})
    <2>1. CASE m = 0
      <3>1. next = End /\ q[1] = "gap"
        BY <2>1, <1>2, <1>8, <1>10
      <3>2. \A d \in Waiting : ticket[d] < next
        BY DEF Ordered, TicketsUnique
      <3>3. {d \in Waiting : ticket[d] = End} = {}
        BY <3>1, <3>2, <1>2
      <3>. QED BY <3>1, <3>3, <1>4, <1>5, <1>14 DEF LineCalled
    <2>2. CASE m # 0
      <3>1. End < next
        BY <2>2, <1>2, <1>6, <1>8
      <3>2. {d \in Waiting : ticket[d] = End} \ {c} = {InLine(End)} \ {"gap"}
        BY <3>1, <1>4, HeadCalled
      <3>3. PICK t \in Nat : t = End
        BY <1>2
      <3>4. q[1] = InLine(t)
        BY <2>2, <3>3, <1>2, <1>11
      <3>. QED BY <3>2, <3>3, <3>4, <1>4, <1>5, <1>14 DEF LineCalled
    <2>. QED BY <2>1, <2>2
  <1>16. Line!MoveOn(q, c)
    BY <1>1, <1>10, <1>13, <1>15, MovedOn
  <1>. QED BY <1>7, <1>14, <1>16 DEF Line!ArriveGone, Queue, LineCalled, LineFree, q

(* Every step of the gate is one of the line's, or leaves it alone.        *)
LEMMA LineStep ==
  TypeOK /\ Ordered /\ TypeOK' /\ Ordered' /\ [Next]_vars
    => [Line!LineNext]_(Line!lineVars)
  <1> SUFFICES ASSUME TypeOK, Ordered, TypeOK', Ordered', [Next]_vars
               PROVE  Line!LineNext \/ UNCHANGED Line!lineVars
    OBVIOUS
  <1>1. ASSUME NEW c \in Callers, Enter(c) PROVE Line!LineNext
    BY <1>1, AtOnceStep, WaitStep, ArriveGoneStep DEF Enter, Line!LineNext
  <1>2. ASSUME NEW c \in Callers, Wake(c) PROVE Line!LineNext \/ UNCHANGED Line!lineVars
    BY <1>2, AdmitStep, GiveUpStep DEF Wake, Line!LineNext
  <1>3. ASSUME NEW c \in Callers, Leave(c) PROVE Line!LineNext
    BY <1>3, DepartStep DEF Line!LineNext
  <1>4. ASSUME /\ next' = next /\ released' = released /\ pc' = pc
               /\ ticket' = ticket /\ forfeited' = forfeited
        PROVE  UNCHANGED Line!lineVars
    <2>1. Waiting' = Waiting /\ Inside' = Inside
      BY <1>4 DEF Waiting, Inside
    <2>2. Reached' = Reached
      BY <1>4 DEF Reached
    <2>3. Called' = Called
      BY <1>4, <2>1 DEF Called, Turn
    <2>4. \A t : InLine(t)' = InLine(t)
      BY <1>4, <2>1 DEF InLine
    <2>5. Queue' = Queue
      BY <1>4, <2>2, <2>4 DEF Queue
    <2>. QED BY <1>4, <2>1, <2>2, <2>3, <2>5 DEF Line!lineVars, Queue
  <1>5. ASSUME NEW c \in Callers, Cancel(c) \/ Reset(c) PROVE UNCHANGED Line!lineVars
    BY <1>5, <1>4 DEF Cancel, Reset
  <1>6. CASE UNCHANGED vars
    BY <1>6, <1>4 DEF vars
  <1>. QED BY <1>1, <1>2, <1>3, <1>5, <1>6, GateAssumption DEF Next

(* The gate implements the line without tickets: callers are called in the *)
(* order they arrived, one for each departure and one for each give-up, as *)
(* src/gate.rs promises with `next` and `released` alone.                  *)
THEOREM GateIsLine == Spec => LineRefined
  <1>1. Init => Line!LineInit
    <2> SUFFICES ASSUME Init PROVE Line!LineInit
      OBVIOUS
    <2>1. TypeOK /\ Ordered
      BY CountedInit, OrderedInit DEF Counted
    <2>2. QueueShaped /\ EndsMeet
      BY <2>1, QueueShape, Ends
    <2>3. next = 0 /\ End = Width /\ Width \in Nat \ {0}
      BY WidthPositive DEF Init, GateInit, End
    <2>4. Reached = 0 /\ LineFree = Width
      BY <2>2, <2>3 DEF EndsMeet
    <2>5. Queue = <<>>
      BY <2>2, <2>3, <2>4, EmptySeq DEF QueueShaped
    <2>6. LineCalled = {}
      BY DEF Init, LineCalled, Inside, Called, Waiting
    <2>. QED BY <2>4, <2>5, <2>6, QueueIsLine
  <1>. QED
    BY <1>1, LineStep, Typing, LineOrdered, PTL DEF Spec, LineRefined, Line!LineSpec
=============================================================================
