---------------------------- MODULE AdmissionLine ----------------------------
(***************************************************************************)
(* What the gate promises, without tickets: a line in front of a fixed     *)
(* number of slots.  Whoever is first in line is called as a slot comes    *)
(* free.  A caller who gives up leaves a gap in its place and moves the    *)
(* line on by one; the slot count is only right again once the line has    *)
(* passed the gap.                                                         *)
(***************************************************************************)
EXTENDS Naturals, Sequences, FiniteSets

CONSTANTS
  Callers,
  Slots,  \* at least one
  Gap     \* not a caller

VARIABLES
  line,    \* callers not called yet, in order of arrival, and gaps
  called,  \* callers that may be inside
  free     \* slots nobody has been called to

lineVars == <<line, called, free>>

LineInit == line = <<>> /\ called = {} /\ free = Slots

\* The line `q` moves on by one: its head is called, or a gap is passed, or,
\* with nobody in line, a slot stays free.
MoveOn(q, c) ==
  IF q = <<>>
  THEN line' = q /\ called' = called \ {c} /\ free' = free + 1
  ELSE /\ line' = Tail(q)
       /\ called' = (called \ {c}) \cup ({Head(q)} \ {Gap})
       /\ free' = free

Arrive(c) ==
  /\ c \notin called
  /\ \A i \in DOMAIN line : line[i] # c
  /\ IF free > 0
     THEN called' = called \cup {c} /\ free' = free - 1 /\ line' = line
     ELSE line' = Append(line, c) /\ UNCHANGED <<called, free>>

Depart(c) == c \in called /\ MoveOn(line, c)

GiveUp(c) ==
  \E i \in DOMAIN line : line[i] = c /\ MoveOn([line EXCEPT ![i] = Gap], c)

\* Arriving with the token set already: the line grows by a gap and moves on.
ArriveGone(c) ==
  /\ c \notin called
  /\ free = 0
  /\ MoveOn(Append(line, Gap), c)

LineNext == \E c \in Callers : Arrive(c) \/ Depart(c) \/ GiveUp(c) \/ ArriveGone(c)

LineSpec == LineInit /\ [][LineNext]_lineVars
=============================================================================
