-------------------------------- MODULE Words --------------------------------
(***************************************************************************)
(* The integers of the fold: a signed word with Half values on each side   *)
(* of zero (an i128 has Half = 2^127), the refusing addition on it         *)
(* (src/exec/checked.rs) and the accumulator of two limbs that a running   *)
(* sum spills into when it leaves the word (src/exec/agg.rs).              *)
(***************************************************************************)
EXTENDS Integers

CONSTANTS
  Half,   \* how many values a word has below zero
  HiHalf  \* the same for the high limb

ASSUME WordsAssumption == Half \in Nat \ {0} /\ HiHalf \in Nat \ {0}

Base == 2 * Half
Word == (-Half)..(Half - 1)
HiWord == (-HiHalf)..(HiHalf - 1)

\* A checked operation that refuses has no value: NoWord stands for Err.
NoWord == -Base

\* The bits of a word read as unsigned, and back.
Unsigned(v) == IF v < 0 THEN v + Base ELSE v
Signed(u) == IF u >= Half THEN u - Base ELSE u

CheckedAdd(a, b) == IF a + b \in Word THEN a + b ELSE NoWord

-----------------------------------------------------------------------------
\* An accumulator: the low limb is the inline word, the high limb is only
\* meaningful once the entry is wide.
Acc == [wide : BOOLEAN, hi : Int, lo : Word]

ValueOf(acc) == IF acc.wide THEN acc.hi * Base + Unsigned(acc.lo) ELSE acc.lo

Narrowed(v) == [wide |-> FALSE, hi |-> 0, lo |-> v]

\* The first overflow of a running sum: its sign is extended into the high limb.
WidenZeroed(acc) == [wide |-> TRUE, hi |-> 0, lo |-> acc.lo]
Widen(acc) == [wide |-> TRUE, hi |-> IF acc.lo < 0 THEN -1 ELSE 0, lo |-> acc.lo]

Carry(lo, v) == IF Unsigned(lo) + Unsigned(v) >= Base THEN 1 ELSE 0
SignLimb(v) == IF v < 0 THEN -1 ELSE 0

\* Both additions to the high limb are checked, in this order.
WideAddFits(hi, lo, v) ==
  hi + SignLimb(v) \in HiWord /\ hi + SignLimb(v) + Carry(lo, v) \in HiWord

WideAdd(acc, v) ==
  [wide |-> TRUE, hi |-> acc.hi + SignLimb(v) + Carry(acc.lo, v),
   lo |-> Signed((Unsigned(acc.lo) + Unsigned(v)) % Base)]

\* The two-limb value as one word, or NoWord when it does not fit.
Narrow(acc) ==
  IF \/ acc.hi = 0 /\ Unsigned(acc.lo) < Half
     \/ acc.hi = -1 /\ Unsigned(acc.lo) >= Half
  THEN acc.lo
  ELSE NoWord

\* The sum an entry ends with.
FinalSum(acc) == IF acc.wide THEN Narrow(acc) ELSE acc.lo
=============================================================================
