------------------------------- MODULE MCSeam -------------------------------
(* Two answers that must not depend on where the line falls: the seam's, on a *)
(* nest of three blocks, and the sum of doubles, over partial aggregates.     *)
(* One of them at a time; the other rests.                                    *)
EXTENDS Seam, FloatSum, TLC

CONSTANTS t, p1, p2

Row(tab, b, kind) == [table |-> tab, block |-> b, kind |-> kind]
Arm(tab, k, neg, strict) ==
  [table |-> tab, key |-> k, negated |-> neg, strict_cast |-> strict]

\* A genesis row, two rows of one block, values of every kind.
MCRows == {Row(t, 0, "int"), Row(t, 1, "int"), Row(t, 1, "word"), Row(t, 2, "digits")}

MCRedelivered == {Row(t, 0, "int"), Row(t, 1, "word")}
MCNone == {}

\* The balance sheet of one table: the credit side and the negated debit side.
MCBalances == <<Arm(t, "credit", FALSE, FALSE), Arm(t, "debit", TRUE, FALSE)>>

ASSUME BalancesAreBalanced == Branches = MCBalances => BalanceSheet

\* Doubles of four significant bits and six exponents, in buckets of two orders, so
\* that a significand may lie in three limbs: the least subnormal, a value with a low
\* bit of its own, one in the middle, the largest, a negative one of its size, and an
\* infinity.
D(n, e, f) == [neg |-> n, exp |-> e, frac |-> f]
MCFloats == {D(FALSE, 0, 1), D(TRUE, 2, 1), D(FALSE, 5, 7), D(FALSE, 6, 7), D(TRUE, 6, 6), D(TRUE, 7, 0)}

ASSUME RoundingIsToTheNearest == \A n \in -1200..1200 : Rounded(n) = Nearest(n)

ASSUME PowersAreDoublings == \A n \in 0..20 : Two[n] = 2^n

VARIABLE machine

\* Partial aggregates at rest: nothing was fed to them.
FloatsRest == FloatInit /\ mode = "grouped"
MCInit ==
  \/ machine = "seam" /\ Init /\ FloatsRest
  \/ machine = "floats" /\ Init /\ FloatInit
MCNext ==
  \/ machine = "seam" /\ Next /\ UNCHANGED <<machine, floats>>
  \/ machine = "floats" /\ FloatNext /\ UNCHANGED <<machine, vars>>
MCSpec == MCInit /\ [][MCNext]_<<machine, vars, floats>>
MCSymmetry == Permutations(Parts)

\* The sum of doubles is the exact sum rounded once, whatever came before it
\* (floatsum.rs, value and finish).
FloatsExact == RoundedOnce
=============================================================================
