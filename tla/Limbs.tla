--------------------------------- MODULE Limbs ---------------------------------
(***************************************************************************)
(* A two's complement integer of a fixed number of limbs, the least first  *)
(* (src/df/wide.rs), in limbs of LimbBits where the code's have 64.  An    *)
(* operation that has no answer is NoWide.                                 *)
(***************************************************************************)
EXTENDS Integers, Sequences, SequencesExt

CONSTANTS
  LimbBits,
  Chunk,     \* what Display divides by, 10^19
  Precision  \* digits of a decimal, 38

ASSUME LimbsAssumption ==
  LimbBits \in Nat \ {0} /\ Chunk \in Nat \ {0, 1} /\ Precision \in Nat

Limb == 2^LimbBits
Wide(n) == [1..n -> 0..(Limb - 1)]
NoWide == <<>>
Zeros(n) == [i \in 1..n |-> 0]

IsNegative(w) == w[Len(w)] >= Limb \div 2
Least(n) == [Zeros(n) EXCEPT ![n] = Limb \div 2]

\* What limbs stand for, read as unsigned and as signed.
Whole(w) == FoldLeftDomain(LAMBDA sum, i : sum + w[i] * Limb^(i - 1), 0, w)
WideValue(w) == IF IsNegative(w) THEN Whole(w) - Limb^Len(w) ELSE Whole(w)

\* Limb by limb, each with the carry of the one below.
Carried(a, b, first) ==
  LET sum(i, c) == a[i] + b[i] + c
      carry[i \in 0..Len(a)] == IF i = 0 THEN first ELSE sum(i, carry[i - 1]) \div Limb
  IN [i \in DOMAIN a |-> sum(i, carry[i - 1]) % Limb]

WideAdd(a, b) ==
  LET r == Carried(a, b, 0) IN
  IF IsNegative(a) = IsNegative(b) /\ IsNegative(r) # IsNegative(a) THEN NoWide ELSE r

WrappingNeg(a) == Carried([i \in DOMAIN a |-> Limb - 1 - a[i]], Zeros(Len(a)), 1)
WideNeg(a) == IF a = Least(Len(a)) THEN NoWide ELSE WrappingNeg(a)

WideSubUnguarded(a, b) == WideAdd(a, WrappingNeg(b))

\* x - MIN is x + 2^(bits - 1), which fits a negative x only.
WideSub(a, b) ==
  IF b # Least(Len(b)) THEN WideAdd(a, WrappingNeg(b))
  ELSE IF IsNegative(a) THEN [a EXCEPT ![Len(a)] = (@ + Limb \div 2) % Limb] ELSE NoWide

SignLimb(negative) == IF negative THEN Limb - 1 ELSE 0

\* A word is two limbs of them, a double word four; NoWord is of no value.
WordHalf == Limb^2 \div 2
NoWord == Limb^5
FromWord(v, n) == [i \in 1..n |-> (v \div Limb^(i - 1)) % Limb]

\* Every limb from k + 1 up extends the sign of limb k.
FitsLimbs(w, k) == \A i \in (k + 1)..Len(w) : w[i] = SignLimb(w[k] >= Limb \div 2)
ToWordOf(w, k) == IF FitsLimbs(w, k) THEN WideValue(SubSeq(w, 1, k)) ELSE NoWord
ToWord(w) == ToWordOf(w, 2)
ToDoubleWord(w) == ToWordOf(w, IF Len(w) < 4 THEN 2 ELSE 4)

-----------------------------------------------------------------------------
\* A magnitude times m plus a, and whether a carry left the top limb.
MulSmallAdd(limbs, m, a) ==
  LET carry[i \in 0..Len(limbs)] == IF i = 0 THEN a ELSE (limbs[i] * m + carry[i - 1]) \div Limb
  IN [mag |-> [i \in DOMAIN limbs |-> (limbs[i] * m + carry[i - 1]) % Limb],
      over |-> carry[Len(limbs)] # 0]

\* A magnitude over a small divisor, from the top limb down.
DivremSmall(limbs, d) ==
  LET n == Len(limbs)
      rem[i \in 1..(n + 1)] == IF i = n + 1 THEN 0 ELSE (rem[i + 1] * Limb + limbs[i]) % d
  IN [quot |-> [i \in DOMAIN limbs |-> (rem[i + 1] * Limb + limbs[i]) \div d], rem |-> rem[1]]

MagnitudeOf(w) == IF IsNegative(w) THEN WrappingNeg(w) ELSE w

\* MIN is its own magnitude, read as unsigned.
FromMagnitude(negative, mag) ==
  IF negative
  THEN IF IsNegative(mag) THEN (IF mag = Least(Len(mag)) THEN mag ELSE NoWide) ELSE WrappingNeg(mag)
  ELSE IF IsNegative(mag) THEN NoWide ELSE mag

WideMul(w, m) ==
  LET p == MulSmallAdd(MagnitudeOf(w), m, 0) IN
  IF p.over THEN NoWide ELSE FromMagnitude(IsNegative(w), p.mag)

\* Toward zero.
WideDiv(w, d) == FromMagnitude(IsNegative(w), DivremSmall(MagnitudeOf(w), d).quot)

\* What Display writes: a sign and the digits in base Chunk, most significant
\* first.
RECURSIVE Chunks(_)
Chunks(mag) ==
  IF \A i \in DOMAIN mag : mag[i] = 0 THEN <<>>
  ELSE LET q == DivremSmall(mag, Chunk) IN Append(Chunks(q.quot), q.rem)
Shown(w) == [neg |-> IsNegative(w), chunks |-> Chunks(MagnitudeOf(w))]

-----------------------------------------------------------------------------
FitsWide(v, n) == -(Limb^n \div 2) <= v /\ v < Limb^n \div 2
Exactly(w, v, n) == IF FitsWide(v, n) THEN w # NoWide /\ WideValue(w) = v ELSE w = NoWide
Absolute(v) == IF v < 0 THEN -v ELSE v
Quotient(v, d) ==
  LET q == Absolute(v) \div Absolute(d) IN IF (v < 0) = (d < 0) THEN q ELSE -q
Reading(s) == LET m == FoldLeft(LAMBDA sum, c : sum * Chunk + c, 0, s.chunks) IN IF s.neg THEN -m ELSE m

\* Every operation on a and b has the integer's own answer, or none where that
\* does not fit the limbs.
OperationsExact(a, b, m) ==
  LET n == Len(a)  x == WideValue(a)  y == WideValue(b) IN
  /\ Exactly(WideAdd(a, b), x + y, n)
  /\ Exactly(WideSub(a, b), x - y, n)
  /\ Exactly(WideNeg(a), -x, n)
  /\ Exactly(WideMul(a, m), x * m, n)
  /\ m # 0 => Exactly(WideDiv(a, m), Quotient(x, m), n)
  /\ ToWord(a) = IF FitsWide(x, 2) THEN x ELSE NoWord
  /\ n > 3 => ToDoubleWord(a) = IF FitsWide(x, 4) THEN x ELSE NoWord
  /\ FromWord(x, n) = a
  /\ Reading(Shown(a)) = x
=============================================================================
