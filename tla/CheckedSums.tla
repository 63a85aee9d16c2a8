------------------------------ MODULE CheckedSums ------------------------------
(***************************************************************************)
(* sum and avg over integers and decimals, and the arithmetic and shifts   *)
(* of a row, as the engine evaluates them (src/df/checked.rs): the sum in  *)
(* limbs no real table can leave, narrowed once, by an error.  Partial     *)
(* aggregates of several groups are fed, emitted, merged, passed by, or    *)
(* slide along with a window frame, in any order.                          *)
(***************************************************************************)
EXTENDS Limbs, FiniteSets, TLC

CONSTANTS
  SumParts,   \* partial aggregates
  SumInputs,  \* types summed
  SumValues(_),  \* values of one
  SumScale,   \* what the scale of an average adds to its input's, as a factor
  SumRows,    \* bounds the rows fed
  Refusal,    \* an error instead of an answer
  NullSum     \* NULL as an answer

ASSUME CheckedSumsAssumption ==
  /\ 10^Precision <= WordHalf /\ SumScale \in Nat \ {0} /\ SumRows \in Nat
  /\ SumInputs \subseteq {"int", "uint", "decimal", "wide decimal"}

VARIABLE sums

SumGroups == 1..2

\* A group that saw no value has no count, and answers NULL.
NoSums == [sum |-> <<>>, n |-> <<>>]

WidthFor(t) == CASE t \in {"int", "uint"} -> 2 [] t = "decimal" -> 3 [] t = "wide decimal" -> 5

\* The largest answer: any integer is summed as a decimal.
SumMost(t) == IF t = "wide decimal" THEN 10^(2 * Precision) - 1 ELSE 10^Precision - 1

SumGrown(a, groups) ==
  LET more == IF groups > Len(a.n) THEN groups - Len(a.n) ELSE 0 IN
  [sum |-> a.sum \o [i \in 1..more |-> Zeros(WidthFor(sums.in))], n |-> a.n \o Zeros(more)]

-----------------------------------------------------------------------------
Counts(row) == row.keep /\ row.v # NoWord

\* A running total that leaves its limbs is refused; what is behind it stays.
Folded(a, g, w, n) ==
  LET s == WideAdd(a.sum[g], w) IN
  IF s = NoWide THEN [acc |-> a, ok |-> FALSE]
  ELSE [acc |-> [sum |-> [a.sum EXCEPT ![g] = s], n |-> [a.n EXCEPT ![g] = @ + n]], ok |-> TRUE]

FoldedRow(a, row) ==
  IF Counts(row) THEN Folded(a, row.g, FromWord(row.v, WidthFor(sums.in)), 1) ELSE [acc |-> a, ok |-> TRUE]

\* What state() hands over of the first k groups, and what stays.
Encoded(a, k) == [i \in 1..k |-> [sum |-> a.sum[i], n |-> a.n[i]]]
Remaining(a, k) == [sum |-> SubSeq(a.sum, k + 1, Len(a.n)), n |-> SubSeq(a.n, k + 1, Len(a.n))]
RemainingCounts(a, k) == [sum |-> SubSeq(a.sum, 1, Len(a.n) - k), n |-> SubSeq(a.n, k + 1, Len(a.n))]

\* convert_to_state: a row as the state of a group of its own.
Converted(row) ==
  IF Counts(row) THEN [sum |-> FromWord(row.v, WidthFor(sums.in)), n |-> 1]
  ELSE [sum |-> Zeros(WidthFor(sums.in)), n |-> 0]

MergedStates(a, states, at(_)) ==
  FoldLeftDomain(LAMBDA r, i : IF r.ok THEN Folded(r.acc, at(i), states[i].sum, states[i].n) ELSE r,
                 [acc |-> a, ok |-> TRUE], states)

-----------------------------------------------------------------------------
(* What a group answers.  The average is exact to its scale, toward zero.  *)
Narrow(w) ==
  IF w = NoWide THEN Refusal
  ELSE LET x == IF sums.in = "wide decimal" THEN ToDoubleWord(w) ELSE ToWord(w)
       IN IF x # NoWord /\ Absolute(x) <= SumMost(sums.in) THEN x ELSE Refusal

AveragedFirst(w, n) == WideMul(WideDiv(w, n), SumScale)
Averaged(w, n) ==
  LET scaled == WideMul(w, SumScale) IN IF scaled = NoWide THEN NoWide ELSE WideDiv(scaled, n)

SumAnswer(a, g, mode) ==
  CASE a.n[g] = 0 -> NullSum
    [] mode = "text" -> Reading(Shown(a.sum[g]))
    [] mode = "sum" -> Narrow(a.sum[g])
    [] mode = "avg" -> Narrow(Averaged(a.sum[g], a.n[g]))

-----------------------------------------------------------------------------
NoSum == [total |-> 0, n |-> 0]
SumTally(t, row, sign) ==
  IF Counts(row) THEN [total |-> t.total + sign * row.v, n |-> t.n + sign] ELSE t
TallyGrown(f, n) == f \o [i \in 1..(IF n > Len(f) THEN n - Len(f) ELSE 0) |-> NoSum]

SumInit ==
  \E t \in SumInputs, frame \in BOOLEAN :
    sums = [in |-> t, frame |-> frame, part |-> [p \in SumParts |-> NoSums],
            fed |-> [p \in SumParts |-> <<>>], window |-> [p \in SumParts |-> <<>>],
            rows |-> 0, error |-> FALSE]

SumRowsOf(t) == [g : SumGroups, v : SumValues(t) \cup {NoWord}, keep : {TRUE}]
                \cup [g : SumGroups, v : {CHOOSE v \in SumValues(t) : TRUE}, keep : {FALSE}]

\* update_batch of a partial aggregate.
SumUpdate(p, row) ==
  /\ ~sums.frame /\ ~sums.error /\ sums.rows < SumRows
  /\ LET fed == TallyGrown(sums.fed[p], row.g)
         r == FoldedRow(SumGrown(sums.part[p], row.g), row)
     IN sums' = [sums EXCEPT !.part[p] = r.acc, !.error = ~r.ok, !.rows = @ + 1,
                             !.fed[p] = [fed EXCEPT ![row.g] = SumTally(@, row, 1)]]

\* The first groups of p as states, merged into q, whose groups may be numbered
\* the other way round.
SumEmit(p, q, k, turned) ==
  /\ ~sums.frame /\ ~sums.error /\ p # q /\ k \in 1..Len(sums.part[p].n)
  /\ LET at(i) == IF turned THEN k + 1 - i ELSE i
         r == MergedStates(SumGrown(sums.part[q], k), Encoded(sums.part[p], k), at)
         given == sums.fed[p]
         taking == TallyGrown(sums.fed[q], k)
         with(g) == IF g > k THEN taking[g]
                    ELSE [total |-> taking[g].total + given[at(g)].total, n |-> taking[g].n + given[at(g)].n]
     IN sums' = [sums EXCEPT !.part = [sums.part EXCEPT ![q] = r.acc, ![p] = Remaining(sums.part[p], k)],
                             !.error = ~r.ok,
                             !.fed = [sums.fed EXCEPT ![q] = [g \in DOMAIN taking |-> with(g)],
                                                      ![p] = SubSeq(given, k + 1, Len(given))]]

\* A row that skips the partial aggregation.
SumSkip(q, row) ==
  /\ ~sums.frame /\ ~sums.error /\ sums.rows < SumRows
  /\ LET at(i) == row.g
         fed == TallyGrown(sums.fed[q], row.g)
         r == MergedStates(SumGrown(sums.part[q], row.g), <<Converted(row)>>, at)
     IN sums' = [sums EXCEPT !.part[q] = r.acc, !.error = ~r.ok, !.rows = @ + 1,
                             !.fed[q] = [fed EXCEPT ![row.g] = SumTally(@, row, 1)]]

\* A row enters a window's frame, or the oldest leaves it.
SumEnters(p, row) ==
  /\ sums.frame /\ ~sums.error /\ sums.rows < SumRows /\ row.g = 1 /\ row.keep
  /\ LET fed == TallyGrown(sums.fed[p], 1)
         r == FoldedRow(SumGrown(sums.part[p], 1), row)
     IN sums' = [sums EXCEPT !.part[p] = r.acc, !.error = ~r.ok, !.rows = @ + 1,
                             !.fed[p] = [fed EXCEPT ![1] = SumTally(@, row, 1)],
                             !.window[p] = Append(@, row)]

SumLeaves(p) ==
  /\ sums.frame /\ ~sums.error /\ sums.window[p] # <<>>
  /\ LET row == Head(sums.window[p])  a == sums.part[p]
         s == IF Counts(row) THEN WideSub(a.sum[1], FromWord(row.v, WidthFor(sums.in))) ELSE a.sum[1]
         n == IF Counts(row) THEN a.n[1] - 1 ELSE a.n[1]
     IN sums' = [sums EXCEPT !.part[p] = IF s = NoWide THEN a ELSE [sum |-> <<s>>, n |-> <<n>>],
                             !.error = s = NoWide, !.window[p] = Tail(@),
                             !.fed[p] = <<SumTally(@[1], row, -1)>>]

SumNext ==
  \/ \E p \in SumParts, row \in SumRowsOf(sums.in) :
       SumUpdate(p, row) \/ SumSkip(p, row) \/ SumEnters(p, row)
  \/ \E p, q \in SumParts, k \in SumGroups, turned \in BOOLEAN : SumEmit(p, q, k, turned)
  \/ \E p \in SumParts : SumLeaves(p)

-----------------------------------------------------------------------------
FitsSum(v) == IF Absolute(v) <= SumMost(sums.in) THEN v ELSE Refusal
SumExpected(t, mode) ==
  CASE t.n = 0 -> NullSum
    [] mode = "text" -> t.total
    [] mode = "sum" -> FitsSum(t.total)
    [] mode = "avg" -> FitsSum(Quotient(t.total * SumScale, t.n))

\* At any moment every group answers the exact sum, or average, of its values, and
\* is refused exactly where that does not fit, whatever the order and the parts.
SumsAnswerExactly ==
  ~sums.error => \A p \in SumParts : \A g \in DOMAIN sums.part[p].n :
    \A mode \in IF sums.in \in {"int", "uint"} THEN {"text", "sum"} ELSE {"text", "sum", "avg"} :
    SumAnswer(sums.part[p], g, mode) = SumExpected(sums.fed[p][g], mode)

\* And nothing is refused on the way: so many rows do not leave the limbs.
NoSumLeavesItsLimbs == sums.error => sums.rows > 2^(LimbBits - 1)

-----------------------------------------------------------------------------
(* A row's remainder, whose quotient must fit its type, and its shifts.    *)
Rem(x, y, type) == IF x = type.least /\ y = -1 THEN Refusal ELSE x - y * Quotient(x, y)

ShiftRightModulo(x, n, type) == x \div 2^(n % type.bits)
ShiftRight(x, n, type) == IF n \in 0..(type.bits - 1) THEN x \div 2^n ELSE 0

ShiftLeft(x, n, type) ==
  IF n \notin 0..(type.bits - 1) \/ x < 0 \/ x * 2^n > type.most THEN Refusal ELSE x * 2^n

\* checked_shifts: a literal takes the type of the other side, if that can hold it;
\* both sides the wider type, if they are of one sign.
Operand(lit, type, v) == [lit |-> lit, type |-> type, v |-> v]
InType(v, type) == v \in type.least..type.most
Adopt(x, type) == IF x.lit /\ InType(x.v, type) THEN [x EXCEPT !.type = type] ELSE x
Adopted(l, r) == IF r.lit THEN <<l.type, Adopt(r, l.type).type>> ELSE <<Adopt(l, r.type).type, r.type>>
CoercedShift(l, r) == IF (l.least < 0) = (r.least < 0) /\ l.bits < r.bits THEN r ELSE l
ShiftedIn(l, r) == LET types == Adopted(l, r) IN CoercedShift(types[1], types[2])
ShiftedLeft(l, r) == ShiftLeft(l.v, r.v, ShiftedIn(l, r))
ShiftedRight(l, r) == ShiftRight(l.v, r.v, ShiftedIn(l, r))

\* A left shift loses no bit of the wider column's type, whatever literal it meets, a
\* right shift none above the count; a remainder has its dividend's sign and is
\* smaller than its divisor, where there is a quotient.
ColumnTypes(l, r) == {x.type : x \in {y \in {l, r} : ~y.lit}}
ShiftsAgree(l, r, type) ==
  LET x == l.v  n == r.v  left == ShiftedLeft(l, r)  right == ShiftedRight(l, r) IN
  /\ left = Refusal => x < 0 \/ n \notin 0..(type.bits - 1) \/ x * 2^n > type.most
  /\ left # Refusal => left = x * 2^n /\ InType(left, type) /\ ShiftedRight([l EXCEPT !.v = left], r) = x
  /\ n \in 0..(type.bits - 1) => right * 2^n <= x /\ x < (right + 1) * 2^n
  /\ n \notin 0..(type.bits - 1) => right = 0
RemainderAgrees(x, n, type) ==
  LET r == Rem(x, n, type) IN
  IF Quotient(x, n) \in type.least..type.most
  THEN /\ (x - r) % Absolute(n) = 0 /\ Absolute(r) < Absolute(n)
       /\ r # 0 => (r < 0) = (x < 0)
  ELSE r = Refusal
RowOperationsAgree(l, r) ==
  /\ \A type \in ColumnTypes(l, r) :
       /\ \A x \in {l, r} : x.lit => InType(x.v, type)
       /\ \A other \in ColumnTypes(l, r) : (other.least < 0) = (type.least < 0) /\ other.bits <= type.bits
       => ShiftsAgree(l, r, type)
  /\ l.type = r.type /\ r.v # 0 => RemainderAgrees(l.v, r.v, l.type)
=============================================================================
