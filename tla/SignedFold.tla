------------------------------ MODULE SignedFold ------------------------------
(***************************************************************************)
(* What a signed fold answers, once planned (src/exec/signed_fold.rs,      *)
(* src/exec/agg.rs): the row loop of its scans, the key it builds of a     *)
(* row, what it refuses, and its rows in canonical order.  How threads     *)
(* share the work and how a sum is carried are in FoldPool and SharedAgg.  *)
(*                                                                         *)
(* A text is a sequence of bytes.  The text of a value column is the       *)
(* number it reads as, trimmed; or Odd, digits that are no integer, such   *)
(* as 1e3; or Junk, no number at all.                                      *)
(***************************************************************************)
EXTENDS Integers, Sequences, FiniteSets, SequencesExt, FiniteSetsExt

CONSTANTS
  Null, Failed,  \* Failed: the statement fails with the value
  Junk, Odd,
  Least, Most    \* the range of i128

(* A plan: arms of a table, columns of key parts and signed values.        *)
Literal(t) == [lit |-> t, col |-> "", fn |-> ""]
Column(c, f) == [lit |-> <<>>, col |-> c, fn |-> f]
Value(c, negated, strict) == [col |-> c, negated |-> negated, strict |-> strict]
Arm(t, key, values) == [table |-> t, key |-> key, values |-> values]
Fold(arms, keys, sums, dropZero) ==
  [branches |-> arms, keys |-> keys, sums |-> sums, dropZero |-> dropZero]

-----------------------------------------------------------------------------
LowerCase(t) == [i \in DOMAIN t |-> IF t[i] \in 65..90 THEN t[i] + 32 ELSE t[i]]
UpperCase(t) == [i \in DOMAIN t |-> IF t[i] \in 97..122 THEN t[i] - 32 ELSE t[i]]
FoldCase(t, f) == CASE f = "lower" -> LowerCase(t) [] f = "upper" -> UpperCase(t) [] f = "" -> t

\* Reads no two columns of a composite key as two others.
Prefixed(t) == <<Len(t), 0, 0, 0>> \o t

KeyColumns(b) == {kp.col : kp \in UNION {ToSet(b.key[i]) : i \in DOMAIN b.key}} \ {""}
KeyIsNull(b, row) == \E c \in KeyColumns(b) : row[c] = Null

PartText(kp, row) == IF kp.col = "" THEN kp.lit ELSE FoldCase(row[kp.col], kp.fn)
ColumnText(parts, row) == FlattenSeq([i \in DOMAIN parts |-> PartText(parts[i], row)])
KeyBytes(b, row) ==
  IF Len(b.key) = 1 THEN ColumnText(b.key[1], row)
  ELSE FlattenSeq([i \in DOMAIN b.key |-> Prefixed(ColumnText(b.key[i], row))])

RECURSIVE Unprefix(_)
Unprefix(bytes) ==
  IF bytes = <<>> THEN <<>>
  ELSE <<SubSeq(bytes, 5, 4 + bytes[1])>> \o Unprefix(SubSeq(bytes, 5 + bytes[1], Len(bytes)))
KeyTexts(bytes, arity) == IF arity = 1 THEN <<bytes>> ELSE Unprefix(bytes)

-----------------------------------------------------------------------------
\* Arms over one table share its scan: a value column is read once, strictly
\* where any of them casts it so.
Together(fold, b) == {x \in ToSet(fold.branches) : x.table = b.table}
StrictOf(fold, b, v) == \E x \in Together(fold, b) : \E i \in DOMAIN x.values :
  x.values[i].col = v.col /\ x.values[i].strict

IsRead(cell) == cell \notin {Null, Junk, Odd}

\* What stops the scan at a row.
RefusesRow(fold, b, row) ==
  \/ \E i \in DOMAIN b.values :
       LET v == b.values[i]  cell == row[v.col] IN
       \/ cell = Odd
       \/ cell = Junk /\ StrictOf(fold, b, v)
       \/ v.negated /\ cell = Least
  \/ KeyIsNull(b, row) /\ \E i \in DOMAIN b.values : IsRead(row[b.values[i].col])

Contribution(b, row, i) ==
  LET v == b.values[i] IN
  IF ~IsRead(row[v.col]) THEN <<>>
  ELSE <<[key |-> KeyBytes(b, row), at |-> i, n |-> IF v.negated THEN -row[v.col] ELSE row[v.col]]>>

ContributionsOf(b, row) == FlattenSeq([i \in DOMAIN b.values |-> Contribution(b, row, i)])
ContributionsIn(b, rows) == FlattenSeq([r \in DOMAIN rows |-> ContributionsOf(b, rows[r])])
Contributions(fold, D) ==
  FlattenSeq([a \in DOMAIN fold.branches |->
    ContributionsIn(fold.branches[a], D[fold.branches[a].table])])

SumOf(cs, key, i) ==
  FoldLeft(LAMBDA n, c : IF c.key = key /\ c.at = i THEN n + c.n ELSE n, 0, cs)

BytesBefore(x, y) ==
  \/ \E i \in DOMAIN x \cap DOMAIN y : x[i] < y[i] /\ \A j \in 1..(i - 1) : x[j] = y[j]
  \/ IsStrictPrefix(x, y)

Canonical(keys) == SetToSortSeq(keys, BytesBefore)

\* One sum is carried wide and checked at the end; beside another, a sum is
\* checked at each addition, in the order the rows come.
StaysIn(cs, k, i) == \A n \in 1..Len(cs) : SumOf(SubSeq(cs, 1, n), k, i) \in Least..Most
SumFits(fold, cs, k, i) ==
  IF Len(fold.sums) = 1 THEN SumOf(cs, k, i) \in Least..Most ELSE StaysIn(cs, k, i)

KeysIn(cs) == {c.key : c \in ToSet(cs)}
KeptKeys(fold, cs) ==
  IF fold.dropZero THEN {k \in KeysIn(cs) : SumOf(cs, k, 1) # 0} ELSE KeysIn(cs)
RowOfKey(fold, cs, k) ==
  [keys |-> KeyTexts(k, Len(fold.keys)), sums |-> [i \in DOMAIN fold.sums |-> SumOf(cs, k, i)]]
Rendered(fold, cs, order) == [i \in DOMAIN order |-> RowOfKey(fold, cs, order[i])]
IntoRows(fold, cs, kept) ==
  IF \E k \in KeysIn(cs) : \E i \in DOMAIN fold.sums : ~SumFits(fold, cs, k, i) THEN <<>>
  ELSE <<Rendered(fold, cs, Canonical(kept))>>
Summed(fold, cs) == IntoRows(fold, cs, KeptKeys(fold, cs))

\* The rows, or nothing where the fold refuses.
FoldRows(fold, D) ==
  IF \E b \in ToSet(fold.branches) : \E r \in ToSet(D[b.table]) : RefusesRow(fold, b, r)
  THEN <<>> ELSE Summed(fold, Contributions(fold, D))
=============================================================================
