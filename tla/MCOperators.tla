----------------------------- MODULE MCOperators -----------------------------
(* One of the operators, or of the conversions of a value, at a time, whatever *)
(* its input; the others rest.  Limbs have four bits, so a word has eight and   *)
(* a decimal two digits.                                                        *)
EXTENDS HeldInput, RangeJoin, RangeBounds, OrderedAgg, CheckedSums, TextNumbers, MoveConstants

CONSTANTS s1, s2, p1, p2

B(rows, used, whole) == [rows |-> rows, used |-> used, whole |-> whole]
In(batches, fails) == [batches |-> batches, fails |-> fails]
MCInputs ==
  {In(<<B(5, 1, 2)>>, FALSE), In(<<B(1, 0, 2), B(2, 1, 1)>>, TRUE),
   In(<<B(1, 1, 1), B(2, 0, 2), B(1, 1, 1), B(1, 0, 1)>>, FALSE)}

Row(x, y) == [x |-> x, y |-> y]
Cmp(left, l, op, r) == [left |-> left, l |-> l, op |-> op, r |-> r]
MCFilters ==
  {<<Cmp(TRUE, "x", ">=", "x"), Cmp(TRUE, "y", "<=", "y")>>,
   <<Cmp(FALSE, "x", ">", "y"), Cmp(TRUE, "x", ">", "y")>>,
   <<Cmp(FALSE, "x", "<", "x"), Cmp(FALSE, "y", ">=", "x")>>,
   <<Cmp(TRUE, "x", ">", "x"), Cmp(FALSE, "y", "<=", "y")>>}
MCLefts ==
  {<<>>, <<Row(1, 2)>>, <<Row(2, 1), Row(1, 1), Row(1, 3)>>, <<Row(1, 3), Row(2, Null), Row(2, 2)>>,
   <<Row(2, 3), Row(1, 1), Row(0, 2), Row(1, 2)>>}
MCRights == {<<>>, <<Row(1, 2), Row(0, 0)>>, <<Row(1, 1), Row(Null, 1), Row(2, 2)>>}
MCJoinCases ==
  {[left |-> l, right |-> (p1 :> r1 @@ p2 :> r2), filter |-> f, keep |-> k] :
     l \in MCLefts, r1 \in MCRights, r2 \in {<<Row(1, 3)>>}, f \in MCFilters, k \in BOOLEAN}

Side(k, x, y) == [k |-> k, x |-> x, y |-> y]
Cond(probe, op, build) == [probe |-> probe, op |-> op, build |-> build]
MCBoundCases ==
  {[build |-> b, fails |-> f, conditions |-> c, plain |-> {"x", "y"}, type |-> t, collectLeft |-> TRUE,
    groups |-> <<[parquet |-> TRUE, rows |-> {Side(1, 1, 1), Side(2, 2, 1)}],
                 [parquet |-> TRUE, rows |-> {Side(1, 3, 2), Side(2, NoValue, 3)}],
                 [parquet |-> FALSE, rows |-> {Side(1, 2, 0)}]>>] :
     b \in {<<>>, <<Side(1, 2, 2)>>, <<Side(2, 3, 3), Side(1, 1, 2)>>, <<Side(1, NoValue, 1)>>},
     f \in BOOLEAN,
     c \in {{Cond("x", ">=", "x"), Cond("y", "<=", "y")}, {Cond("x", "<", "y"), Cond("x", ">", "x")}},
     t \in {"Inner", "Left", "LeftAnti", "RightSemi", "Right", "RightAnti", "Full"}}

R(g, key, value, filter) == [group |-> g, key |-> key, value |-> value, filter |-> filter]
MCListBatches ==
  {<<R(1, 2, "a", TRUE), R(2, 1, "b", TRUE)>>, <<R(1, 1, "c", TRUE), R(1, 2, "d", FALSE)>>,
   <<R(2, 1, "e", TRUE)>>, <<R(1, 2, NullValue, TRUE)>>}

MCSumValues(t) ==
  CASE t = "int" -> {-8, 7} [] t = "uint" -> {0, 15} [] t = "decimal" -> {-99, 99, 50}
    [] t = "wide decimal" -> {-9999, 5000}

\* Operands that carry, borrow and change sign at every limb.
MCLimbs == {0, 7, 8, 15}
MCWides ==
  [1..2 -> MCLimbs] \cup {w \in [1..3 -> MCLimbs] : w[1] # 8}
    \cup {w \in [1..5 -> MCLimbs] : w[1] = w[2] /\ w[3] = w[4] /\ w[1] # 8}
MCFactors == {0, 1, 3, 15}
Signed3 == [least |-> -4, most |-> 3, bits |-> 3]
Signed4 == [least |-> -8, most |-> 7, bits |-> 4]
MCRowTypes == {Signed3, Signed4, [least |-> 0, most |-> 7, bits |-> 3], [least |-> 0, most |-> 15, bits |-> 4]}
\* A literal is of the widest type until it meets another.
MCOperands == UNION {{Operand(FALSE, type, v) : v \in type.least..type.most} : type \in MCRowTypes}
  \cup {Operand(TRUE, Signed4, v) : v \in -8..7}

\* Every text of two characters, and signs, digits, fractions and exponents.
MCCharacters == {" ", "-", "_", ".", "e", "0", "5", "9", "x", "b"}
MCHeads ==
  {<<>>, <<"-">>, <<" ", "+">>} \cup
  {sign \o digits : sign \in {<<>>, <<"-">>},
                   digits \in {<<"0">>, <<"1", "2">>, <<"9", "9">>, <<"1", "2", "8">>, <<"1", "2", "7">>,
                              <<"0", "0", "0", "7">>, <<"1", "_", "0">>, <<"0", "b", "1", "0", "1">>, <<"0", "x", "0", "9">>,
                              <<"0", "x", "f", "f", "f">>, <<"0", "x", "_", "1">>}}
MCTails ==
  UNION {[1..n -> MCCharacters] : n \in 0..2} \cup
  {fraction \o exponent :
     fraction \in {<<>>, <<".">>, <<".", "5">>, <<".", "4", "9">>, <<".", "0", "5">>, <<".", "5", ".">>},
     exponent \in {<<>>, <<"e", "1">>, <<"e", "-", "2">>, <<"e", "9">>, <<"e", "+", "1", "_", "0">>, <<"e">>}}

\* Signed, unsigned, and symmetric as decimals are.
MCTypes == {[least |-> -8, most |-> 7], [least |-> 0, most |-> 15], [least |-> -9, most |-> 9]}
MCConstants(t) ==
  {Constant(v) : v \in {v \in {t.least, -3, -1, 0, 1, 2, 6, t.most} : FitsType(v, t)} \cup {MovedNull}}
MCArithmetic(e, t) ==
  UNION {{Op(op, e, c), Op(op, c, e)} : op \in {"+", "-", "*"}, c \in MCConstants(t)}
MCSubjects(t) ==
  UNION {MCArithmetic(e, t) : e \in {Column, Op("+", Column, Constant(1)), Op("-", Constant(1), Column)}}
MCComparisonsOf(e, t) ==
  {Op(op, e, c) : op \in Comparisons, c \in MCConstants(t)} \cup
  {Op(op, c, e) : op \in {"<", ">=", "not distinct"}, c \in MCConstants(t)} \cup
  {[op |-> "between", a |-> e, low |-> l, high |-> h, negated |-> n] :
     l \in MCConstants(t), h \in {Constant(2), Constant(t.most), Constant(MovedNull)}, n \in BOOLEAN}

VARIABLES machine, case

vars == <<machine, case, held, join, scan, lists, sums>>
Rests == <<>>
\* Streams, a join and a scan at rest: opened, and never polled.
HeldRests == held = [h \in Holders |-> Open("gather", CHOOSE i \in Inputs : TRUE)]
JoinRests == join = Planned(CHOOSE c \in JoinCases : Taken(c))
ScanRests == scan = Opened(CHOOSE c \in BoundCases : TRUE)

Init ==
  /\ case = Rests
  /\ \/ machine = "held" /\ HeldInit /\ JoinRests /\ ScanRests /\ lists = Rests /\ sums = Rests
     \/ machine = "join" /\ JoinInit /\ HeldRests /\ ScanRests /\ lists = Rests /\ sums = Rests
     \/ machine = "scan" /\ BoundsInit /\ HeldRests /\ JoinRests /\ lists = Rests /\ sums = Rests
     \/ machine = "lists" /\ ListInit /\ HeldRests /\ JoinRests /\ ScanRests /\ sums = Rests
     \/ machine = "sums" /\ SumInit /\ HeldRests /\ JoinRests /\ ScanRests /\ lists = Rests
     \/ /\ machine \in {"limbs", "rows", "text", "moved"}
        /\ HeldRests /\ JoinRests /\ ScanRests /\ lists = Rests /\ sums = Rests

JoinMoves(p) == machine = "join" /\ JoinSteps(p) /\ UNCHANGED <<machine, case, held, scan, lists, sums>>

\* The operands of a conversion, in two steps.
FirstOperand ==
  /\ case = Rests
  /\ \/ machine = "limbs" /\ \E w \in MCWides : case' = <<w>>
     \/ machine = "rows" /\ \E x \in MCOperands : case' = <<x>>
     \/ machine = "text" /\ \E t \in MCHeads : case' = <<t>>
     \/ machine = "moved" /\ \E t \in MCTypes : \E e \in MCSubjects(t) : case' = <<<<e, t>>>>
SecondOperand ==
  /\ case # Rests /\ Len(case) = 1
  /\ \/ machine = "limbs" /\ \E w \in MCWides, m \in MCFactors : Len(w) = Len(case[1]) /\ case' = <<case[1], w, m>>
     \/ machine = "rows" /\ \E n \in MCOperands : case' = <<case[1], n>>
     \/ machine = "text" /\ \E t \in MCTails : case' = <<case[1], t>>
     \/ machine = "moved" /\ \E c \in MCComparisonsOf(case[1][1], case[1][2]) : case' = <<c, case[1][2]>>

Next ==
  \/ machine = "held" /\ HeldNext /\ UNCHANGED <<machine, case, join, scan, lists, sums>>
  \/ machine = "join" /\ JoinNext /\ UNCHANGED <<machine, case, held, scan, lists, sums>>
  \/ machine = "scan" /\ BoundsNext /\ UNCHANGED <<machine, case, held, join, lists, sums>>
  \/ machine = "lists" /\ ListNext /\ UNCHANGED <<machine, case, held, join, scan, sums>>
  \/ machine = "sums" /\ SumNext /\ UNCHANGED <<machine, case, held, join, scan, lists>>
  \/ (FirstOperand \/ SecondOperand) /\ UNCHANGED <<machine, held, join, scan, lists, sums>>

\* A stream whose reader keeps polling it is at work.
Spec == Init /\ [][Next]_vars /\ \A p \in Partitions : WF_vars(JoinMoves(p))

\* A polled partition ends: calls that find nothing still move on (rangejoin.rs,
\* probe and execute).
JoinEnds ==
  \A p \in Partitions : machine = "join" ~> machine = "join" /\ join.part[p].state \in {"done", "error"}
\* Each emitted list is what its group was given, in key order (ordered_agg.rs,
\* take, release, merge_batch).
ListAnswer == machine = "lists" => ListsInOrder
\* sum and avg answer exactly, or refuse for the answer alone, however the rows
\* came and went (checked.rs, CheckedAccumulator, CheckedGroups, narrow).
SumExact == machine = "sums" => SumsAnswerExactly
\* Nothing a table could hold fills a sum's limbs (checked.rs, Wide::add).
SumRefusals == machine = "sums" => NoSumLeavesItsLimbs
\* So, in limbs that are wide enough.
SumsExact == SumExact /\ SumRefusals
\* Arithmetic limb by limb is the integers' (wide.rs).
LimbsExact == machine = "limbs" /\ Len(case) = 3 => OperationsExact(case[1], case[2], case[3])
\* A row's shifts and remainder lose nothing and refuse for their own answer only
\* (rule.rs, CheckedShifts; checked.rs, shifts and rem).
RowsExact == machine = "rows" /\ Len(case) = 2 => RowOperationsAgree(case[1], case[2])
\* So, in limbs and in rows.
ArithmeticExact == LimbsExact /\ RowsExact
\* A text is the number DuckDB's grammar makes of it (wide.rs, fastcast.rs).
TextMeans == machine = "text" /\ Len(case) = 2 => ReadsTheNumber(case[1] \o case[2])
\* Every reader of a text reads the same number (fastcast.rs, checked.rs ExactWide).
TextAlike == machine = "text" /\ Len(case) = 2 => ReadsAlike(case[1] \o case[2])
\* So, each as the grammar has it.
TextsRead == TextMeans /\ TextAlike
\* A moved constant changes no answer, and no refusal but into the integers' answer
\* (constants.rs, moved and between).
MovedAnswer == machine = "moved" /\ Len(case) = 2 => MovedAlike(case[1], case[2])
\* Constants move as far as they go (constants.rs, settled).
MovedFully == machine = "moved" /\ Len(case) = 2 => MovesSettle(case[1], case[2])
\* So, and they get there.
ConstantsMove == MovedAnswer /\ MovedFully
=============================================================================
