----------------------------- MODULE MoveConstants -----------------------------
(***************************************************************************)
(* Constants moved out of integer arithmetic into the comparison it stands *)
(* in (src/df/constants.rs), so that the overflows that surface are        *)
(* DuckDB's.  A value is a number, or MovedNull; an expression is the      *)
(* column, a constant, or an operation on two of them.                     *)
(***************************************************************************)
EXTENDS Integers, Sequences

CONSTANTS
  MovedMost,  \* the largest i128, wider than every type
  MovedNull,
  Overflow    \* an error instead of an answer

Column == [op |-> "column"]
Constant(v) == [op |-> "constant", v |-> v]
Op(op, a, b) == [op |-> op, a |-> a, b |-> b]

IsConstant(e) == e.op = "constant"
IsArithmetic(e) == e.op \in {"+", "-", "*"}
Comparisons == {"=", "<>", "<", "<=", ">", ">=", "distinct", "not distinct"}

Flip(op) ==
  CASE op = "<" -> ">" [] op = ">" -> "<" [] op = "<=" -> ">=" [] op = ">=" -> "<=" [] OTHER -> op

FitsType(v, type) == type.least <= v /\ v <= type.most
OutsideI128(v) == v > MovedMost \/ v < -MovedMost - 1

\* ConstantOrNull: b unless x is NULL.
OrNull(x, b) == [op |-> "or null", a |-> x, v |-> b]
Same(e) == [op |-> "left", e |-> e]

\* The comparison turned so that the constant is on its right.
Turned(e) == IF IsConstant(e.b) THEN e ELSE Op(Flip(e.op), e.b, e.a)

\* x * inner op outer.
MovedProduct(x, op, inner, outer, type, e) ==
  IF inner = 0 THEN Same(e)
  ELSE LET size == IF inner < 0 THEN -inner ELSE inner
           quotient == IF inner < 0 THEN -(outer \div size) ELSE outer \div size
       IN IF outer % size # 0
          THEN CASE op = "=" -> OrNull(x, FALSE) [] op = "<>" -> OrNull(x, TRUE) [] OTHER -> Same(e)
          ELSE IF FitsType(quotient, type)
          THEN Op(IF inner < 0 THEN Flip(op) ELSE op, x, Constant(quotient))
          ELSE OrNull(x, FALSE)

MovedProductUnflipped(x, op, inner, outer, type, e) ==
  IF inner = 0 \/ outer % (IF inner < 0 THEN -inner ELSE inner) # 0 THEN Same(e)
  ELSE Op(op, x, Constant(IF inner < 0 THEN -(outer \div (-inner)) ELSE outer \div inner))

MovedSumSaturating(x, op, v, type, e) ==
  Op(op, x, Constant(IF v > type.most THEN type.most ELSE IF v < type.least THEN type.least ELSE v))

\* x + inner, x - inner or inner - x, op outer.
MovedSum(x, op, v, type, e) ==
  IF OutsideI128(v) THEN Same(e)
  ELSE IF FitsType(v, type) THEN Op(op, x, Constant(v))
  ELSE IF op = "=" THEN OrNull(x, FALSE) ELSE Same(e)

\* One constant moved; a comparison that none moves in stays as it is.
MovedOnce(e, type) ==
  IF e.op \notin Comparisons \/ (~IsConstant(e.a) /\ ~IsConstant(e.b)) THEN Same(e)
  ELSE LET t == Turned(e)  op == t.op  outer == t.b.v  arith == t.a IN
    IF ~IsArithmetic(arith) THEN Same(e)
    ELSE IF ~IsConstant(arith.a) /\ ~IsConstant(arith.b) THEN Same(e)
    ELSE LET first == ~IsConstant(arith.b)
             inner == IF first THEN arith.a.v ELSE arith.b.v
             x == IF first THEN arith.b ELSE arith.a
         IN IF MovedNull \in {inner, outer}
            THEN IF op \in {"distinct", "not distinct"} THEN Same(e) ELSE Constant(MovedNull)
            ELSE CASE arith.op = "+" -> MovedSum(x, op, outer - inner, type, e)
                   [] arith.op = "-" /\ ~first -> MovedSum(x, op, outer + inner, type, e)
                   [] arith.op = "-" /\ first -> MovedSum(x, Flip(op), inner - outer, type, e)
                   [] arith.op = "*" -> MovedProduct(x, op, inner, outer, type, e)

\* settled: as far as they go.
RECURSIVE Settled(_, _)

Settled(e, type) == LET m == MovedOnce(e, type) IN IF m.op = "left" THEN e ELSE Settled(m, type)

\* BETWEEN over arithmetic with a constant is the two comparisons DuckDB binds it to.
Between(e, type) ==
  IF /\ IsArithmetic(e.a) /\ (IsConstant(e.a.a) \/ IsConstant(e.a.b))
     /\ IsConstant(e.low) /\ IsConstant(e.high)
  THEN LET both == Op("and", Settled(Op(">=", e.a, e.low), type), Settled(Op("<=", e.a, e.high), type))
       IN IF e.negated THEN [op |-> "not", a |-> both] ELSE both
  ELSE e

Rewritten(e, type) == IF e.op = "between" THEN Between(e, type) ELSE Settled(e, type)

-----------------------------------------------------------------------------
(* What an expression answers over a row: the number or truth it stands    *)
(* for, Overflow where a step of it leaves the type.  Numbers and truths   *)
(* are both numbers here, FALSE 0 and TRUE 1.                              *)
Truth(b) == IF b THEN 1 ELSE 0

ApplyOp(op, a, b) ==
  CASE op = "+" -> a + b [] op = "-" -> a - b [] op = "*" -> a * b
    [] op = "=" -> Truth(a = b) [] op = "<>" -> Truth(a # b)
    [] op = "<" -> Truth(a < b) [] op = "<=" -> Truth(a <= b)
    [] op = ">" -> Truth(a > b) [] op = ">=" -> Truth(a >= b)

And(a, b) ==
  CASE Overflow \in {a, b} -> Overflow [] 0 \in {a, b} -> 0 [] MovedNull \in {a, b} -> MovedNull [] OTHER -> 1
Not(a) == IF a \in {Overflow, MovedNull} THEN a ELSE 1 - a

RECURSIVE Answer(_, _, _)
Answer(e, x, type) ==
  LET of(sub) == Answer(sub, x, type)
      some(a, b, then) == CASE Overflow \in {a, b} -> Overflow [] MovedNull \in {a, b} -> MovedNull [] OTHER -> then
  IN CASE e.op = "column" -> x
       [] e.op = "constant" -> e.v
       [] e.op = "or null" -> some(of(e.a), 0, Truth(e.v))
       [] e.op = "not" -> Not(of(e.a))
       [] e.op = "and" -> And(of(e.a), of(e.b))
       [] e.op = "between" ->
            LET b == And(of(Op(">=", e.a, e.low)), of(Op("<=", e.a, e.high))) IN
            IF e.negated THEN Not(b) ELSE b
       [] e.op \in {"distinct", "not distinct"} ->
            LET a == of(e.a)  b == of(e.b) IN
            IF Overflow \in {a, b} THEN Overflow ELSE Truth((a = b) = (e.op = "not distinct"))
       [] OTHER -> LET a == of(e.a)  b == of(e.b) IN
            IF {Overflow, MovedNull} \cap {a, b} # {} THEN some(a, b, Overflow)
            ELSE LET r == ApplyOp(e.op, a, b) IN
                 IF IsArithmetic(e) /\ ~FitsType(r, type) THEN Overflow ELSE r

\* The one product whose quotient is outside the type, x * -1 against the least
\* value, is called false whatever the comparison.
LeastByMinusOne(e, type) ==
  LET bounds == IF e.op = "between" THEN {e.low, e.high} ELSE {e.a, e.b}
      a == IF e.op = "between" THEN e.a ELSE Turned(e).a
  IN Constant(type.least) \in bounds /\ a.op = "*" /\ Constant(-1) \in {a.a, a.b}

\* Where the comparison as written has an answer the moved one has the same; where
\* it overflows the moved one overflows too, or has the integers' answer.
MovedAlike(e, type) ==
  LET integers == [least |-> -1000, most |-> 1000]  m == Rewritten(e, type) IN
  LeastByMinusOne(e, type) \/
  \A x \in (type.least..type.most) \cup {MovedNull} :
    LET written == Answer(e, x, type) IN
    IF written # Overflow THEN Answer(m, x, type) = written
    ELSE Answer(m, x, type) \in {Overflow, Answer(e, x, integers)}

\* Moving a constant leaves nothing to move.
MovesSettle(e, type) == e.op # "between" => MovedOnce(Settled(e, type), type).op = "left"
=============================================================================
