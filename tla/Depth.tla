--------------------------------- MODULE Depth ---------------------------------
(***************************************************************************)
(* depth.rs: a statement whose plan would recurse too deep is refused, as  *)
(* a stack overflow is not a panic that anything catches.  Its set         *)
(* operations are counted before it is parsed, then its tree is walked on  *)
(* the heap: `work` is what is still to be walked, the last first, and     *)
(* `groups` counts the nodes of each root expression.                      *)
(***************************************************************************)
EXTENDS SequencesExt, FiniteSetsExt, Integers

CONSTANTS
  MaxExprDepth,  \* expressions on a path of them
  MaxTerms,      \* nodes of one root expression
  MaxSetDepth,   \* nested queries, set operations
  Statements     \* the statements that are put

ASSUME DepthAssumption == {MaxExprDepth, MaxTerms, MaxSetDepth} \subseteq Nat

VARIABLE walk  \* the statement, what is left of its walk and what came of it

-----------------------------------------------------------------------------
\* The tree, as the parser hands it over.  An expression has operands, a subscript's or
\* a call's own parts, and the queries it reads.
X == [k |-> "leaf", in |-> <<>>, subs |-> <<>>, filter |-> <<>>, order |-> <<>>, limit |-> <<>>, over |-> <<>>, q |-> <<>>]
Key(x, fill) == [x |-> x, fill |-> fill]
WindowOf(parts, keys, frame) == [parts |-> parts, order |-> keys, frame |-> frame]
Factor == [t |-> <<>>, x |-> <<>>, order |-> <<>>, q |-> <<>>]
JoinedTo(f, joins) == [f |-> f, joins |-> joins]
SelectSet == [k |-> "select", x |-> <<>>, from |-> <<>>, tests |-> <<>>, sorts |-> <<>>, windows |-> <<>>]
SetOf(op, l, r) == [k |-> "op", op |-> op, sides |-> <<l, r>>]
InParens(q) == [k |-> "query", q |-> q]
ValuesOf(xs) == [k |-> "values", x |-> xs]
Pipe == [k |-> "pipe", x |-> <<>>, order |-> <<>>, joins |-> <<>>, q |-> <<>>, call |-> <<>>]
TreeOf(set) == [with |-> <<>>, body |-> set, order |-> <<>>, x |-> <<>>, pipes |-> <<>>]
Stmt == [k |-> "query", q |-> <<>>, s |-> <<>>, t |-> <<>>, x |-> <<>>, order |-> <<>>]

\* Operands share the root of what they are operands of.
SubscriptsOf(x) == FlattenSeq(x.subs)
OperandsOf(x) == x.in \o SubscriptsOf(x) \o x.filter
\* A key of an order, and what it is filled with, are roots of their own, and so are a
\* window's keys and bounds.
OrderRoots(keys) == FlattenSeq([i \in DOMAIN keys |-> <<keys[i].x>> \o keys[i].fill])
WindowRoots(ws) == FlattenSeq([i \in DOMAIN ws |-> ws[i].parts \o OrderRoots(ws[i].order) \o ws[i].frame])
RootsOfCall(x) == OrderRoots(x.order) \o x.limit \o WindowRoots(x.over)

-----------------------------------------------------------------------------
ExprWork(x, depth, group, nest) == [k |-> "expr", x |-> x, depth |-> depth, group |-> group, nest |-> nest]
QueryWork(q, depth, nest) == [k |-> "query", x |-> q, depth |-> depth, group |-> 0, nest |-> nest]
SetWork(set, depth, at, nest) == [k |-> "set", x |-> set, depth |-> depth, group |-> at, nest |-> nest]
StmtWork(s, depth, nest) == [k |-> "stmt", x |-> s, depth |-> depth, group |-> 0, nest |-> nest]

Roots(w, xs, depth, nest) ==
  [w EXCEPT !.work = @ \o [i \in DOMAIN xs |-> ExprWork(xs[i], depth, Len(w.groups) + i, nest)],
            !.groups = @ \o [i \in DOMAIN xs |-> 0]]
Children(w, xs, depth, group, nest) ==
  [w EXCEPT !.work = @ \o [i \in DOMAIN xs |-> ExprWork(xs[i], depth, group, nest)]]
QueriesAt(w, qs, depth, nest) == [w EXCEPT !.work = @ \o [i \in DOMAIN qs |-> QueryWork(qs[i], depth, nest)]]
SetAt(w, set, at, depth, nest) == [w EXCEPT !.work = Append(@, SetWork(set, depth, at, nest))]

\* An expression's parts, a level deeper; a query it reads goes on from its depth.
ExprPartsAfresh(w, x, depth, group, nest) ==
  Roots(Children(QueriesAt(w, x.q, 0, nest + 1), OperandsOf(x), depth + 1, group, nest), RootsOfCall(x), depth + 1, nest)
ExprParts(w, x, depth, group, nest) ==
  Roots(Children(QueriesAt(w, x.q, depth, nest + 1), OperandsOf(x), depth + 1, group, nest),
        RootsOfCall(x), depth + 1, nest)

RECURSIVE FactorParts(_, _, _, _), FactorsOf(_, _, _, _), JoinParts(_, _, _, _)
FactorsOf(w, fs, root, nest) ==
  IF fs = <<>> THEN w ELSE FactorsOf(JoinParts(FactorParts(w, Head(fs).f, root, nest), Head(fs).joins, root, nest), Tail(fs), root, nest)
JoinParts(w, joins, root, nest) ==
  IF joins = <<>> THEN w
  ELSE JoinParts(Roots(FactorParts(w, Head(joins).f, root, nest), Head(joins).on, root, nest), Tail(joins), root, nest)
\* A table's arguments, a derived table's query, what is pivoted and by what.
FactorParts(w, f, root, nest) ==
  QueriesAt(Roots(FactorsOf(w, f.t, root, nest), f.x \o OrderRoots(f.order), root, nest), f.q, root - 1, nest + 1)

SelectParts(w, s, root, nest) ==
  Roots(FactorsOf(Roots(w, s.x, root, nest), s.from, root, nest),
        s.tests \o OrderRoots(s.sorts) \o WindowRoots(s.windows), root, nest)

PipeCall(w, calls, depth, nest) ==
  IF calls = <<>> THEN w
  ELSE ExprParts([w EXCEPT !.groups = Append(@, 0)], calls[1], depth, Len(w.groups) + 1, nest)
PipeParts(w, p, depth, nest) ==
  PipeCall(QueriesAt(JoinParts(Roots(w, p.x \o OrderRoots(p.order), depth + 1, nest), p.joins, depth + 1, nest), p.q, depth, nest + 1),
           p.call, depth, nest)
RECURSIVE PipesParts(_, _, _, _)
PipesParts(w, pipes, depth, nest) ==
  IF pipes = <<>> THEN w ELSE PipesParts(PipeParts(w, Head(pipes), depth, nest), Tail(pipes), depth, nest)

QueryParts(w, q, depth, nest) ==
  PipesParts(Roots(SetAt(QueriesAt(w, q.with, depth, nest + 1), q.body, 1, depth, nest),
                   OrderRoots(q.order) \o q.x, depth + 1, nest),
             q.pipes, depth, nest)

\* Of a statement that writes, its source; of a kind that is not planned, nothing.
StatementParts(w, s, depth, nest) ==
  CASE s.k = "query" -> QueriesAt(w, s.q, depth, nest)
    [] s.k = "explain" -> [w EXCEPT !.work = Append(@, StmtWork(s.s[1], depth, nest))]
    [] s.k \in {"insert", "create"} -> Roots(QueriesAt(w, s.q, depth, nest + 1), s.x, depth + 1, nest)
    [] s.k \in {"update", "delete"} ->
         Roots(FactorsOf(w, s.t, depth + 1, nest), s.x \o OrderRoots(s.order), depth + 1, nest)
    [] OTHER -> w

SetParts(w, set, at, depth, nest) ==
  CASE set.k = "select" -> SelectParts(w, set, depth + 1, nest)
    [] set.k = "query" -> QueriesAt(w, <<set.q>>, depth, nest + 1)
    [] set.k = "op" -> SetAt(SetAt(w, set.sides[1], at + 1, depth, nest), set.sides[2], at + 1, depth, nest)
    [] set.k = "values" -> Roots(w, set.x, depth + 1, nest)
    [] set.k = "stmt" -> [w EXCEPT !.work = Append(@, StmtWork(set.s, depth, nest))]

-----------------------------------------------------------------------------
\* The keywords of the text: a MINUS is not one of them.
RECURSIVE SetOps(_), SetOpsIn(_), SetOpsInX(_), SetOpsInT(_), SetOpsInQ(_)
Total(ns) == FoldSeq(LAMBDA n, sum : n + sum, 0, ns)
SetOps(set) ==
  CASE set.k = "op" -> (IF set.op = "minus" THEN 0 ELSE 1) + Total([i \in {1, 2} |-> SetOps(set.sides[i])])
    [] set.k = "query" -> SetOpsInQ(set.q)
    [] set.k = "stmt" -> SetOpsIn(set.s)
    [] set.k = "values" -> SetOpsInX(set.x)
    [] OTHER -> SetOpsInX(set.x \o set.tests \o OrderRoots(set.sorts) \o WindowRoots(set.windows)) + SetOpsInT(set.from)
SetOpsInX(xs) ==
  Total([i \in DOMAIN xs |-> SetOpsInX(OperandsOf(xs[i]) \o RootsOfCall(xs[i])) + Total([j \in DOMAIN xs[i].q |-> SetOpsInQ(xs[i].q[j])])])
SetOpsInT(ts) ==
  LET fs == FlattenSeq([i \in DOMAIN ts |-> <<ts[i].f>> \o [j \in DOMAIN ts[i].joins |-> ts[i].joins[j].f]])
      ons == FlattenSeq([i \in DOMAIN ts |-> FlattenSeq([j \in DOMAIN ts[i].joins |-> ts[i].joins[j].on])])
  IN SetOpsInX(ons) + Total([i \in DOMAIN fs |-> SetOpsInX(fs[i].x \o OrderRoots(fs[i].order)) + SetOpsInT(fs[i].t)
                                                  + Total([j \in DOMAIN fs[i].q |-> SetOpsInQ(fs[i].q[j])])])
SetOpsInQ(q) ==
  SetOps(q.body) + SetOpsInX(q.x \o OrderRoots(q.order)) + Total([i \in DOMAIN q.with |-> SetOpsInQ(q.with[i])])
    + Total([i \in DOMAIN q.pipes |->
               SetOpsInX(q.pipes[i].x \o OrderRoots(q.pipes[i].order) \o q.pipes[i].call) + Len(q.pipes[i].q)
                 + Total([j \in DOMAIN q.pipes[i].q |-> SetOpsInQ(q.pipes[i].q[j])])
                 + SetOpsInT(IF q.pipes[i].joins = <<>> THEN <<>> ELSE <<JoinedTo(Factor, q.pipes[i].joins)>>)])
SetOpsIn(s) ==
  SetOpsInX(s.x \o OrderRoots(s.order)) + SetOpsInT(s.t) + Total([i \in DOMAIN s.q |-> SetOpsInQ(s.q[i])])
    + Total([i \in DOMAIN s.s |-> SetOpsIn(s.s[i])])

-----------------------------------------------------------------------------
InitWalk == \E s \in Statements : walk = [stmt |-> s, said |-> "put", work |-> <<>>, groups |-> <<>>]

Say(verdict) == walk' = [walk EXCEPT !.said = verdict, !.work = <<>>, !.groups = <<>>]
RefuseTokens ==
  /\ walk.said = "put" /\ SetOpsIn(walk.stmt) > MaxSetDepth
  /\ Say("too nested")
StartWalk ==
  /\ walk.said = "put" /\ SetOpsIn(walk.stmt) <= MaxSetDepth
  /\ walk' = [walk EXCEPT !.said = "walking", !.work = <<StmtWork(walk.stmt, 0, 0)>>]

Walking == walk.said = "walking" /\ walk.work # <<>>
Next1 == Last(walk.work)
Rest == [walk EXCEPT !.work = Front(@)]
Atleast1(nest) == Max({nest, 1})
WalkStatement ==
  /\ Walking /\ Next1.k = "stmt"
  /\ walk' = StatementParts(Rest, Next1.x, Next1.depth, Atleast1(Next1.nest))
WalkQuery ==
  /\ Walking /\ Next1.k = "query"
  /\ IF Next1.nest > MaxSetDepth THEN Say("too nested")
     ELSE walk' = QueryParts(Rest, Next1.x, Next1.depth, Next1.nest)
WalkSet ==
  /\ Walking /\ Next1.k = "set"
  /\ IF Next1.x.k = "op" /\ Next1.group > MaxSetDepth THEN Say("too nested")
     ELSE walk' = SetParts(Rest, Next1.x, Next1.group, Next1.depth, Next1.nest)
Counted(w, group) == [w EXCEPT !.groups[group] = @ + 1]
WalkExpr ==
  /\ Walking /\ Next1.k = "expr"
  /\ IF Next1.depth > MaxExprDepth THEN Say("too deep")
     ELSE IF walk.groups[Next1.group] + 1 > MaxTerms THEN Say("too wide")
     ELSE walk' = ExprParts(Counted(Rest, Next1.group), Next1.x, Next1.depth, Next1.group, Next1.nest)
Pass ==
  /\ walk.said = "walking" /\ walk.work = <<>>
  /\ Say("passed")
NextWalk == RefuseTokens \/ StartWalk \/ WalkStatement \/ WalkQuery \/ WalkSet \/ WalkExpr \/ Pass
-----------------------------------------------------------------------------
(* From the leaves up: what a path through the whole tree holds.           *)
Highest(ns) == Max({0} \cup ns)
KeyXs(keys) == UNION {{keys[i].x} \cup ToSet(keys[i].fill) : i \in DOMAIN keys}
WindowXs(ws) == UNION {ToSet(ws[i].parts) \cup KeyXs(ws[i].order) \cup ToSet(ws[i].frame) : i \in DOMAIN ws}
BelowX(x) ==
  ToSet(x.in) \cup UNION {ToSet(x.subs[i]) : i \in DOMAIN x.subs} \cup ToSet(x.filter) \cup KeyXs(x.order)
    \cup ToSet(x.limit) \cup WindowXs(x.over)
RECURSIVE TableXs(_), TableQs(_), SetXs(_), SetQs(_), Leaves(_)
FactorsIn(ts) == {ts[i].f : i \in DOMAIN ts} \cup UNION {{ts[i].joins[j].f : j \in DOMAIN ts[i].joins} : i \in DOMAIN ts}
OnXs(ts) == UNION {UNION {ToSet(ts[i].joins[j].on) : j \in DOMAIN ts[i].joins} : i \in DOMAIN ts}
TableXs(ts) == OnXs(ts) \cup UNION {ToSet(f.x) \cup KeyXs(f.order) \cup TableXs(f.t) : f \in FactorsIn(ts)}
TableQs(ts) == UNION {ToSet(f.q) \cup TableQs(f.t) : f \in FactorsIn(ts)}
Leaves(set) == IF set.k = "op" THEN Leaves(set.sides[1]) \cup Leaves(set.sides[2]) ELSE {set}
PipeTables(p) == IF p.joins = <<>> THEN <<>> ELSE <<JoinedTo(Factor, p.joins)>>
LeafXs(s) ==
  CASE s.k = "select" -> ToSet(s.x) \cup TableXs(s.from) \cup ToSet(s.tests) \cup KeyXs(s.sorts) \cup WindowXs(s.windows)
    [] s.k = "values" -> ToSet(s.x)
    [] s.k = "stmt" -> ToSet(s.s.x) \cup KeyXs(s.s.order) \cup TableXs(s.s.t)
    [] OTHER -> {}
LeafQs(s) ==
  CASE s.k = "select" -> TableQs(s.from)
    [] s.k = "query" -> {s.q}
    [] s.k = "stmt" -> ToSet(s.s.q) \cup TableQs(s.s.t)
    [] OTHER -> {}
SetXs(set) == UNION {LeafXs(s) : s \in Leaves(set)}
SetQs(set) == UNION {LeafQs(s) : s \in Leaves(set)}
PipeXs(p) == ToSet(p.x) \cup KeyXs(p.order) \cup TableXs(PipeTables(p)) \cup UNION {BelowX(c) : c \in ToSet(p.call)}
PipeQs(p) == ToSet(p.q) \cup TableQs(PipeTables(p)) \cup UNION {ToSet(c.q) : c \in ToSet(p.call)}
QueryXs(q) == SetXs(q.body) \cup KeyXs(q.order) \cup ToSet(q.x) \cup UNION {PipeXs(q.pipes[i]) : i \in DOMAIN q.pipes}
QueryQs(q) == ToSet(q.with) \cup SetQs(q.body) \cup UNION {PipeQs(q.pipes[i]) : i \in DOMAIN q.pipes}
RECURSIVE HeightX(_), HeightQ(_), NestX(_), NestQ(_), SetHeight(_), TermsX(_), StackX(_), StackQ(_), StackSet(_), AllX(_), AllQ(_), XsInQ(_)
HeightX(x) == 1 + Highest({HeightX(y) : y \in BelowX(x)} \cup {HeightQ(q) : q \in ToSet(x.q)})
HeightQ(q) == Highest({HeightX(x) : x \in QueryXs(q)} \cup {HeightQ(r) : r \in QueryQs(q)})
NestX(x) == Highest({NestX(y) : y \in BelowX(x)} \cup {NestQ(q) : q \in ToSet(x.q)})
NestQ(q) == 1 + Highest({NestX(x) : x \in QueryXs(q)} \cup {NestQ(r) : r \in QueryQs(q)})
SetHeight(set) == IF set.k = "op" THEN 1 + Highest({SetHeight(set.sides[1]), SetHeight(set.sides[2])}) ELSE 0
TermsX(x) == 1 + Total([i \in DOMAIN OperandsOf(x) |-> TermsX(OperandsOf(x)[i])])
StackX(x) == 1 + Highest({StackX(y) : y \in BelowX(x)} \cup {StackQ(q) : q \in ToSet(x.q)})
StackSet(set) ==
  IF set.k = "op" THEN 1 + Highest({StackSet(set.sides[1]), StackSet(set.sides[2])})
  ELSE Highest({StackX(x) : x \in LeafXs(set)} \cup {StackQ(q) : q \in LeafQs(set)})
StackQ(q) == 1 + Highest({StackSet(q.body)} \cup {StackX(x) : x \in QueryXs(q)} \cup {StackQ(r) : r \in QueryQs(q)})
\* All expressions and all queries of a statement.
AllX(x) == {x} \cup UNION {AllX(y) : y \in BelowX(x)} \cup UNION {XsInQ(q) : q \in ToSet(x.q)}
XsInQ(q) == UNION {AllX(x) : x \in QueryXs(q)} \cup UNION {XsInQ(r) : r \in QueryQs(q)}
AllQ(q) == {q} \cup UNION {AllQ(r) : r \in QueryQs(q)} \cup UNION {UNION {AllQ(r) : r \in ToSet(x.q)} : x \in XsInQ(q)}
RECURSIVE PlannedOf(_)
PlannedOf(s) == IF s.k = "explain" THEN PlannedOf(s.s[1]) ELSE s
StmtXs(s) == ToSet(s.x) \cup KeyXs(s.order) \cup TableXs(s.t)
StmtQs(s) == ToSet(s.q) \cup TableQs(s.t)
EveryX(s) == UNION {AllX(x) : x \in StmtXs(s)} \cup UNION {XsInQ(q) : q \in StmtQs(s)}
EveryQ(s) == UNION {AllQ(q) : q \in StmtQs(s)} \cup UNION {UNION {AllQ(q) : q \in ToSet(x.q)} : x \in EveryX(s)}
Height(s) == Highest({HeightX(x) : x \in StmtXs(s)} \cup {HeightQ(q) : q \in StmtQs(s)})
NestOf(s) == (IF s.k = "query" THEN 0 ELSE 1) + Highest({NestX(x) : x \in StmtXs(s)} \cup {NestQ(q) : q \in StmtQs(s)})
Stack(s) == Highest({StackX(x) : x \in StmtXs(s)} \cup {StackQ(q) : q \in StmtQs(s)})

Broken(s) ==
  (IF Height(s) > MaxExprDepth THEN {"too deep"} ELSE {})
    \cup (IF \E x \in EveryX(s) : TermsX(x) > MaxTerms THEN {"too wide"} ELSE {})
    \cup (IF NestOf(s) > MaxSetDepth \/ SetOpsIn(s) > MaxSetDepth \/ \E q \in EveryQ(s) : SetHeight(q.body) > MaxSetDepth
           THEN {"too nested"} ELSE {})
WithoutMinus(s) == \A q \in EveryQ(s) : q.body.k = "op" => q.body.op # "minus"
IsPlanned(s) == PlannedOf(s).k # "other"

\* What the walk passes is within each bound on every path of the tree, whichever of
\* its parts the path goes through, and what it refuses is beyond the bound it names.
Decided ==
  /\ walk.said = "passed" /\ IsPlanned(walk.stmt) => Broken(PlannedOf(walk.stmt)) = {}
  /\ walk.said \in {"too deep", "too wide", "too nested"} => walk.said \in Broken(PlannedOf(walk.stmt))
\* Expressions, queries and set operations nest in each other, and what the planner
\* recurses through is bounded all the same.
StackKnown ==
  walk.said = "passed" /\ IsPlanned(walk.stmt) /\ WithoutMinus(PlannedOf(walk.stmt)) =>
    Stack(PlannedOf(walk.stmt)) <= MaxExprDepth + 2 * MaxSetDepth

(* A statement that is planned recurses no deeper than the stack it is      *)
(* planned on is sized for, and none is refused that would not.             *)
BoundsKept == Decided /\ StackKnown
=============================================================================
