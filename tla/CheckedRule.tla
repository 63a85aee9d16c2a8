------------------------------ MODULE CheckedRule ------------------------------
(***************************************************************************)
(* rule.rs: arithmetic that refuses on overflow, and the taint of a        *)
(* TRY_CAST.  A value that does not fit becomes NULL, and an aggregate     *)
(* then drops its row without a word; so every column that derives from    *)
(* such a cast is tainted, a sum of a HUGEINT reads the cast's source, any *)
(* other aggregate refuses at the first row that would be dropped, and one *)
(* whose source cannot be traced is refused as a plan.                     *)
(***************************************************************************)
EXTENDS Plans

CONSTANTS
  SumCases,      \* statements, in DuckDB's terms
  SumDataOf(_)   \* contents of the tables one reads

VARIABLE summed

OfThose(pred, x) == [x EXCEPT !.k = <<pred>>]  \* an aggregate with a FILTER

RefusedPlan == [P EXCEPT !.op = "refused"]
RefusedX == Fn("refused", <<>>)
RECURSIVE RefusesX(_), Refuses(_)
RefusesX(x) ==
  x = RefusedX \/ (\E i \in DOMAIN x.a : RefusesX(x.a[i])) \/ \E i \in DOMAIN x.s : Refuses(x.s[i])
NodeXs(p) == {p.xs[i].x : i \in DOMAIN p.xs} \cup {p.keys[i].x : i \in DOMAIN p.keys} \cup {p.pred}
Refuses(p) ==
  p.op = "refused" \/ (\E i \in DOMAIN p.in : Refuses(p.in[i])) \/ \E x \in NodeXs(p) : RefusesX(x)

-----------------------------------------------------------------------------
(* dialect.rs: a HUGEINT is a DECIMAL(38, 0) that keeps its source, and    *)
(* its NULL test is answered for the whole of i128.  What is left is       *)
(* DataFusion's own arithmetic, which wraps.                               *)
Huge(x) == x.e = "fn" /\ x.f = "try_huge"
Wrapping == [add_int |-> "wrap_add", add_dec |-> "wrap_add", add_float |-> "wrap_add",
             neg_int |-> "wrap_neg", neg_dec |-> "wrap_neg", neg |-> "wrap_neg"]

RECURSIVE ParsedX(_), ParsedPlan(_)
ParsedInto(x, a) ==
  CASE x.e = "fn" /\ x.f = "is not null" /\ Huge(x.a[1]) -> Fn("fits_huge", a[1].a[1].a)
    [] Huge(x) -> Fn("try_dec", <<Fn("huge_source", a)>>)
    [] x.e = "fn" /\ x.f \in DOMAIN Wrapping -> Fn(Wrapping[x.f], a)
    [] x.e \in {"agg", "win"} /\ x.f = "sum" -> [x EXCEPT !.f = "wrap_sum", !.a = a]
    [] OTHER -> [x EXCEPT !.a = a, !.s = [i \in DOMAIN x.s |-> ParsedPlan(x.s[i])]]
ParsedX(x) == ParsedInto(x, [i \in DOMAIN x.a |-> ParsedX(x.a[i])])
ParsedPlan(p) ==
  [p EXCEPT !.in = [i \in DOMAIN p.in |-> ParsedPlan(p.in[i])],
            !.xs = [i \in DOMAIN p.xs |-> [p.xs[i] EXCEPT !.x = ParsedX(p.xs[i].x)]],
            !.pred = ParsedX(p.pred)]

-----------------------------------------------------------------------------
\* Types, as far as the rule asks: int, dec, float, text, or another.
Exact == {"int", "dec"}
CastType == [try_dec |-> "dec", try_int |-> "int"]
Kept == {"coalesce", "guard", "wrap_neg"}

Wider(ts) == IF "float" \in ts THEN "float" ELSE IF ts = {"int"} THEN "int" ELSE IF ts \subseteq Exact THEN "dec" ELSE "other"

RECURSIVE TypeOf(_, _, _), TypesOf(_)
TypeOf(x, schema, types) ==
  CASE x.e = "col" -> types[IndexOf(x.c, schema)]
    [] x.e = "lit" -> "int"
    [] x.e = "sub" -> TypesOf(x.s[1])[1]
    [] x.f \in {"count", "row_number", "hash", "add_int", "neg_int"} -> "int"
    [] x.f \in {"wrap_sum", "checked_sum", "product", "add_dec", "neg_dec", "widen"} -> "dec"
    [] x.f \in DOMAIN CastType -> CastType[x.f]
    [] x.f = "wrap_add" -> Wider({TypeOf(x.a[i], schema, types) : i \in DOMAIN x.a})
    [] x.e \in {"agg", "win"} \/ x.f \in Kept -> TypeOf(x.a[1], schema, types)
    [] OTHER -> "other"

TypesIn(xs, schema, types) == [i \in DOMAIN xs |-> TypeOf(xs[i].x, schema, types)]
TypesOf(p) ==
  CASE p.op = "scan" -> [i \in DOMAIN p.cols |-> p.types[p.cols[i][2]].kind]
    [] p.op = "project" -> TypesIn(p.xs, Schema(p.in[1]), TypesOf(p.in[1]))
    [] p.op = "group" -> TypesIn(p.keys \o p.xs, Schema(p.in[1]), TypesOf(p.in[1]))
    [] p.op = "window" -> TypesOf(p.in[1]) \o TypesIn(p.xs, Schema(p.in[1]), TypesOf(p.in[1]))
    [] p.op = "join" /\ p.t \in OfOneLeft -> TypesOf(p.in[1])
    [] p.op = "join" /\ p.t \in OfOneRight -> TypesOf(p.in[2])
    [] p.op = "join" -> TypesOf(p.in[1]) \o TypesOf(p.in[2])
    [] p.op = "ref" -> p.types
    [] p.op = "defs" -> TypesOf(Last(p.in))
    [] p.op \in {"one", "refused"} -> <<>>
    [] OTHER -> TypesOf(p.in[1])

\* What the expressions of a node are over.
OverSchema(p) == InTurn([i \in DOMAIN p.in |-> Schema(p.in[i])])
OverTypes(p) == InTurn([i \in DOMAIN p.in |-> TypesOf(p.in[i])])

-----------------------------------------------------------------------------
\* Does an expression carry the value of a TRY_CAST, or of a tainted column?
RECURSIVE ExprLossy(_, _, _)
ExprLossy(x, schema, taint) ==
  CASE x.e = "fn" /\ x.f \in DOMAIN CastType -> TRUE
    [] x.e = "col" -> taint[IndexOf(x.c, schema)]
    [] x.e = "fn" /\ x.f = "is not null" -> FALSE
    [] OTHER -> \E i \in DOMAIN x.a : ExprLossy(x.a[i], schema, taint)

ThroughXs(xs, schema, taint) == [i \in DOMAIN xs |-> ExprLossy(xs[i].x, schema, taint)]
CleanOf(xs) == [i \in DOMAIN xs |-> FALSE]
OfTheFirst(taints, n) == taints[1]

AnyOf(taints, n) == [c \in 1..n |-> \E i \in DOMAIN taints : taints[i][c]]

\* lossy_in: a column of a plan; work is the taint of a recursion's work table.
RECURSIVE Lossy(_, _), Rounds(_, _, _)
Unchanging(p, work, t, next) == IF next = t THEN t ELSE Rounds(p, work, next)
Rounds(p, work, t) == Unchanging(p, work, t, AnyOf(<<t, Lossy(p.in[2], (p.t :> t) @@ work)>>, Len(t)))

Lossy(p, work) ==
  CASE p.op = "scan" -> IF p.t \in DOMAIN work THEN work[p.t] ELSE CleanOf(p.cols)
    [] p.op \in {"one", "fold"} -> CleanOf(Schema(p))
    [] p.op = "project" -> ThroughXs(p.xs, Schema(p.in[1]), Lossy(p.in[1], work))
    [] p.op = "group" -> ThroughXs(p.keys, Schema(p.in[1]), Lossy(p.in[1], work)) \o CleanOf(p.xs)
    [] p.op = "window" -> Lossy(p.in[1], work) \o CleanOf(p.xs)
    [] p.op \in {"alias", "filter", "sort", "limit", "unique", "lateral"} -> Lossy(p.in[1], work)
    [] p.op = "join" -> (IF p.t \in OfOneRight THEN <<>> ELSE Lossy(p.in[1], work))
                          \o (IF p.t \in OfOneLeft THEN <<>> ELSE Lossy(p.in[2], work))
    [] p.op = "union" -> AnyOf([i \in DOMAIN p.in |-> Lossy(p.in[i], work)], Len(Schema(p)))
    [] p.op = "recursive" -> Rounds(p, work, Lossy(p.in[1], work))
    [] OTHER -> [i \in DOMAIN Schema(p) |-> TRUE]

NoWork == [t \in {} |-> <<>>]
LossyOf(p) == Lossy(p, NoWork)

-----------------------------------------------------------------------------
(* The exact value behind a cast, or behind its negation: as wide as it    *)
(* takes, and NULL for what is no number.  Alike where it is NULL exactly  *)
(* where the cast is, which the source of a HUGEINT is.                    *)
Nothing == <<>>
Negates(x) == x.e = "fn" /\ x.f \in {"neg_int", "neg_dec"}
Inner(x) == IF Negates(x) THEN x.a[1] ELSE x
Casts(x) == x.e = "fn" /\ x.f \in DOMAIN CastType
Signing(neg, x) == IF neg THEN Fn("exact_neg", <<x>>) ELSE x

WideFrom(source, target, neg, schema, types, taint) ==
  IF ExprLossy(source, schema, taint) \/ target \notin Exact THEN Nothing
  ELSE IF source.e = "fn" /\ source.f = "huge_source"
  THEN <<[x |-> Signing(neg, Fn("exact_huge", source.a)), type |-> target, alike |-> TRUE]>>
  ELSE IF TypeOf(source, schema, types) \notin Exact \cup {"text"} THEN Nothing
  ELSE <<[x |-> Signing(neg, Fn("exact", <<source>>)), type |-> target, alike |-> FALSE]>>
WideOf(x, schema, types, taint) ==
  IF Casts(Inner(x)) THEN WideFrom(Inner(x).a[1], CastType[Inner(x).f], Negates(x), schema, types, taint)
  ELSE WideFrom(Inner(x), TypeOf(Inner(x), schema, types), Negates(x), schema, types, taint)
WideIn(x, p) == WideOf(x, Schema(p), TypesOf(p), LossyOf(p))

\* A plan that also outputs, under a name, the exact value behind its column i:
\* found where the column is passed on, down to the projections that cast it.
Exposed(plan, c, type, alike) == <<[plan |-> plan, col |-> c, type |-> type, alike |-> alike]>>
Beneath(p, j, below) ==
  IF below = Nothing THEN Nothing ELSE <<[below[1] EXCEPT !.plan = [p EXCEPT !.in[j] = below[1].plan]]>>
Renaming(p, name, below) ==
  IF below = Nothing THEN Nothing
  ELSE Exposed(Alias(p.t, below[1].plan), <<p.t, name>>, below[1].type, below[1].alike)
Output(p, plan, name, x, type, alike) ==
  Exposed(Project(Append(p.xs, Named(<<"", name>>, x)), plan), <<"", name>>, type, alike)
PassedOn(p, name, neg, below) ==
  IF below = Nothing THEN Nothing
  ELSE Output(p, below[1].plan, name, Signing(neg, Col(below[1].col)), below[1].type, below[1].alike)
CastHere(p, name, wide) ==
  IF wide = Nothing THEN Nothing ELSE Output(p, p.in[1], name, wide[1].x, wide[1].type, wide[1].alike)
OfEachArm(name, arms) ==
  IF Nothing \in ToSet(arms) \/ \E j \in DOMAIN arms : arms[j][1].type # arms[1][1].type THEN Nothing
  ELSE Exposed(Union([j \in DOMAIN arms |-> arms[j][1].plan]), <<"", name>>, arms[1][1].type,
               \A j \in DOMAIN arms : arms[j][1].alike)

RECURSIVE Expose(_, _, _)
Expose(p, i, name) ==
  CASE p.op = "project" /\ Inner(p.xs[i].x).e = "col" ->
         PassedOn(p, name, Negates(p.xs[i].x),
                  Expose(p.in[1], IndexOf(Inner(p.xs[i].x).c, Schema(p.in[1])), name))
    [] p.op = "project" /\ Inner(p.xs[i].x).e # "col" -> CastHere(p, name, WideIn(p.xs[i].x, p.in[1]))
    [] p.op = "alias" -> Renaming(p, name, Expose(p.in[1], i, name))
    [] p.op = "union" -> OfEachArm(name, [j \in DOMAIN p.in |-> Expose(p.in[j], i, name)])
    [] p.op \in {"filter", "sort", "limit"} -> Beneath(p, 1, Expose(p.in[1], i, name))
    [] p.op = "join" /\ p.t \in OfOneLeft \cup OfOneRight -> Nothing
    [] p.op = "join" /\ i <= Len(Schema(p.in[1])) -> Beneath(p, 1, Expose(p.in[1], i, name))
    [] p.op = "join" /\ i > Len(Schema(p.in[1])) ->
         Beneath(p, 2, Expose(p.in[2], i - Len(Schema(p.in[1])), name))
    [] OTHER -> Nothing

\* Named like no column there is.
FreshNames == <<"exact 1", "exact 2", "exact 3">>
Fresh(p) == FreshNames[1 + Cardinality({c \in ToSet(Schema(p)) : c[2] \in ToSet(FreshNames)})]
ExposeColumn(p, c) == Expose(p, IndexOf(c, Schema(p)), Fresh(p))

-----------------------------------------------------------------------------
\* Refuses at a row whose cast dropped a value: against the cast's own source, or
\* against the source of a tainted column.
RECURSIVE TaintedIn(_, _, _), GuardedX(_, _)
TaintedIn(x, schema, taint) ==
  IF x.e = "col" THEN IF taint[IndexOf(x.c, schema)] THEN {x.c} ELSE {}
  ELSE UNION {TaintedIn(x.a[i], schema, taint) : i \in DOMAIN x.a}

AddSource(p, of, c, found) ==
  IF found = Nothing THEN Nothing ELSE <<[plan |-> found[1].plan, of |-> (c :> found[1].col) @@ of]>>
SourcesOf(p, cs) ==
  FoldLeft(LAMBDA g, c : IF g = Nothing THEN Nothing ELSE AddSource(g[1].plan, g[1].of, c, ExposeColumn(g[1].plan, c)),
           <<[plan |-> p, of |-> [c \in {} |-> c]]>>, SetToSeq(cs))

GuardedBy(x, of) ==
  IF Casts(x) THEN Fn("guard", <<x, x.a[1]>>)
  ELSE IF x.e = "col" /\ x.c \in DOMAIN of THEN Fn("guard", <<x, Col(of[x.c])>>) ELSE x
GuardedX(x, of) == GuardedBy([x EXCEPT !.a = [i \in DOMAIN x.a |-> GuardedX(x.a[i], of)]], of)

IsSumOf(x) == x.f = "wrap_sum"
Summing(x, p) ==
  IF IsSumOf(x) /\ TypeOf(x.a[1], Schema(p), TypesOf(p)) \in Exact THEN [x EXCEPT !.f = "checked_sum"] ELSE x
WithAggregate(g, p, n, x) == [g EXCEPT !.in = <<p>>, !.xs = Append(@, Named(n, Summing(x, p)))]

Guarded(g, nx, sources) ==
  IF sources = Nothing THEN RefusedPlan
  ELSE WithAggregate(g, sources[1].plan, nx.n, [nx.x EXCEPT !.a = <<GuardedX(@[1], sources[1].of)>>])
GuardedAggregate(g, nx) ==
  Guarded(g, nx, SourcesOf(g.in[1], TaintedIn(nx.x.a[1], Schema(g.in[1]), LossyOf(g.in[1]))))

\* exact_source: of a plain cast, or of a column that is one.
AsColumn(found) ==
  IF found = Nothing THEN Nothing
  ELSE <<[plan |-> found[1].plan, x |-> Col(found[1].col), alike |-> found[1].alike]>>
AsWide(p, wide) == IF wide = Nothing THEN Nothing ELSE <<[plan |-> p, x |-> wide[1].x, alike |-> wide[1].alike]>>
ExactSource(p, x) == IF x.e = "col" THEN AsColumn(ExposeColumn(p, x.c)) ELSE AsWide(p, WideIn(x, p))

\* A sum reads the source where that is NULL as the cast is, and else the cast.
SummedFrom(g, nx, source) ==
  IF source = Nothing THEN GuardedAggregate(g, nx)
  ELSE IF source[1].alike
  THEN [g EXCEPT !.in = <<source[1].plan>>,
                 !.xs = Append(@, Named(nx.n, [nx.x EXCEPT !.f = "checked_sum", !.a = <<source[1].x>>]))]
  ELSE WithAggregate(g, g.in[1], nx.n, nx.x)

IsLossy(x, p) == ExprLossy(x, Schema(p), LossyOf(p))
AggregateOver(g, nx) ==
  IF g.op = "refused" THEN g
  ELSE IF (nx.x.k # <<>> /\ IsLossy(nx.x.k[1], g.in[1])) \/ (IsSumOf(nx.x) /\ nx.x.d) THEN RefusedPlan
  ELSE IF ~IsLossy(nx.x.a[1], g.in[1]) THEN WithAggregate(g, g.in[1], nx.n, nx.x)
  ELSE IF IsSumOf(nx.x) THEN SummedFrom(g, nx, ExactSource(g.in[1], nx.x.a[1]))
  ELSE GuardedAggregate(g, nx)
CheckedAggregate(p) == FoldLeft(AggregateOver, [p EXCEPT !.xs = <<>>], p.xs)

\* A window that aggregates what is tainted has no guard.
Aggregates == {"count", "max", "min", "checked_sum", "last_non_null", "wrap_sum"}
CheckedWindow(p) ==
  IF \E i \in DOMAIN p.xs : LET x == p.xs[i].x IN
       x.f \in Aggregates /\ \E j \in DOMAIN x.a : IsLossy(x.a[j], p.in[1])
  THEN RefusedPlan ELSE p

-----------------------------------------------------------------------------
\* An expression: arithmetic in its checked form, and what is not known to refuse
\* on overflow refused.
SafeScalars == {"coalesce", "guard", "single", "maybe_null", "add_int", "add_dec", "neg_int", "neg_dec"}
IsSafe(x) ==
  IF x.e = "fn" THEN x.f \in SafeScalars \cup DOMAIN CastType
  ELSE IF x.e = "agg" THEN x.f \in Aggregates
  ELSE IF x.e = "win" THEN x.f \in (Aggregates \ {"wrap_sum"}) \cup {"row_number", "last_value"} ELSE TRUE
OrRefused(x, schema, types) == IF ~IsSafe(x) /\ TypeOf(x, schema, types) \in Exact THEN RefusedX ELSE x

CheckedAdd(x, ts) ==
  IF ts \subseteq Exact THEN [x EXCEPT !.f = IF "dec" \in ts THEN "add_dec" ELSE "add_int"]
  ELSE IF "float" \in ts THEN [x EXCEPT !.f = "add_float"]
  ELSE IF ts \cap Exact # {} THEN RefusedX ELSE x
CheckedNeg(x, t) == IF t \in Exact THEN [x EXCEPT !.f = IF t = "dec" THEN "neg_dec" ELSE "neg_int"] ELSE x
CheckedOver(x, t) == IF t \notin Exact THEN x ELSE IF x.d THEN RefusedX ELSE [x EXCEPT !.f = "checked_sum"]

RewriteX(x, schema, types) ==
  CASE x.e = "fn" /\ x.f = "wrap_add" -> CheckedAdd(x, {TypeOf(x.a[i], schema, types) : i \in DOMAIN x.a})
    [] x.e = "fn" /\ x.f = "wrap_neg" -> CheckedNeg(x, TypeOf(x.a[1], schema, types))
    [] x.e = "win" /\ x.f = "wrap_sum" -> CheckedOver(x, TypeOf(x.a[1], schema, types))
    [] OTHER -> x

RECURSIVE CheckedX(_, _, _), CheckedPlan(_)
Below(x, schema, types) ==
  [x EXCEPT !.a = [i \in DOMAIN x.a |-> CheckedX(x.a[i], schema, types)],
            !.k = [i \in DOMAIN x.k |-> CheckedX(x.k[i], schema, types)],
            !.s = [i \in DOMAIN x.s |-> CheckedPlan(x.s[i])]]
CheckedX(x, schema, types) == OrRefused(RewriteX(Below(x, schema, types), schema, types), schema, types)

CheckedNode(p) ==
  IF Refuses(p) THEN RefusedPlan
  ELSE IF p.op = "group" THEN CheckedAggregate(p) ELSE IF p.op = "window" THEN CheckedWindow(p) ELSE p
CheckedXs(p, schema, types) ==
  [p EXCEPT !.xs = [i \in DOMAIN p.xs |-> [p.xs[i] EXCEPT !.x = CheckedX(p.xs[i].x, schema, types)]],
            !.keys = [i \in DOMAIN p.keys |-> [p.keys[i] EXCEPT !.x = CheckedX(p.keys[i].x, schema, types)]],
            !.pred = CheckedX(p.pred, schema, types)]
CheckedOn(p) == IF Refuses(p) THEN RefusedPlan ELSE CheckedNode(CheckedXs(p, OverSchema(p), OverTypes(p)))
CheckedPlan(p) == CheckedOn([p EXCEPT !.in = [i \in DOMAIN p.in |-> CheckedPlan(p.in[i])]])

-----------------------------------------------------------------------------
NoSummed == [phase |-> "none"]
InitSummed == \E c \in SumCases : \E D \in SumDataOf(c) :
  summed = [phase |-> "parsed", case |-> c, data |-> D, plan |-> ParsedPlan(c.plan)]

Analyzed(plan) == IF Refuses(plan) THEN [summed EXCEPT !.phase = "refused"]
                  ELSE [summed EXCEPT !.phase = "checked", !.plan = plan]
CheckArithmetic == summed.phase = "parsed" /\ summed' = Analyzed(CheckedPlan(summed.plan))
AnswerSummed ==
  /\ summed.phase = "checked"
  /\ summed' = [phase |-> "answered", case |-> summed.case, data |-> summed.data,
                rows |-> Eval(summed.plan, EmptyRow, summed.data)]
NextSummed == CheckArithmetic \/ AnswerSummed

-----------------------------------------------------------------------------
Meant == Eval(summed.case.plan, EmptyRow, summed.data)
Dropped == Eval(summed.case.loss, EmptyRow, summed.data) # <<>>
BeyondDecimals == \E r \in ToSet(summed.data["a"]) : r.v \in (Least..Most) \ (-DecimalMost..DecimalMost)

\* An answer is DuckDB's, never one of a sum that wrapped.
SummedAs(wanted) == Fails(summed.rows) \/ (~Fails(wanted) /\ Same(summed.rows, wanted))
\* No aggregate answers over rows of which a cast dropped the value.
LossRefused == Dropped => Fails(summed.rows)
\* What dropped nothing is answered, in the range of the types.
AnsweredIf(wanted) ==
  ~Dropped /\ ~Fails(wanted) /\ (BeyondDecimals => summed.case.exact) => ~Fails(summed.rows)

(* A statement is answered as DuckDB answers it, or refused: as a plan, if *)
(* it has to be, or at a row of which an aggregate would lose the value.   *)
ArithmeticRefuses ==
  /\ summed.phase = "refused" => summed.case.refused
  /\ summed.phase = "answered" =>
       ~summed.case.refused /\ SummedAs(Meant) /\ LossRefused /\ AnsweredIf(Meant)
=============================================================================
