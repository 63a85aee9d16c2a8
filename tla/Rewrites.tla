------------------------------- MODULE Rewrites -------------------------------
(***************************************************************************)
(* The rules the engine runs over a logical plan before DataFusion's own   *)
(* (src/df/session.rs), in their order: sorts that order nothing dropped   *)
(* (outerorder.rs), subqueries typed nullable (nullsub.rs), latest rows    *)
(* and partition extremes as aggregates (topn.rs, extreme.rs), distinct    *)
(* counts by key and in two levels (distinctrows.rs, distinct.rs), and     *)
(* correlated subqueries put into shapes DataFusion decorrelates           *)
(* (onerow.rs, correlate.rs, latest.rs).  A rule sees every node of the    *)
(* plan, and of the subqueries in its expressions, from below.             *)
(***************************************************************************)
EXTENDS FoldRule

CONSTANTS
  Cases,     \* plans as the SQL planner hands them on
  DataOf(_)  \* contents of the tables a case reads

VARIABLE stmt

Range1(S) == {S[i] : i \in DOMAIN S}
Renamed(xs, F(_)) == [i \in DOMAIN xs |-> [xs[i] EXCEPT !.x = F(xs[i].x)]]

-----------------------------------------------------------------------------
\* What an expression, or a node of a plan, or a whole plan holds.
RECURSIVE HasOut(_), HasCol(_), HasSub(_), PlanHasOut(_)
HasOut(x) == x.e = "out" \/ \E i \in DOMAIN x.a : HasOut(x.a[i])
HasCol(x) == x.e = "col" \/ \E i \in DOMAIN x.a : HasCol(x.a[i])
HasSub(x) == x.e = "sub" \/ \E i \in DOMAIN x.a : HasSub(x.a[i])

Exprs(p) == {p.pred} \cup {p.xs[i].x : i \in DOMAIN p.xs} \cup {p.keys[i].x : i \in DOMAIN p.keys}
            \cup {p.o[i].x : i \in DOMAIN p.o}
PlanHasOut(p) == (\E x \in Exprs(p) : HasOut(x)) \/ \E i \in DOMAIN p.in : PlanHasOut(p.in[i])

Conjuncts(x) == IF x.e = "fn" /\ x.f = "and" THEN x.a ELSE <<x>>
Columns(p) == LET s == Schema(p) IN [i \in DOMAIN s |-> Named(s[i], Col(s[i]))]
Qualifiers(p) == {c[1] : c \in Range1(Schema(p))} \ {""}

\* A private name, told apart by the width of what it is added to.
Private(name, p) == <<"", name \o ToString(Len(Schema(p)))>>

-----------------------------------------------------------------------------
ThroughFew == {"project", "filter", "lateral"}

(* outerorder.rs: a sort stays where it orders the answer or chooses the   *)
(* rows of a limit above.                                                  *)
Through == {"project", "alias", "filter", "lateral"}

RECURSIVE Keep(_, _), KeepX(_)
KeepX(x) == [x EXCEPT !.a = [i \in DOMAIN x.a |-> KeepX(x.a[i])],
                      !.s = [i \in DOMAIN x.s |-> Keep(x.s[i], TRUE)]]

Keep(plan, decides) ==
  LET p == [plan EXCEPT !.xs = Renamed(plan.xs, KeepX), !.pred = KeepX(plan.pred)]
      below == IF p.op = "limit" THEN TRUE ELSE p.op \in Through /\ decides
  IN IF p.op = "sort" /\ p.n = 0 /\ ~decides THEN Keep(p.in[1], FALSE)
     ELSE [p EXCEPT !.in = [i \in DOMAIN p.in |-> Keep(p.in[i], below)]]

OutermostOrder(p) == Keep(p, TRUE)

-----------------------------------------------------------------------------
(* nullsub.rs.  DataFusion types a scalar subquery by its column alone,    *)
(* and drops a coalesce whose first argument is never NULL.                *)
RECURSIVE Nullable(_, _), NullableAt(_, _)
Nullable(x, p) ==
  CASE x.e = "lit" -> x.v = Null
    [] x.e \in {"col", "out"} -> IF x.e = "out" \/ p.in = <<>> THEN TRUE ELSE NullableAt(x.c, p.in[1])
    [] x.e = "agg" -> x.f # "count"
    [] x.e = "sub" -> NullableAt(Schema(x.s[1])[1], x.s[1])
    [] x.e = "fn" /\ x.f = "coalesce" -> \A i \in DOMAIN x.a : Nullable(x.a[i], p)
    [] x.e = "fn" /\ x.f \in {"maybe_null", "single"} -> TRUE
    [] x.e = "fn" /\ x.f \in {"true", "row", "named_struct", "is", "is not null", "row_key"} -> FALSE
    [] OTHER -> \E i \in DOMAIN x.a : Nullable(x.a[i], p)

NullableAt(c, p) ==
  CASE \E i \in DOMAIN p.xs : p.xs[i].n = c ->
         Nullable(p.xs[CHOOSE i \in DOMAIN p.xs : p.xs[i].n = c].x, p)
    [] p.op \in {"filter", "sort", "limit", "lateral"} -> NullableAt(c, p.in[1])
    [] OTHER -> TRUE

RECURSIVE MaybeNull(_), Simplified(_, _)
MaybeNull(x) ==
  LET y == [x EXCEPT !.a = [i \in DOMAIN x.a |-> MaybeNull(x.a[i])]] IN
  IF y.e = "sub" /\ ~NullableAt(Schema(y.s[1])[1], y.s[1]) THEN Fn("maybe_null", <<y>>) ELSE y

MapExprs(p, F(_)) ==
  [p EXCEPT !.xs = Renamed(p.xs, F), !.keys = Renamed(p.keys, F), !.pred = F(p.pred)]

NullableSubqueries(p) == MapExprs(p, MaybeNull)

Simplified(x, p) ==
  LET y == [x EXCEPT !.a = [i \in DOMAIN x.a |-> Simplified(x.a[i], p)]] IN
  IF y.e = "fn" /\ y.f = "coalesce" /\ ~Nullable(y.a[1], p) THEN y.a[1] ELSE y

Simplify(p) == LET F(x) == Simplified(x, p) IN MapExprs(p, F)

-----------------------------------------------------------------------------
\* lastnonnull.rs: the same function under one frame.
RunningLast(x) ==
  IF x.e = "win" /\ x.f = "last_value" /\ x.r = "rows" THEN [x EXCEPT !.f = "last_non_null"] ELSE x

LastNonNull(p) == MapExprs(p, RunningLast)

-----------------------------------------------------------------------------

(* topn.rs: row_number() = 1 over the latest row per key, beside sums over *)
(* the same partition, as an aggregate.                                    *)
RECURSIVE WindowsOf(_), BelowWindows(_), Unaliased(_), Realiased(_, _)
WindowsOf(p) == IF p.op = "window" THEN p.xs \o WindowsOf(p.in[1]) ELSE <<>>
BelowWindows(p) == IF p.op = "window" THEN BelowWindows(p.in[1]) ELSE p
Unaliased(p) == IF p.op = "alias" THEN Unaliased(p.in[1]) ELSE p
Realiased(p, q) == IF p.op = "alias" THEN Alias(p.t, Realiased(p.in[1], q)) ELSE q

IsOne(x) == x.e = "lit" /\ x.v = 1
TestsFirst(x) ==
  IF x.e # "fn" \/ x.f # "=" THEN <<>>
  ELSE IF x.a[1].e = "col" /\ IsOne(x.a[2]) THEN <<x.a[1].c>>
  ELSE IF x.a[2].e = "col" /\ IsOne(x.a[1]) THEN <<x.a[2].c>> ELSE <<>>

WholePartition(x) == x.o = <<>> /\ ~x.d /\ x.r = "whole" /\ x.f # "row_number"
WorthKeeping(aggregates) == IF aggregates = 0 THEN 2 ELSE 8

\* One ordered row_number, and aggregates over the same partition of plain keys.
TakesWindows(ws) ==
  LET numbers == {i \in DOMAIN ws : ws[i].x.f = "row_number"} IN
  /\ Cardinality(numbers) = 1
  /\ \A i \in numbers : ws[i].x.o # <<>> /\ ws[i].x.k # <<>>
  /\ \A i \in DOMAIN ws \ numbers : WholePartition(ws[i].x)
  /\ \A i, j \in DOMAIN ws : ws[i].x.k = ws[j].x.k
  /\ \A k \in Range1(ws[1].x.k) : k.e = "col"

\* Where a projected column comes from: windows by name, columns by position.
SourceOf(x, ws, base) ==
  LET of == {i \in DOMAIN ws : ws[i].n[2] = x.c[2]} IN
  IF x.e # "col" THEN "none"
  ELSE IF of # {} THEN IF ws[CHOOSE i \in of : TRUE].x.f = "row_number" THEN "number" ELSE "aggregate"
  ELSE IF x.c \notin Range1(Schema(base)) THEN "none"
  ELSE IF \E k \in Range1(ws[1].x.k) : k.c = x.c THEN "key" ELSE "latest"

TopPerGroup(f) ==
  IF f.op # "filter" \/ TestsFirst(f.pred) = <<>> \/ Unaliased(f.in[1]).op # "project" THEN f
  ELSE
  LET p == Unaliased(f.in[1])  ws == WindowsOf(p.in[1])  base == BelowWindows(p.in[1])
      sources == [i \in DOMAIN p.xs |-> SourceOf(p.xs[i].x, ws, base)]
      rn == {i \in DOMAIN p.xs : Schema(f.in[1])[i] = TestsFirst(f.pred)[1]}
      count(s) == Cardinality({i \in DOMAIN sources : sources[i] = s})
      window(x) == ws[CHOOSE i \in DOMAIN ws : ws[i].n[2] = x.c[2]].x
      number == ws[CHOOSE i \in DOMAIN ws : ws[i].x.f = "row_number"].x
      top(i) == <<"", "__top_" \o ToString(i)>>
      aggregate(i) == IF sources[i] = "latest" THEN AggBy("first_value", <<p.xs[i].x>>, number.o)
                      ELSE Agg(window(p.xs[i].x).f, window(p.xs[i].x).a)
      kept == SetToSortSeq({i \in DOMAIN p.xs : sources[i] \in {"latest", "aggregate"}}, <)
      out(i) == CASE sources[i] = "key" -> p.xs[i].x
                  [] sources[i] = "number" -> Lit(1)
                  [] OTHER -> Col(top(i))
  IN IF \/ ws = <<>> \/ ~TakesWindows(ws) \/ "none" \in Range1(sources)
        \/ {i \in DOMAIN sources : sources[i] = "number"} # rn
        \/ count("latest") > WorthKeeping(count("aggregate"))
     THEN f
     ELSE Realiased(f.in[1],
            Project([i \in DOMAIN p.xs |-> Named(p.xs[i].n, out(i))],
              Group([j \in DOMAIN number.k |-> Named(number.k[j].c, number.k[j])],
                    [j \in DOMAIN kept |-> Named(top(kept[j]), aggregate(kept[j]))], base)))

-----------------------------------------------------------------------------
(* extreme.rs: the rows at their partition's minimum or maximum, as a      *)
(* group joined back, NULL keys equal.                                     *)
Extreme(f) ==
  IF f.op # "filter" \/ f.in[1].op # "window" \/ Len(f.in[1].xs) # 1 THEN f
  ELSE
  LET w == f.in[1]  x == w.xs[1].x  base == w.in[1]
      side == <<"__extreme_of", "__extreme">>
      isOut(y) == y.e = "col" /\ y.c = <<"", w.xs[1].n[2]>>
      key(j) == <<"__extreme_of", "__extreme_k" \o ToString(j)>>
      plain(j) == <<"", "__extreme_k" \o ToString(j)>>
  IN IF \/ x.f \notin {"min", "max"} \/ ~WholePartition(x) \/ x.k = <<>>
        \/ \E k \in Range1(x.k) : k.e # "col"
        \/ f.pred.f # "=" \/ isOut(f.pred.a[1]) = isOut(f.pred.a[2])
     THEN f
     ELSE Filter(f.pred,
            Project(Columns(base) \o <<Named(w.xs[1].n, Col(side))>>,
              Join("inner", And([j \in DOMAIN x.k |-> Fn("is", <<Col(key(j)), x.k[j]>>)]),
                Alias("__extreme_of",
                  Group([j \in DOMAIN x.k |-> Named(plain(j), x.k[j])],
                        <<Named(<<"", "__extreme">>, Agg(x.f, x.a))>>, base)),
                base)))

-----------------------------------------------------------------------------
(* distinctrows.rs: a distinct count of rows written out, by their key.    *)
ValuesOf(x) ==
  CASE x.e = "fn" /\ x.f = "named_struct" /\ Len(x.a) % 2 = 0 ->
         [i \in 1..(Len(x.a) \div 2) |-> x.a[2 * i]]
    [] x.e = "fn" /\ x.f = "row" -> x.a
    [] OTHER -> <<>>

Keyed(x) ==
  IF x.e = "agg" /\ x.f = "count" /\ x.d /\ Len(x.a) = 1 /\ ValuesOf(x.a[1]) # <<>>
  THEN [x EXCEPT !.a = <<Fn("row_key", ValuesOf(x.a[1]))>>] ELSE x

DistinctRows(p) == IF p.op = "group" THEN [p EXCEPT !.xs = Renamed(p.xs, Keyed)] ELSE p

(* distinct.rs: a distinct count beside other aggregates in two levels.    *)
SplitArgs(p) == {p.xs[i].x.a[1] : i \in {j \in DOMAIN p.xs : p.xs[j].x.d}}

Splits(p) ==
  /\ p.op = "group"
  /\ \A i \in DOMAIN p.xs : LET x == p.xs[i].x IN
       /\ x.e = "agg" /\ x.o = <<>>
       /\ IF x.d THEN x.f = "count" /\ Len(x.a) = 1 ELSE x.f \in {"count", "sum", "min", "max"}
  /\ Cardinality(SplitArgs(p)) = 1
  /\ \E i \in DOMAIN p.xs : ~p.xs[i].x.d

\* What the outer level makes of a partial.
Folded(f, part) == Agg(IF f = "count" THEN "sum" ELSE f, <<Col(part)>>)

DistinctSplit(p) ==
  IF ~Splits(p) THEN p
  ELSE
  LET part(i) == <<"", "__part_" \o ToString(i)>>
      out(i) == <<"", "__out_" \o ToString(i)>>
      plain == SetToSortSeq({i \in DOMAIN p.xs : ~p.xs[i].x.d}, <)
      inner == Group(Append(p.keys, Named(<<"", "__distinct">>, CHOOSE x \in SplitArgs(p) : TRUE)),
                     [j \in DOMAIN plain |-> Named(part(plain[j]), p.xs[plain[j]].x)], p.in[1])
      level(i) == IF p.xs[i].x.d THEN Agg("count", <<Col(<<"", "__distinct">>)>>)
                  ELSE Folded(p.xs[i].x.f, part(i))
      outer == Group([j \in DOMAIN p.keys |-> Named(p.keys[j].n, Col(p.keys[j].n))],
                     [i \in DOMAIN p.xs |-> Named(out(i), level(i))], inner)
  IN Project([j \in DOMAIN p.keys |-> Named(p.keys[j].n, Col(p.keys[j].n))] \o
             [i \in DOMAIN p.xs |-> Named(p.xs[i].n, Col(out(i)))], outer)

-----------------------------------------------------------------------------
(* onerow.rs: a correlated lookup as the count and a value of its rows,    *)
(* checked in the outer row.                                               *)
RECURSIVE AtMostOne(_)
AtMostOne(p) ==
  CASE p.op = "one" -> TRUE
    [] p.op = "group" -> p.keys = <<>>
    [] p.op \in {"limit", "sort"} /\ p.n = 1 -> TRUE
    [] p.op \in {"scan", "join"} -> FALSE
    [] OTHER -> AtMostOne(p.in[1])

Counted(q) ==
  LET n == <<"", "__burrmill_one_n">>  v == <<"", "__burrmill_one_v">> IN
  Project(<<Named(<<"", "__burrmill_one">>, Fn("named_struct", <<Lit(0), Col(n), Lit(0), Col(v)>>))>>,
    Group(<<>>, <<Named(n, Agg("count", <<Lit(1)>>)),
                  Named(v, Agg("first_value", <<Col(Schema(q)[1])>>))>>, q))

RECURSIVE OfOneRow(_)
OfOneRow(x) ==
  LET y == [x EXCEPT !.a = [i \in DOMAIN x.a |-> OfOneRow(x.a[i])]] IN
  IF y.e = "sub" /\ PlanHasOut(y.s[1]) /\ ~AtMostOne(y.s[1]) /\ Len(Schema(y.s[1])) = 1
  THEN Fn("single", <<Sub(Counted(y.s[1]))>>) ELSE y

SingleRowSubqueries(p) == MapExprs(p, OfOneRow)

-----------------------------------------------------------------------------
(* correlate.rs, KeyedCorrelation: the subquery's side of an equality as a *)
(* column.                                                                 *)
OuterOnly(x) == HasOut(x) /\ ~HasCol(x)
InnerOnly(x) == ~HasOut(x) /\ HasCol(x)
\* A column, or a cast of one.
Bare(x) == x.e = "col" \/ (x.e = "fn" /\ x.f = "dec" /\ x.a[1].e = "col")
InnerSideLeft(x) ==
  IF x.e = "fn" /\ x.f = "=" /\ InnerOnly(x.a[1]) /\ OuterOnly(x.a[2]) THEN 1 ELSE 0

InnerSide(x) ==
  IF x.e # "fn" \/ x.f # "=" THEN 0
  ELSE IF InnerOnly(x.a[1]) /\ OuterOnly(x.a[2]) THEN 1
  ELSE IF OuterOnly(x.a[1]) /\ InnerOnly(x.a[2]) THEN 2 ELSE 0

KeyedCorrelation(p) ==
  LET S == Conjuncts(p.pred)
      at(i) == InnerSide(S[i])
      taken == {i \in DOMAIN S : at(i) # 0 /\ ~Bare(S[i].a[at(i)])}
      name(i) == <<"", "__burrmill_key" \o ToString(Len(Schema(p)) + i)>>
      key(i) == Named(name(i), S[i].a[at(i)])
      order == SetToSortSeq(taken, <)
  IN IF p.op # "filter" \/ ~HasOut(p.pred) \/ taken = {} THEN p
     ELSE Project(Columns(p),
            Filter(And([i \in DOMAIN S |-> IF i \in taken THEN Fn("=", <<Col(name(i)), S[i].a[3 - at(i)]>>)
                                           ELSE S[i]]),
              Project(Columns(p.in[1]) \o [j \in DOMAIN order |-> key(order[j])], p.in[1])))

(* SubqueriesBelowAggregates: computed in a projection beneath.            *)
RECURSIVE SubsOf(_), WithCols(_, _)
SubsOf(x) == IF x.e = "sub" THEN {x} ELSE UNION {SubsOf(x.a[i]) : i \in DOMAIN x.a}
WithCols(x, names) ==
  IF x.e = "sub" THEN Col(names[x])
  ELSE [x EXCEPT !.a = [i \in DOMAIN x.a |-> WithCols(x.a[i], names)]]

SubqueriesBelowAggregates(p) ==
  LET subs == SetToSeq(UNION {SubsOf(p.xs[i].x) : i \in DOMAIN p.xs})
      name(j) == <<"", "__burrmill_sq" \o ToString(Len(Schema(p)) + j)>>
      names == [x \in Range1(subs) |-> name(CHOOSE j \in DOMAIN subs : subs[j] = x)]
      lifted(x) == WithCols(x, names)
  IN IF p.op # "group" \/ subs = <<>> THEN p
     ELSE [p EXCEPT !.xs = Renamed(p.xs, lifted),
                    !.in = <<Project(Columns(p.in[1]) \o [j \in DOMAIN subs |-> Named(name(j), subs[j])],
                                     p.in[1])>>]

-----------------------------------------------------------------------------
(* Both decorrelations number the outer rows and left join the subquery's  *)
(* relation, marked, on the correlated conjuncts.                          *)
RECURSIVE Unouter(_), Replaced(_, _, _)
Unouter(x) == IF x.e = "out" THEN Col(x.c)
              ELSE [x EXCEPT !.a = [i \in DOMAIN x.a |-> Unouter(x.a[i])]]
Replaced(x, sub, c) == IF x = sub THEN Col(c)
                       ELSE [x EXCEPT !.a = [i \in DOMAIN x.a |-> Replaced(x.a[i], sub, c)]]

Correlated(f) == SelectSeq(Conjuncts(f.pred), HasOut)
Plain(f) == SelectSeq(Conjuncts(f.pred), LAMBDA x : ~HasOut(x))

Numbered(p, rid) == Window(<<Named(rid, Win("row_number", <<>>, <<>>, <<>>, "whole"))>>, p)

\* The marked rows of the relation beside each numbered outer row.
Matched(numbered, f, marker) ==
  LET relation == IF Plain(f) = <<>> THEN f.in[1] ELSE Filter(And(Plain(f)), f.in[1])
      on == [i \in DOMAIN Correlated(f) |-> Unouter(Correlated(f)[i])]
  IN Join("left", And(on), numbered,
          Project(Append(Columns(relation), Named(marker, Truth)), relation))

\* The outer node again, over the value instead of its subquery.
Over(p, with, sub, value) ==
  LET F(x) == Replaced(x, sub, value) IN
  IF p.op = "project" THEN Project(Renamed(p.xs, F), with)
  ELSE Project(Columns(p), Filter(F(p.pred), with))

\* The first subquery of a projection or a filter that a rule takes.
FirstSub(p, Takes(_)) ==
  LET all == UNION {SubsOf(x) : x \in {p.pred} \cup {p.xs[i].x : i \in DOMAIN p.xs}}
      fit == {x \in all : Takes(x.s[1])}
  IN IF p.op \notin {"project", "filter"} \/ fit = {} THEN <<>> ELSE <<CHOOSE x \in fit : TRUE>>

NullBlind == {"count", "sum", "min", "max"}

\* What DataFusion pulls up over an aggregate itself.
Pullable(x) ==
  /\ x.e = "fn" /\ x.f = "="
  /\ \/ Bare(x.a[1]) /\ ~HasCol(x.a[2])
     \/ Bare(x.a[2]) /\ ~HasCol(x.a[1])

\* A projection of one column over aggregates of a correlated filter.
TakesAggregate(q) ==
  /\ q.op = "project" /\ Len(q.xs) = 1 /\ ~HasOut(q.xs[1].x)
  /\ LET a == q.in[1] IN
     /\ a.op = "group" /\ a.keys = <<>>
     /\ \A i \in DOMAIN a.xs : a.xs[i].x.e = "agg" /\ a.xs[i].x.f \in NullBlind /\ ~HasOut(a.xs[i].x)
     /\ LET f == a.in[1] IN
        /\ f.op = "filter" /\ ~PlanHasOut(f.in[1])
        /\ Correlated(f) # <<>>
        /\ \E i \in DOMAIN Correlated(f) : ~Pullable(Correlated(f)[i])

OfAll(x, marker) == x

\* A count of rows counts the rows that matched.
OfMatched(x, marker) ==
  IF x.f = "count" /\ ~x.d /\ x.a[1].e = "lit" /\ x.a[1].v # Null THEN Agg("count", <<Col(marker)>>) ELSE x

RECURSIVE NonEquiCorrelation(_)
NonEquiCorrelation(p) ==
  LET found == FirstSub(p, TakesAggregate) IN
  IF found = <<>> THEN p
  ELSE
  LET q == found[1].s[1]  a == q.in[1]  f == a.in[1]  outer == p.in[1]
      rid == Private("__burrmill_rid", outer)
      marker == Private("__burrmill_m", outer)
      value == Private("__burrmill_sqv", outer)
      numbered == Numbered(outer, rid)
      aggr(x) == OfMatched(x, marker)
      with == Project(Append(Columns(outer), Named(value, q.xs[1].x)),
                Group(Columns(numbered), Renamed(a.xs, aggr), Matched(numbered, f, marker)))
  IN IF Qualifiers(outer) \cap Qualifiers(f.in[1]) # {} THEN p
     ELSE NonEquiCorrelation(Over(p, with, found[1], value))

-----------------------------------------------------------------------------
(* latest.rs: ORDER BY ... LIMIT k of a correlated relation, in the shapes *)
(* the planner gives it, ranked within each outer row and cut at k.        *)
SortedOf(q) == IF q.in[1].op = "project" THEN q.in[1].in[1] ELSE q.in[1]
FilteredOf(q) == LET s == SortedOf(q).in[1] IN IF s.op = "project" THEN s.in[1] ELSE s

TakesTopN(q) ==
  /\ q.op = "limit" /\ q.n > 0 /\ SortedOf(q).op = "sort" /\ FilteredOf(q).op = "filter"
  /\ LET f == FilteredOf(q) IN
     /\ ~PlanHasOut(f.in[1]) /\ Correlated(f) # <<>>
     /\ \A x \in Exprs(q.in[1]) \cup Exprs(SortedOf(q)) \cup Exprs(SortedOf(q).in[1]) :
          HasOut(x) => x = f.pred

OutputOf(q) == IF q.in[1].op = "project" THEN q.in[1].xs ELSE Columns(SortedOf(q))

\* The outer columns, the subquery's output under `names`, and the marker.
Marker(outer) == Private("__burrmill_lm", outer)

Ranked(outer, q, names) ==
  LET s == SortedOf(q)  f == FilteredOf(q)  out == OutputOf(q)
      rid == Private("__burrmill_lrid", outer)
      rank == Private("__burrmill_lrn", outer)
      numbered == Numbered(outer, rid)
      marked == Named(Marker(outer), Col(Marker(outer)))
      joined == Matched(numbered, f, Marker(outer))
      shaped == IF s.in[1].op # "project" THEN joined
                ELSE Project(Columns(numbered) \o s.in[1].xs \o <<marked>>, joined)
      ranking == Win("row_number", <<>>, <<Col(rid)>>, s.o, "whole")
      cut == Filter(Fn("<=", <<Col(rank), Lit(q.n)>>), Window(<<Named(rank, ranking)>>, shaped))
  IN Project(Columns(outer) \o [i \in DOMAIN out |-> Named(names[i], out[i].x)] \o <<marked>>, cut)

TakesLatest(q) == TakesTopN(q) /\ q.n = 1 /\ Len(OutputOf(q)) = 1

RECURSIVE LatestScalar(_)
LatestScalar(p) ==
  LET found == FirstSub(p, TakesLatest) IN
  IF found = <<>> THEN p
  ELSE LET q == found[1].s[1]  outer == p.in[1]  value == Private("__burrmill_lv", outer) IN
       IF Qualifiers(outer) \cap Qualifiers(FilteredOf(q).in[1]) # {} THEN p
       ELSE LatestScalar(Over(p, Ranked(outer, q, <<value>>), found[1], value))

Binds(q) == q.op = "project" /\ q.in[1].op = "one" /\ \A i \in DOMAIN q.xs : ~HasSub(q.xs[i].x)

\* A cross join drops the outer rows that met none; a lateral without a relation
\* only names values of the outer row.
LatestLateral(j) ==
  LET left == j.in[1]  q == Unaliased(j.in[2]).in[1]
      name(i) == Schema(j.in[2])[i]
      private(i) == <<"", "__burrmill_lo" \o ToString(i)>>
      ranked == Ranked(left, q, [i \in DOMAIN OutputOf(q) |-> private(i)])
      matched == IF j.t = "left" THEN ranked
                 ELSE Filter(Fn("is not null", <<Col(Marker(left))>>), ranked)
  IN IF Unaliased(j.in[2]).op # "lateral" \/ j.pred # Truth THEN j
     ELSE IF Binds(q)
     THEN Project(Columns(left) \o [i \in DOMAIN q.xs |-> Named(name(i), Unouter(q.xs[i].x))], left)
     ELSE IF ~TakesTopN(q) \/ Qualifiers(left) \cap Qualifiers(FilteredOf(q).in[1]) # {} THEN j
     ELSE Project(Columns(left) \o [i \in DOMAIN OutputOf(q) |-> Named(name(i), Col(private(i)))], matched)

LatestCorrelation(p) == IF p.op = "join" THEN LatestLateral(p) ELSE LatestScalar(p)

-----------------------------------------------------------------------------
Rules == <<"outermost_order", "nullable_subqueries", "last_non_null", "fold_substitution", "top_per_group",
           "partition_extreme", "distinct_rows", "distinct_split", "single_row_subqueries",
           "keyed_correlation", "subqueries_below_aggregates", "non_equi_correlation",
           "latest_correlation", "simplify">>

Apply(rule, p) ==
  CASE rule = "nullable_subqueries" -> NullableSubqueries(p)
    [] rule = "last_non_null" -> LastNonNull(p)
    [] rule = "top_per_group" -> TopPerGroup(p)
    [] rule = "partition_extreme" -> Extreme(p)
    [] rule = "distinct_rows" -> DistinctRows(p)
    [] rule = "distinct_split" -> DistinctSplit(p)
    [] rule = "single_row_subqueries" -> SingleRowSubqueries(p)
    [] rule = "keyed_correlation" -> KeyedCorrelation(p)
    [] rule = "subqueries_below_aggregates" -> SubqueriesBelowAggregates(p)
    [] rule = "non_equi_correlation" -> NonEquiCorrelation(p)
    [] rule = "latest_correlation" -> LatestCorrelation(p)
    [] rule = "simplify" -> Simplify(p)

\* Every node from below, the plans of its subqueries before it.
RECURSIVE Up(_, _), UpX(_, _)
UpX(rule, x) == [x EXCEPT !.a = [i \in DOMAIN x.a |-> UpX(rule, x.a[i])],
                          !.s = [i \in DOMAIN x.s |-> Up(rule, x.s[i])]]
Up(rule, p) ==
  LET F(x) == UpX(rule, x) IN
  Apply(rule, MapExprs([p EXCEPT !.in = [i \in DOMAIN p.in |-> Up(rule, p.in[i])]], F))

Rewritten(rule, p) ==
  CASE rule = "outermost_order" -> OutermostOrder(p)
    [] rule = "fold_substitution" -> FoldSubstitution(p)
    [] OTHER -> Up(rule, p)

Init == \E c \in Cases : \E D \in DataOf(c) :
  stmt = [case |-> c, plan |-> c, data |-> D, ran |-> 0, want |-> Eval(c, EmptyRow, D)]

Rewrite ==
  /\ stmt.ran < Len(Rules)
  /\ stmt' = [stmt EXCEPT !.plan = Rewritten(Rules[stmt.ran + 1], stmt.plan), !.ran = @ + 1]

Next == Rewrite
Spec == Init /\ [][Next]_stmt

-----------------------------------------------------------------------------
Answer == Eval(stmt.plan, EmptyRow, stmt.data)

\* The owned folds of a plan.
RECURSIVE FoldsOf(_), FoldsOfX(_)
FoldsOfX(x) == UNION {FoldsOf(x.s[i]) : i \in DOMAIN x.s} \cup UNION {FoldsOfX(x.a[i]) : i \in DOMAIN x.a}
FoldsOf(p) ==
  (IF p.op = "fold" THEN {p} ELSE {}) \cup UNION {FoldsOf(p.in[i]) : i \in DOMAIN p.in}
    \cup UNION {FoldsOfX(x) : x \in Exprs(p)}

(* Whatever rules have run, in their order, over each other's work: the    *)
(* statement answers the rows it answered as it was written, or fails as   *)
(* it did; with an owned fold in it, it may fail where it did not.         *)
AnswersAlike(answer, want) ==
  IF Fails(want) THEN Fails(answer)
  ELSE IF Fails(answer) THEN FoldsOf(stmt.plan) # {} ELSE Same(answer, want)
SameAnswer == AnswersAlike(Answer, stmt.want)

\* A value that is no integer or has no negation, or a party without a name.
Offends(fold, D) ==
  \E b \in ToSet(fold.branches) : \E row \in ToSet(D[b.table]) :
    KeyIsNull(b, row) \/ \E i \in DOMAIN b.values : row[b.values[i].col] \in {Junk, Odd, Least}

(* Where the owned fold stands in for an aggregate the statement may be    *)
(* refused though the general path answers it, but only over a value that  *)
(* is no integer, the least one negated, or a NULL key.                    *)
FoldRefusedForCause ==
  Fails(Answer) /\ ~Fails(stmt.want) => \E q \in FoldsOf(stmt.plan) : Offends(q.fold, stmt.data)

(* The answer is what was asked for, or a refusal that has its cause.      *)
AnswerKept == SameAnswer /\ FoldRefusedForCause

(* A fold says its rows come ordered by their one text key, so that a sort *)
(* above it is left out: they do.                                          *)
FoldInOrder ==
  \A q \in FoldsOf(stmt.plan) : Len(q.fold.keys) = 1 =>
    LET rows == FoldNode(q, stmt.data) IN
    Fails(rows) \/ \A i \in 1..(Len(rows) - 1) : BytesBefore(rows[i][q.cols[1]], rows[i + 1][q.cols[1]])

\* The sort that orders an answer: beneath nothing but what keeps an order.
RECURSIVE OrderOf(_)
OrderOf(p) ==
  IF p.op = "sort" THEN <<p.o>> ELSE IF p.op \in {"project", "alias", "filter", "limit"} THEN OrderOf(p.in[1]) ELSE <<>>

(* An ORDER BY of a view or a derived table that nothing above reorders    *)
(* still orders the answer.                                                *)
OrderKept == OrderOf(stmt.case) # <<>> => Answer = stmt.want

\* What is left for DataFusion: correlated subqueries only in projections and
\* filters, over one row of aggregates, through plain equalities.
RECURSIVE Decorrelates(_), PlannableX(_), Plannable(_)
Decorrelates(q) ==
  CASE q.op \in {"project", "alias"} -> Decorrelates(q.in[1])
    [] q.op = "group" -> Decorrelates(q.in[1])
    [] q.op = "filter" -> /\ \A i \in DOMAIN Correlated(q) : Pullable(Correlated(q)[i])
                          /\ Decorrelates(q.in[1])
    [] OTHER -> ~PlanHasOut(q)

PlannableX(x) ==
  /\ x.e = "sub" /\ PlanHasOut(x.s[1]) => AtMostOne(x.s[1]) /\ Decorrelates(x.s[1])
  /\ \A i \in DOMAIN x.a : PlannableX(x.a[i])

Plannable(p) ==
  /\ \A x \in Exprs(p) : PlannableX(x) /\ (HasSub(x) => p.op \in {"project", "filter"})
  /\ p.op = "lateral" => ~PlanHasOut(p)
  /\ \A i \in DOMAIN p.in : Plannable(p.in[i])

(* Every statement of these cases can be planned once the rules have run.  *)
AllPlannable == stmt.ran = Len(Rules) => Plannable(stmt.plan)

(* A rule changes neither the names of an answer nor their order.          *)
NamesKept == Schema(stmt.plan) = Schema(stmt.case)

(* Names and order are kept, those a fold declares included, and once the   *)
(* rules have run DataFusion can plan what they left (df/mod.rs, the rules  *)
(* in their order).                                                         *)
ShapeKept == NamesKept /\ OrderKept /\ FoldInOrder /\ AllPlannable
=============================================================================
