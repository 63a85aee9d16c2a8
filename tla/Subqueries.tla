------------------------------ MODULE Subqueries ------------------------------
(***************************************************************************)
(* subqueries.rs: a statement's subqueries, rewritten before it is planned *)
(* so that DataFusion answers as DuckDB does.  The columns of a derived    *)
(* table or a CTE take DuckDB's names; EXISTS and IN become counts where   *)
(* they cannot be planned, and have their NULL supplied where it would be  *)
(* lost; aggregates that differ only in a cast are told apart.             *)
(***************************************************************************)
EXTENDS SequencesExt, FiniteSetsExt, Integers

CONSTANTS
  KnownColumns,  \* the columns of each table the catalog knows
  Texts          \* statements, each with contents of the tables it reads

VARIABLE text  \* a statement, what has become of it and how far it has come

Null == -1
Unknown == <<>>  \* and <<s>> for what is known to be s

-----------------------------------------------------------------------------
\* Expressions, as written; `fl` is an aggregate's filter.
E0 == [e |-> "lit", v |-> 0, q |-> "", c |-> <<>>, f |-> "", a |-> <<>>, s |-> <<>>, neg |-> FALSE, fl |-> <<>>]
Lit(v) == [E0 EXCEPT !.v = v]
Col(q, c) == [E0 EXCEPT !.e = "col", !.q = q, !.c = c]
Fn(f, a) == [E0 EXCEPT !.e = "fn", !.f = f, !.a = a]
Agg(f, a) == [E0 EXCEPT !.e = "agg", !.f = f, !.a = a]
InQuery(x, q, neg) == [E0 EXCEPT !.e = "in", !.a = <<x>>, !.s = <<q>>, !.neg = neg]
Exists(q, neg) == [E0 EXCEPT !.e = "exists", !.s = <<q>>, !.neg = neg]
Scalar(q) == [E0 EXCEPT !.e = "sub", !.s = <<q>>]

\* An item has an alias, or <<>> and the name it prints, if it has one.
Item(x, n, prints) == [k |-> "x", x |-> x, n |-> n, prints |-> prints, of |-> "", odd |-> FALSE]
Star(of, odd) == [k |-> "star", x |-> E0, n |-> <<>>, prints |-> <<>>, of |-> of, odd |-> odd]
\* A relation, and whether `*` simply adds its columns to those before it.
TableAs(n, as, cols, plain) == [k |-> "table", n |-> n, as |-> as, cols |-> cols, q |-> <<>>, in |-> <<>>, plain |-> plain]
DerivedAs(q, as, cols) == [TableAs("", as, cols, TRUE) EXCEPT !.k = "derived", !.q = <<q>>]
NestedJoin(rels) == [TableAs("", "", <<>>, TRUE) EXCEPT !.k = "nested", !.in = rels]
SelectFrom(items, from, where) ==
  [k |-> "select", items |-> items, from |-> from, where |-> where, keys |-> <<>>, having |-> <<>>, distinct |-> FALSE]
QueryOf(body) == [with |-> <<>>, rec |-> FALSE, body |-> body, first |-> FALSE]
CteOf(n, cols, q) == [n |-> n, cols |-> cols, q |-> q]

IsColumn(item) == item.k = "x" /\ item.n = <<>> /\ item.x.e = "col"

-----------------------------------------------------------------------------
\* Names are compared without regard to case; one that is taken gets the first suffix
\* that is free.
Lower(n) == <<IF n[1] = "A" THEN "a" ELSE n[1]>> \o Tail(n)
Numbered == <<"_1", "_2", "_3", "_4">>
Free(n, taken) ==
  IF Lower(n) \notin taken THEN n
  ELSE Append(n, Numbered[Min({i \in DOMAIN Numbered : Append(Lower(n), Numbered[i]) \notin taken})])
RECURSIVE DedupeFrom(_, _)
DedupeFrom(done, names) ==
  IF names = <<>> THEN done
  ELSE DedupeFrom(Append(done, Free(Head(names), {Lower(done[i]) : i \in DOMAIN done})), Tail(names))
Dedupe(names) == DedupeFrom(<<>>, names)
WithColumnAliases(names, aliases) ==
  IF aliases = <<>> THEN names
  ELSE IF names = Unknown \/ Len(aliases) > Len(names[1]) THEN Unknown
  ELSE <<Dedupe([i \in DOMAIN names[1] |-> IF i \in DOMAIN aliases THEN aliases[i] ELSE names[1][i]])>>

\* What an item adds to the output: each column's name, and what qualifies it.
Relation(as, cols) == [as |-> as, cols |-> cols]
ColumnsIn(r) == [i \in DOMAIN r.cols[1] |-> [n |-> r.cols[1][i], q |-> r.as]]
StarNames(relations) ==
  IF \E i \in DOMAIN relations : relations[i].cols = Unknown \/ relations[i].as = "" THEN Unknown
  ELSE <<FlattenSeq([i \in DOMAIN relations |-> ColumnsIn(relations[i])])>>
OfRelation(of, relations) ==
  LET those == SelectSeq(relations, LAMBDA r : r.as = of)
  IN IF those = <<>> \/ those[1].cols = Unknown THEN Unknown ELSE <<ColumnsIn(those[1])>>
OneName(n) == IF n = <<>> THEN Unknown ELSE <<<<[n |-> n, q |-> ""]>>>>
ItemNames(item, relations) ==
  CASE item.k = "star" -> IF item.odd THEN Unknown ELSE IF item.of = "" THEN StarNames(relations) ELSE OfRelation(item.of, relations)
    [] item.n # <<>> -> OneName(item.n)
    [] item.x.e = "col" -> OneName(item.x.c)
    [] OTHER -> OneName(item.prints)

Aliased(x, n) == Item(x, n, <<>>)
RenamedItem(item, cols, finals) ==
  LET changed == \E i \in DOMAIN cols : cols[i].n # finals[i] IN
  CASE item.k = "star" /\ changed -> [i \in DOMAIN cols |-> Aliased(Col(cols[i].q, cols[i].n), finals[i])]
    [] item.k = "x" /\ (changed \/ (item.n = <<>> /\ ~IsColumn(item))) -> <<Aliased(item.x, finals[1])>>
    [] OTHER -> <<item>>
Before(names, i) == Len(FlattenSeq(SubSeq(names, 1, i - 1)))
RenamedItems(items, names, finals) ==
  FlattenSeq([i \in DOMAIN items |->
    RenamedItem(items[i], names[i], SubSeq(finals, Before(names, i) + 1, Before(names, i) + Len(names[i])))])

\* Bottom up: what is inside is named before its names are used.
LastNamed(ctes, n) == SelectLastInSeq(ctes, LAMBDA c : c.n = n)
Of(n, ctes) ==
  IF LastNamed(ctes, n) # 0 THEN ctes[LastNamed(ctes, n)].names
  ELSE IF n \in DOMAIN KnownColumns THEN <<KnownColumns[n]>> ELSE Unknown
NameAs(r) == IF r.as = "" THEN r.n ELSE r.as
UnknownJoin(r) == IF r.plain THEN <<>> ELSE <<Relation("", Unknown)>>

RECURSIVE NameQuery(_, _, _), NameSet(_, _, _), NameRelation(_, _), NameCtes(_, _, _, _)
NameFrom(from, ctes) ==
  LET each == [i \in DOMAIN from |-> NameRelation(from[i], ctes)]
  IN [from |-> [i \in DOMAIN from |-> each[i].r], relations |-> FlattenSeq([i \in DOMAIN from |-> each[i].relations])]
NameRelation(r, ctes) ==
  CASE r.k = "table" ->
         [r |-> r, relations |-> <<Relation(NameAs(r), WithColumnAliases(Of(r.n, ctes), r.cols))>> \o UnknownJoin(r)]
    [] r.k = "derived" ->
         LET inner == NameQuery(r.q[1], ctes, TRUE)
         IN [r |-> [r EXCEPT !.q = <<inner.q>>], relations |-> <<Relation(r.as, WithColumnAliases(inner.names, r.cols))>>]
    [] r.k = "nested" ->
         LET inner == NameFrom(r.in, ctes) IN [r |-> [r EXCEPT !.in = inner.from], relations |-> inner.relations]
NameItems(s, names, rename) ==
  IF \E i \in DOMAIN names : names[i] = Unknown THEN [q |-> s, names |-> Unknown]
  ELSE LET cols == [i \in DOMAIN names |-> names[i][1]]
           written == [i \in DOMAIN FlattenSeq(cols) |-> FlattenSeq(cols)[i].n]
           finals == Dedupe(written)
       IN [q |-> IF rename THEN [s EXCEPT !.items = RenamedItems(s.items, cols, finals)] ELSE s, names |-> <<finals>>]
NameSelect(s, from, rename) ==
  NameItems([s EXCEPT !.from = from.from], [i \in DOMAIN s.items |-> ItemNames(s.items[i], from.relations)], rename)
NameSet(set, ctes, rename) ==
  CASE set.k = "select" -> NameSelect(set, NameFrom(set.from, ctes), rename)
    [] set.k = "query" -> LET inner == NameQuery(set.q, ctes, rename) IN [q |-> [set EXCEPT !.q = inner.q], names |-> inner.names]
    [] set.k = "union" ->
         LET l == NameSet(set.sides[1], ctes, rename)
         IN [q |-> [set EXCEPT !.sides = <<l.q, NameSet(set.sides[2], ctes, rename).q>>], names |-> l.names]
\* A recursive WITH refers to itself before its names exist: all of it is left alone.
NameCtes(with, rec, ctes, done) ==
  IF with = <<>> THEN [with |-> done, ctes |-> ctes]
  ELSE LET c == Head(with)
           inner == IF rec THEN [q |-> c.q, names |-> Unknown] ELSE NameQuery(c.q, ctes, TRUE)
       IN NameCtes(Tail(with), rec, Append(ctes, [n |-> c.n, names |-> WithColumnAliases(inner.names, c.cols)]),
                   Append(done, [c EXCEPT !.q = inner.q]))
NameQuery(q, ctes, rename) ==
  LET w == NameCtes(q.with, q.rec, ctes, <<>>)
      b == NameSet(q.body, w.ctes, rename)
  IN [q |-> [q EXCEPT !.with = w.with, !.body = b.q], names |-> b.names]

-----------------------------------------------------------------------------
\* What one level holds: an expression and its parts, but not the queries it reads.
PartsOf(x) == x.a \o x.fl
RECURSIVE LevelOf(_), HoistedFrom(_), PredicatesIn(_)
LevelOf(x) == {x} \cup UNION {LevelOf(PartsOf(x)[i]) : i \in DOMAIN PartsOf(x)}
HasAggregate(x) == \E y \in LevelOf(x) : y.e = "agg"
ItemXs(items) == FlattenSeq([i \in DOMAIN items |-> IF items[i].k = "x" THEN <<items[i].x>> ELSE <<>>])
Plain(q) ==
  /\ q.with = <<>> /\ ~q.first /\ q.body.k = "select"
  /\ q.body.keys = <<>> /\ q.body.having = <<>> /\ ~q.body.distinct
  /\ \A i \in DOMAIN ItemXs(q.body.items) : ~HasAggregate(ItemXs(q.body.items)[i])
OneItem(q) == Plain(q) /\ Len(q.body.items) = 1 /\ q.body.items[1].k = "x"

And(x, y) == Fn("and", <<x, y>>)
IsNullX(x) == Fn("isnull", <<x>>)
CountOf(q, extra) ==
  Scalar([q EXCEPT !.body.items = <<Item(Agg("count", <<>>), <<>>, <<"count_star()">>)>>,
                   !.body.where = IF extra = <<>> THEN @ ELSE And(@, extra[1])])
NotIf(neg, x) == IF neg THEN Fn("not", <<x>>) ELSE x
\* No rows is false, a NULL operand NULL, a match true, a NULL among the rows NULL.
Membership(all, x, matched, nulls, neg) ==
  NotIf(neg, Fn("case", <<Fn("eq", <<all, Lit(0)>>), Lit(0), IsNullX(x), Lit(Null), matched, Lit(1),
                          Fn("gt", <<nulls, Lit(0)>>), Lit(Null), Lit(0)>>))
NullsOf(q) == CountOf(q, <<IsNullX(q.body.items[1].x)>>)

\* In a filter the test stays; over a query that is not plain it is refused.
Refused == [E0 EXCEPT !.e = "refused"]
WithNulls(x) ==
  IF ~OneItem(x.s[1]) THEN Refused
  ELSE Membership(CountOf(x.s[1], <<>>), x.a[1], [x EXCEPT !.neg = FALSE], NullsOf(x.s[1]), x.neg)
RECURSIVE NestedFilter(_), Filter(_)
WithParts(x, a, fl) == [x EXCEPT !.a = a, !.fl = fl]
NestedFilter(x) ==
  LET y == WithParts(x, [i \in DOMAIN x.a |-> NestedFilter(x.a[i])], [i \in DOMAIN x.fl |-> NestedFilter(x.fl[i])])
  IN IF y.e = "in" THEN WithNulls(y) ELSE y
Filter(x) ==
  CASE x.e = "fn" /\ x.f = "and" -> And(Filter(x.a[1]), Filter(x.a[2]))
    [] x.e \in {"in", "exists"} -> x
    [] OTHER -> NestedFilter(x)

\* What a bare column of the operand means, once it is inside the query it is tested
\* against: the one relation read, or the one of several that has it.
OuterRelations(s, ctes) ==
  IF \E i \in DOMAIN s.from : s.from[i].k = "nested" \/ ~s.from[i].plain \/ NameAs(s.from[i]) = "" THEN <<>>
  ELSE [i \in DOMAIN s.from |->
          Relation(NameAs(s.from[i]),
                   IF s.from[i].k = "derived" \/ s.from[i].cols # <<>> \/ s.from[i].n \in ctes THEN Unknown
                   ELSE Of(s.from[i].n, <<>>))]
HasColumn(r, c) == \E i \in DOMAIN r.cols[1] : Lower(r.cols[1][i]) = Lower(c)
Qualifier(c, outer) ==
  IF Len(outer) = 1 THEN outer[1].as
  ELSE IF \E i \in DOMAIN outer : outer[i].cols = Unknown THEN ""
  ELSE LET having == {i \in DOMAIN outer : HasColumn(outer[i], c)}
       IN IF Cardinality(having) = 1 THEN outer[Min(having)].as ELSE ""
RECURSIVE Qualified(_, _)
Qualified(x, outer) ==
  IF x.e = "col" THEN [x EXCEPT !.q = IF @ = "" THEN Qualifier(x.c, outer) ELSE @]
  ELSE WithParts(x, [i \in DOMAIN x.a |-> Qualified(x.a[i], outer)], [i \in DOMAIN x.fl |-> Qualified(x.fl[i], outer)])

RECURSIVE TablesIn(_), TablesOf(_)
TablesOf(set) ==
  CASE set.k = "select" -> TablesIn(set.from)
    [] set.k = "query" -> TablesOf(set.q.body)
    [] OTHER -> TablesOf(set.sides[1]) \cup TablesOf(set.sides[2])
TablesIn(from) ==
  UNION {CASE from[i].k = "table" -> {from[i].n}
           [] from[i].k = "derived" -> TablesOf(from[i].q[1].body)
           [] OTHER -> TablesIn(from[i].in) : i \in DOMAIN from}
Binds(s) == TablesIn(s.from) \cup {s.from[i].as : i \in DOMAIN s.from}
MovableQualified(x, s) == \A y \in LevelOf(x) : y.s = <<>> /\ (y.e = "col" => y.q # "")
Movable(x, s) == \A y \in LevelOf(x) : y.s = <<>> /\ (y.e = "col" => y.q \notin {""} \cup Binds(s))

InAsCounts(x, q, outer, neg) ==
  Membership(CountOf(q, <<>>), x, Fn("gt", <<CountOf(q, <<Fn("eq", <<q.body.items[1].x, x>>)>>), Lit(0)>>), NullsOf(q), neg)
AsCounts(x, outer) ==
  CASE x.e = "exists" /\ Plain(x.s[1]) -> Fn(IF x.neg THEN "eq" ELSE "gt", <<CountOf(x.s[1], <<>>), Lit(0)>>)
    [] x.e = "in" /\ OneItem(x.s[1]) /\ Movable(Qualified(x.a[1], outer), x.s[1].body) ->
         InAsCounts(Qualified(x.a[1], outer), x.s[1], outer, x.neg)
    [] OTHER -> x
RECURSIVE Counting(_, _), InAggregates(_, _)
Counting(x, outer) ==
  AsCounts(WithParts(x, [i \in DOMAIN x.a |-> Counting(x.a[i], outer)], [i \in DOMAIN x.fl |-> Counting(x.fl[i], outer)]), outer)
InAggregates(x, outer) ==
  IF x.e = "agg" THEN Counting(x, outer)
  ELSE WithParts(x, [i \in DOMAIN x.a |-> InAggregates(x.a[i], outer)], [i \in DOMAIN x.fl |-> InAggregates(x.fl[i], outer)])

\* A predicate inside an aggregate becomes a column of the one table that is read.
PredicatesIn(x) ==
  FlattenSeq([i \in DOMAIN PartsOf(x) |-> PredicatesIn(PartsOf(x)[i])]) \o (IF x.e \in {"in", "exists"} THEN <<x>> ELSE <<>>)
HoistedFrom(x) ==
  IF x.e = "agg" THEN PredicatesIn(x) ELSE FlattenSeq([i \in DOMAIN PartsOf(x) |-> HoistedFrom(PartsOf(x)[i])])
HoistedOf(s) ==
  LET xs == ItemXs(s.items) \o s.having IN FlattenSeq([i \in DOMAIN xs |-> HoistedFrom(xs[i])])
MayHoist(s) ==
  /\ Len(s.from) = 1 /\ s.from[1].k = "table" /\ s.from[1].cols = <<>>
  /\ \A i \in DOMAIN s.items : s.items[i].k # "star"
PredicateName(i) == <<"__burrmill_pred", Numbered[i]>>
TakenBefore(xs, i, within) ==
  Len(FlattenSeq([j \in 1..(i - 1) |-> IF within THEN PredicatesIn(xs[j]) ELSE HoistedFrom(xs[j])]))
RECURSIVE Reading(_, _, _, _)
\* Every occurrence has a column of its own, numbered from the innermost on; n come before x.
PartsRead(x, n, as, within) ==
  LET parts == [i \in DOMAIN PartsOf(x) |-> Reading(PartsOf(x)[i], n + TakenBefore(PartsOf(x), i, within), as, within)]
  IN WithParts(x, SubSeq(parts, 1, Len(x.a)), SubSeq(parts, Len(x.a) + 1, Len(parts)))
Reading(x, n, as, within) ==
  IF within /\ x.e \in {"in", "exists"} THEN Col(as, PredicateName(n + Len(PredicatesIn(x))))
  ELSE PartsRead(x, n, as, within \/ x.e = "agg")
Wrapped(r, preds) ==
  LET column(i) == PartsRead(preds[i], i - Len(PredicatesIn(preds[i])), NameAs(r), TRUE)
  IN DerivedAs(QueryOf(SelectFrom(<<Star(NameAs(r), FALSE)>> \o [i \in DOMAIN preds |-> Aliased(column(i), PredicateName(i))],
                                  <<r>>, Lit(1))), NameAs(r), <<>>)
ReadingItems(items, as) ==
  [i \in DOMAIN items |->
     [items[i] EXCEPT !.x = Reading(@, TakenBefore(ItemXs(items), i, FALSE), as, FALSE)]]
Hoist(s, preds) ==
  LET as == NameAs(s.from[1])  n == TakenBefore(ItemXs(s.items), Len(s.items) + 1, FALSE) IN
  IF ~MayHoist(s) \/ preds = <<>> THEN s
  ELSE [s EXCEPT !.from = <<Wrapped(s.from[1], preds)>>, !.items = ReadingItems(s.items, as),
                 !.having = [i \in DOMAIN s.having |-> Reading(s.having[i], n, as, FALSE)]]

CountingItem(item, outer) == IF item.k = "x" THEN [item EXCEPT !.x = Counting(@, outer)] ELSE item
Predicates(s, outer) ==
  [s EXCEPT !.where = Filter(@),
            !.having = [i \in DOMAIN s.having |-> Filter(InAggregates(s.having[i], outer))],
            !.items = [i \in DOMAIN s.items |-> CountingItem(s.items[i], outer)]]
PredicatesOf(s, ctes) ==
  LET h == Hoist(s, HoistedOf(s)) IN Predicates(h, OuterRelations(h, ctes))

\* Aggregates of one name without casts are told apart by a filter that is always true.
RECURSIVE Stripped(_), Tagged(_, _)
Stripped(x) ==
  IF x.e = "fn" /\ x.f = "cast" THEN Stripped(x.a[1])
  ELSE WithParts(x, [i \in DOMAIN x.a |-> Stripped(x.a[i])], [i \in DOMAIN x.fl |-> Stripped(x.fl[i])])
RECURSIVE AggregatesIn(_)
AggregatesIn(x) ==
  FlattenSeq([i \in DOMAIN PartsOf(x) |-> AggregatesIn(PartsOf(x)[i])]) \o (IF x.e = "agg" THEN <<x>> ELSE <<>>)
SelectXs(s) == ItemXs(s.items) \o s.having
AggregatesOf(s) == FlattenSeq([i \in DOMAIN SelectXs(s) |-> AggregatesIn(SelectXs(s)[i])])
OfOneName(aggs, x) == SelectSeq(aggs, LAMBDA y : Stripped(y) = Stripped(x))
NumberOf(those, x) == Cardinality(ToSet(SubSeq(those, 1, SelectInSeq(those, LAMBDA y : y = x) - 1)))
Tag(x, n) ==
  LET tag == Fn("eq", <<Lit(n), Lit(n)>>)
  IN IF n = 0 THEN x ELSE [x EXCEPT !.fl = IF @ = <<>> THEN <<tag>> ELSE <<And(@[1], tag)>>]
Tagged(x, aggs) ==
  IF x.e = "agg" THEN Tag(x, NumberOf(OfOneName(aggs, x), x))
  ELSE WithParts(x, [i \in DOMAIN x.a |-> Tagged(x.a[i], aggs)], [i \in DOMAIN x.fl |-> Tagged(x.fl[i], aggs)])
TaggedItem(item, aggs) == IF item.k = "x" THEN [item EXCEPT !.x = Tagged(@, aggs)] ELSE item
DistinctAggregates(s, aggs) ==
  [s EXCEPT !.items = [i \in DOMAIN s.items |-> TaggedItem(s.items[i], aggs)],
            !.having = [i \in DOMAIN s.having |-> Tagged(s.having[i], aggs)]]
DistinctNames(q) ==
  IF q.body.k = "select" THEN [q EXCEPT !.body = DistinctAggregates(@, AggregatesOf(@))] ELSE q

\* Every query: its own predicates first, then the queries inside it, then its names.
RECURSIVE RewriteQuery(_, _), RewriteSet(_, _), InsideFrom(_, _), InsideX(_, _)
InsideX(x, ctes) ==
  [x EXCEPT !.a = [i \in DOMAIN x.a |-> InsideX(x.a[i], ctes)], !.fl = [i \in DOMAIN x.fl |-> InsideX(x.fl[i], ctes)],
            !.s = [i \in DOMAIN x.s |-> RewriteQuery(x.s[i], ctes)]]
InsideXs(xs, ctes) == [i \in DOMAIN xs |-> InsideX(xs[i], ctes)]
InsideFrom(from, ctes) ==
  [i \in DOMAIN from |-> [from[i] EXCEPT !.q = IF @ = <<>> THEN <<>> ELSE <<RewriteQuery(@[1], ctes)>>, !.in = InsideFrom(@, ctes)]]
InsideItem(item, ctes) == [item EXCEPT !.x = InsideX(@, ctes)]
Inside(s, ctes) ==
  [s EXCEPT !.items = [i \in DOMAIN s.items |-> InsideItem(s.items[i], ctes)], !.from = InsideFrom(@, ctes),
            !.where = InsideX(@, ctes), !.keys = InsideXs(@, ctes), !.having = InsideXs(@, ctes)]
RewriteSet(set, ctes) ==
  CASE set.k = "select" -> Inside(PredicatesOf(set, ctes), ctes)
    [] set.k = "query" -> [set EXCEPT !.q = RewriteQuery(@, ctes)]
    [] OTHER -> [set EXCEPT !.sides = <<RewriteSet(set.sides[1], ctes), RewriteSet(set.sides[2], ctes)>>]
RewriteCte(c, ctes) == [c EXCEPT !.q = RewriteQuery(@, ctes)]
RewriteQuery(q, ctes) ==
  DistinctNames([q EXCEPT !.with = [i \in DOMAIN q.with |-> RewriteCte(q.with[i], ctes)], !.body = RewriteSet(@, ctes)])

-----------------------------------------------------------------------------
\* What DataFusion plans: no predicate over a query outside a filter, no name twice in
\* an output, and no two aggregates of one name.
RECURSIVE QueriesIn(_), SelectsIn(_), QueriesOfX(_), QueriesOfFrom(_)
SelectsIn(set) ==
  CASE set.k = "select" -> {set} [] set.k = "query" -> {} [] OTHER -> SelectsIn(set.sides[1]) \cup SelectsIn(set.sides[2])
ParenthesesIn(set) ==
  IF set.k = "query" THEN {set.q} ELSE IF set.k = "select" THEN {} ELSE {side.q : side \in {t \in ToSet(set.sides) : t.k = "query"}}
QueriesOfX(x) == UNION {UNION {QueriesIn(q) : q \in ToSet(y.s)} : y \in LevelOf(x)}
QueriesOfFrom(from) ==
  UNION {UNION {QueriesIn(q) : q \in ToSet(from[i].q)} \cup QueriesOfFrom(from[i].in) : i \in DOMAIN from}
XsOf(s) == ToSet(ItemXs(s.items) \o s.keys \o s.having) \cup {s.where}
QueriesOfSelect(s) == QueriesOfFrom(s.from) \cup UNION {QueriesOfX(x) : x \in XsOf(s)}
QueriesIn(q) ==
  {q} \cup UNION {QueriesIn(q.with[i].q) : i \in DOMAIN q.with} \cup UNION {QueriesIn(p) : p \in ParenthesesIn(q.body)}
    \cup UNION {QueriesOfSelect(s) : s \in SelectsIn(q.body)}
SelectsOf(q) == UNION {SelectsIn(r.body) : r \in QueriesIn(q)}
IsRefused(q) == \E s \in SelectsOf(q) : \E x \in XsOf(s) : Refused \in LevelOf(x)
OverQuery(x) == x.e \in {"in", "exists"}
PlannableItem(x) ==
  \A y \in LevelOf(x) : ~OverQuery(y) /\ (y.e = "agg" => \A z \in LevelOf(y) : z.s = <<>>)
PlannableItems(s) == \A i \in DOMAIN ItemXs(s.items) : PlannableItem(ItemXs(s.items)[i])
PlannableAggregates(aggs) ==
  /\ \A i, j \in DOMAIN aggs : aggs[i] # aggs[j] => Stripped(aggs[i]) # Stripped(aggs[j])
  /\ \A i \in DOMAIN aggs : ~\E y \in LevelOf(aggs[i]) : OverQuery(y)
Written(s) ==
  LET names == [i \in DOMAIN s.items |-> IF s.items[i].n = <<>> THEN s.items[i].x.c ELSE s.items[i].n]
  IN SelectSeq(names, LAMBDA n : n # <<>>)
PlannableNames(s) == IsInjective(Written(s))
Plannable(q) ==
  /\ \A s \in SelectsOf(q) : PlannableItems(s) /\ PlannableAggregates(AggregatesOf(s))
  /\ \A r \in QueriesIn(q) \ {q} : \A s \in SelectsIn(r.body) : PlannableNames(s)

-----------------------------------------------------------------------------
CteNamesOf(q) == UNION {{r.with[i].n : i \in DOMAIN r.with} : r \in QueriesIn(q)}

InitText == \E t \in Texts : text = [of |-> t, q |-> t.q, said |-> "written"]
NameText ==
  /\ text.said = "written"
  /\ text' = [text EXCEPT !.q = NameQuery(@, <<>>, FALSE).q, !.said = "named"]
CountText ==
  /\ text.said = "named"
  /\ LET q == RewriteQuery(text.q, CteNamesOf(text.q))
     IN text' = [text EXCEPT !.q = q, !.said = IF IsRefused(q) THEN "refused" ELSE "counted"]
PlanText ==
  /\ text.said = "counted"
  /\ text' = [text EXCEPT !.said = IF Plannable(text.q) THEN "planned" ELSE "refused"]
NextText == NameText \/ CountText \/ PlanText

-----------------------------------------------------------------------------
(* What a query means.  A frame holds a row and the names of its columns,  *)
(* the rows of its group where there is one; what is read is looked up in   *)
(* the innermost frame that has it.  `w` holds the tables, the CTEs and     *)
(* whether names and nested tests are DuckDB's or DataFusion's.             *)
Missing == -2
OfBool(b) == IF b THEN 1 ELSE 0
Frame(cols, row, rows) == [cols |-> cols, row |-> row, rows |-> rows]
\* A column of a USING join that `*` leaves out answers to its qualifier only.
Named(n, q) == [n |-> n, q |-> q, merged |-> FALSE]
Matches(col, q, c) == Lower(col.n) = Lower(c) /\ (IF q = "" THEN ~col.merged ELSE col.q = q)
RECURSIVE Lookup(_, _, _)
Lookup(frames, q, c) ==
  IF frames = <<>> THEN Missing
  ELSE LET at == {i \in DOMAIN frames[1].cols : Matches(frames[1].cols[i], q, c)}
       IN IF at = {} THEN Lookup(Tail(frames), q, c) ELSE IF Cardinality(at) > 1 THEN Missing ELSE frames[1].row[Min(at)]

RECURSIVE Cases(_)
Cases(vs) == IF Len(vs) = 1 THEN vs[1] ELSE IF vs[1] = 1 THEN vs[2] ELSE Cases(SubSeq(vs, 3, Len(vs)))
Applied(f, vs) ==
  CASE f = "and" -> IF 0 \in ToSet(vs) THEN 0 ELSE IF Null \in ToSet(vs) THEN Null ELSE 1
    [] f = "or" -> IF 1 \in ToSet(vs) THEN 1 ELSE IF Null \in ToSet(vs) THEN Null ELSE 0
    [] f = "isnull" -> OfBool(vs[1] = Null)
    [] f = "case" -> Cases(vs)
    [] Null \in ToSet(vs) -> Null
    [] f = "not" -> 1 - vs[1]
    [] f = "eq" -> OfBool(vs[1] = vs[2])
    [] f = "gt" -> OfBool(vs[1] > vs[2])
    [] f = "plus" -> vs[1] + vs[2]
    [] f = "cast" -> (vs[1] \div 10) * 10
Aggregated(f, vs) ==
  LET known == SelectSeq(vs, LAMBDA v : v # Null) IN
  CASE f = "count" -> Len(known)
    [] known = <<>> -> Null
    [] f = "max" -> Max(ToSet(known))
    [] f = "bool_and" -> Min(ToSet(known))
Member(v, vs) ==
  IF vs = {} THEN 0 ELSE IF v = Null THEN Null ELSE IF v \in vs THEN 1 ELSE IF Null \in vs THEN Null ELSE 0
Negated(neg, v) == IF neg /\ v # Null THEN 1 - v ELSE v

DuckName(item) ==
  IF item.n # <<>> THEN item.n ELSE IF item.x.e = "col" THEN item.x.c ELSE item.prints
PlanName(item) ==
  IF item.n # <<>> THEN item.n ELSE IF item.x.e = "col" THEN item.x.c ELSE <<"as planned">> \o item.prints
Renaming(names, cols) == [i \in DOMAIN names |-> IF i \in DOMAIN cols THEN cols[i] ELSE names[i]]
Visible(names, w) == IF w.duck THEN Dedupe(names) ELSE names
Taken(rel, as, cols, w) ==
  [rel EXCEPT !.cols = [i \in DOMAIN rel.cols |-> Named(Visible(Renaming([j \in DOMAIN rel.cols |-> rel.cols[j].n], cols), w)[i], as)]]
Kept(cols, row) == SelectSeq([i \in DOMAIN cols |-> <<cols[i], row[i]>>], LAMBDA p : ~p[1].merged)
StarOf(item, col) == item.of \in {"", col.q}
Rel(cols, rows) == [cols |-> cols, rows |-> rows]
Pairs(l, r, on) ==
  FlattenSeq([i \in DOMAIN l.rows |->
    FlattenSeq([j \in DOMAIN r.rows |->
      IF \A p \in on : l.rows[i][p[1]] = r.rows[j][p[2]] THEN <<l.rows[i] \o r.rows[j]>> ELSE <<>>])])
Shared(l, r) == {p \in (DOMAIN l.cols) \X (DOMAIN r.cols) : Lower(l.cols[p[1]].n) = Lower(r.cols[p[2]].n)}
Merged(r, on) == [j \in DOMAIN r.cols |-> [r.cols[j] EXCEPT !.merged = \E p \in on : p[2] = j]]
Times(l, r, plain) ==
  LET on == IF plain THEN {} ELSE Shared(l, r) IN Rel(l.cols \o Merged(r, on), Pairs(l, r, on))

RECURSIVE ValueOf(_, _, _), RelationOf(_, _, _), JoinOf(_, _, _), SetAnswer(_, _, _), Answer(_, _, _), WithCtes(_, _, _)
ColumnOf(q, frames, w) == LET r == Answer(q, frames, w) IN {r.rows[i][1] : i \in DOMAIN r.rows}
FirstOf(r) == IF r.rows = <<>> THEN Null ELSE r.rows[1][1]
InGroup(rows, f) == [i \in DOMAIN rows |-> [f EXCEPT !.row = rows[i], !.rows = <<>>]]
ValuesIn(x, group, frames, w) ==
  LET counted == SelectSeq(group, LAMBDA f : x.fl = <<>> \/ ValueOf(x.fl[1], <<f>> \o frames, w) = 1)
  IN [i \in DOMAIN counted |-> IF x.a = <<>> THEN 1 ELSE ValueOf(x.a[1], <<counted[i]>> \o frames, w)]
\* A test that is not a condition of its own is a mark, which has no NULL.
Mark(v, w) == IF v = Null /\ ~w.duck THEN 0 ELSE v
ValueOf(x, frames, w) ==
  CASE x.e = "lit" -> x.v
    [] x.e = "col" -> Lookup(frames, x.q, x.c)
    [] x.e = "fn" -> Applied(x.f, [i \in DOMAIN x.a |-> ValueOf(x.a[i], frames, w)])
    [] x.e = "agg" -> Aggregated(x.f, ValuesIn(x, InGroup(frames[1].rows, frames[1]), Tail(frames), w))
    [] x.e = "in" -> Negated(x.neg, Mark(Member(ValueOf(x.a[1], frames, w), ColumnOf(x.s[1], frames, w)), w))
    [] x.e = "exists" -> OfBool((Answer(x.s[1], frames, w).rows # <<>>) # x.neg)
    [] x.e = "sub" -> FirstOf(Answer(x.s[1], frames, w))
RECURSIVE Holds(_, _, _)
Holds(x, frames, w) ==
  CASE x.e = "fn" /\ x.f = "and" -> Holds(x.a[1], frames, w) /\ Holds(x.a[2], frames, w)
    [] x.e = "in" -> Negated(x.neg, Member(ValueOf(x.a[1], frames, w), ColumnOf(x.s[1], frames, w))) = 1
    [] OTHER -> ValueOf(x, frames, w) = 1

RelationOf(r, frames, w) ==
  CASE r.k = "derived" -> Taken(Answer(r.q[1], frames, w), r.as, r.cols, w)
    [] r.k = "nested" -> JoinOf(r.in, frames, w)
    [] LastNamed(w.ctes, r.n) # 0 -> Taken(w.ctes[LastNamed(w.ctes, r.n)].rel, NameAs(r), r.cols, w)
    [] OTHER -> Taken(Rel([i \in DOMAIN KnownColumns[r.n] |-> Named(KnownColumns[r.n][i], "")], w.d[r.n]), NameAs(r), r.cols, w)
JoinOf(from, frames, w) ==
  IF Len(from) = 1 THEN RelationOf(from[1], frames, w)
  ELSE Times(JoinOf(Front(from), frames, w), RelationOf(Last(from), frames, w), Last(from).plain)

GroupKey(keys, f, frames, w) == [i \in DOMAIN keys |-> ValueOf(keys[i], <<f>> \o frames, w)]
GroupedBy(keys, kept, none, frames, w) ==
  IF keys = <<>> THEN <<[none EXCEPT !.rows = [i \in DOMAIN kept |-> kept[i].row], !.row = IF kept = <<>> THEN @ ELSE kept[1].row]>>
  ELSE LET of == [i \in DOMAIN kept |-> GroupKey(keys, kept[i], frames, w)]
           firsts == SetToSortSeq({i \in DOMAIN kept : \A j \in 1..(i - 1) : of[j] # of[i]}, <)
       IN [g \in DOMAIN firsts |->
             [kept[firsts[g]] EXCEPT !.rows = [i \in 1..Cardinality({j \in DOMAIN kept : of[j] = of[firsts[g]]}) |->
                                                 SelectSeq(kept, LAMBDA f : GroupKey(keys, f, frames, w) = of[firsts[g]])[i].row]]]
IsGrouped(s) == s.keys # <<>> \/ s.having # <<>> \/ AggregatesOf(s) # <<>>
ItemCells(item, f, frames, w) ==
  IF item.k = "x" THEN <<ValueOf(item.x, <<f>> \o frames, w)>>
  ELSE LET kept == SelectSeq(Kept(f.cols, f.row), LAMBDA p : StarOf(item, p[1])) IN [i \in DOMAIN kept |-> kept[i][2]]
ItemColumns(item, cols, w) ==
  IF item.k = "x" THEN <<Named(IF w.duck THEN DuckName(item) ELSE PlanName(item), "")>>
  ELSE SelectSeq(cols, LAMBDA c : ~c.merged /\ StarOf(item, c))
RowOf(s, f, frames, w) == FlattenSeq([i \in DOMAIN s.items |-> ItemCells(s.items[i], f, frames, w)])
Once(rows) == SelectSeq([i \in DOMAIN rows |-> IF \E j \in 1..(i - 1) : rows[j] = rows[i] THEN <<>> ELSE rows[i]], LAMBDA r : r # <<>>)
SelectAnswer(s, from, frames, w) ==
  LET all == [i \in DOMAIN from.rows |-> Frame(from.cols, from.rows[i], <<>>)]
      kept == SelectSeq(all, LAMBDA f : Holds(s.where, <<f>> \o frames, w))
      none == Frame(from.cols, [i \in DOMAIN from.cols |-> Null], <<>>)
      groups == IF IsGrouped(s) THEN GroupedBy(s.keys, kept, none, frames, w) ELSE kept
      had == SelectSeq(groups, LAMBDA f : s.having = <<>> \/ Holds(s.having[1], <<f>> \o frames, w))
      rows == [i \in DOMAIN had |-> RowOf(s, had[i], frames, w)]
  IN Rel(FlattenSeq([i \in DOMAIN s.items |-> ItemColumns(s.items[i], from.cols, w)]), IF s.distinct THEN Once(rows) ELSE rows \o <<>>)
SetAnswer(set, frames, w) ==
  CASE set.k = "select" -> SelectAnswer(set, JoinOf(set.from, frames, w), frames, w)
    [] set.k = "query" -> Answer(set.q, frames, w)
    [] OTHER -> LET l == SetAnswer(set.sides[1], frames, w)
                IN [l EXCEPT !.rows = @ \o SetAnswer(set.sides[2], frames, w).rows]
WithCtes(with, frames, w) ==
  IF with = <<>> THEN w
  ELSE LET c == Head(with)
       IN WithCtes(Tail(with), frames, [w EXCEPT !.ctes = Append(@, [n |-> c.n, rel |-> Taken(Answer(c.q, frames, w), c.n, c.cols, w)])])
Answer(q, frames, w) ==
  LET r == SetAnswer(q.body, frames, WithCtes(q.with, frames, w))
  IN IF q.first THEN [r EXCEPT !.rows = SubSeq(@, 1, Min({1, Len(@)}))] ELSE r

AnswerOn(q, d, duck) == Answer(q, <<>>, [d |-> d, ctes |-> <<>>, duck |-> duck])
StarOnly(q) == q.body.k = "select" /\ \A i \in DOMAIN q.body.items : q.body.items[i].k = "star"
NamesOf(r) == [i \in DOMAIN r.cols |-> r.cols[i].n]
SameRows(l, r) == \A row \in ToSet(l) \cup ToSet(r) : Len(SelectSeq(l, LAMBDA x : x = row)) = Len(SelectSeq(r, LAMBDA x : x = row))

(* The rows of what is planned are those DuckDB answers to the statement as *)
(* it was written, and where it asks for every column of a subquery their   *)
(* names too, whatever NULLs, empty tables and names of one spelling the    *)
(* tables hold; only a statement of a kind that cannot be rewritten is      *)
(* refused.                                                                 *)
SubqueriesMean ==
  /\ text.said = "planned" =>
       \A d \in text.of.worlds :
         LET is == AnswerOn(text.q, d, FALSE)
             meant == AnswerOn(text.of.q, d, TRUE)
         IN SameRows(is.rows, meant.rows) /\ (StarOnly(text.of.q) => NamesOf(is) = NamesOf(meant))
  /\ text.said = "refused" => text.of.may
=============================================================================
