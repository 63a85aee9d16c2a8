------------------------------ MODULE FoldPlanner ------------------------------
(***************************************************************************)
(* plan.rs: the one shape of query the native engine admits, and what it   *)
(* plans it as.  A query is its clauses as parsed; what it means is a plan *)
(* of the general algebra.  Burrmill::query (src/lib.rs) plans it, then    *)
(* runs the fold; the names of an arm after the first are not looked at.   *)
(***************************************************************************)
EXTENDS Plans

CONSTANTS
  Queries,       \* queries as parsed
  RowsOf(_),     \* contents of the tables a query reads
  TableColumns   \* the columns of each table

VARIABLE query

\* SELECT items FROM from WHERE .. GROUP BY .. HAVING ..; an item is an
\* expression and its alias, "" for none.
Item(x, alias) == [x |-> x, alias |-> alias]
SelectOf(items, from) ==
  [distinct |-> FALSE, items |-> items, from |-> from, where |-> <<>>, group |-> <<>>, having |-> <<>>]
FromTable(t) == [op |-> "table", t |-> t, u |-> <<>>, limit |-> 0]
FromUnion(u) == [op |-> "derived", t |-> "", u |-> <<u>>, limit |-> 0]
Leaf(s) == [op |-> "select", all |-> TRUE, s |-> <<s>>, of |-> <<>>]
UnionOf(all, l, r) == [op |-> "union", all |-> all, s |-> <<>>, of |-> <<l, r>>]
QueryOf(s) == [with |-> FALSE, limit |-> 0, order |-> <<>>, select |-> s]

Ident(x) == IF x.e = "col" THEN x.c[2] ELSE ""
IsIdent(x) == x.e = "col"
IsText(x) == x.e = "fn" /\ x.f = "text"
Uncast(x) == IF IsText(x) THEN x.a[1] ELSE x
NameOf(item) == IF item.alias # "" THEN item.alias ELSE Ident(item.x)

-----------------------------------------------------------------------------
\* Keys: columns, literals, lower or upper of a column, and what they make up.
RECURSIVE IsKey(_), PartsOf(_)
IsKey(x) ==
  \/ IsIdent(x) \/ x.e = "lit"
  \/ x.e = "fn" /\ x.f \in {"||", "text"} /\ \A i \in DOMAIN x.a : IsKey(x.a[i])
  \/ x.e = "fn" /\ x.f \in {"lower", "upper"} /\ IsIdent(x.a[1])
PartsOf(x) ==
  CASE IsIdent(x) -> <<Column(Ident(x), "")>>
    [] x.e = "lit" -> <<Literal(x.v)>>
    [] x.f \in {"||", "text"} -> FlattenSeq([i \in DOMAIN x.a |-> PartsOf(x.a[i])])
    [] OTHER -> <<Column(Ident(x.a[1]), x.f)>>

\* Values: [-][TRY_]CAST(column AS a 128-bit integer).
Unsigned(x) == IF x.e = "fn" /\ x.f = "neg" THEN x.a[1] ELSE x
IsValue(x) == LET c == Unsigned(x) IN c.e = "fn" /\ c.f \in {"huge", "try_huge"} /\ IsIdent(c.a[1])
ValueOf(x) == Value(Ident(Unsigned(x).a[1]), Unsigned(x) # x, Unsigned(x).f = "huge")

RECURSIVE ArmsOf(_), AllOfThem(_)
ArmsOf(u) == IF u.op = "select" THEN u.s ELSE FlattenSeq([i \in DOMAIN u.of |-> ArmsOf(u.of[i])])
AllOfThem(u) == u.op = "union" => u.all /\ \A i \in DOMAIN u.of : AllOfThem(u.of[i])

\* SUM(column) and nothing else.
IsSumCall(x) == x.e \in {"agg", "win"} /\ x.f = "sum"
IsSum(x) == x.e = "agg" /\ x.f = "sum" /\ ~x.d /\ x.o = <<>> /\ IsIdent(x.a[1])

\* How many items come before the first sum.
SumsAt(s) == {i \in DOMAIN s.items : IsSumCall(Uncast(s.items[i].x))}
Arity(s) == Min(SumsAt(s)) - 1
KeyNames(s) == [i \in 1..Arity(s) |-> NameOf(s.items[i])]
SumItems(s) == SubSeq(s.items, Arity(s) + 1, Len(s.items))

MatchesArm(s, arity, sums) ==
  /\ ~s.distinct /\ s.where = <<>> /\ s.group = <<>> /\ s.having = <<>>
  /\ Len(s.items) = arity + sums
  /\ \A i \in 1..arity : IsKey(s.items[i].x)
  /\ \A i \in (arity + 1)..Len(s.items) : IsValue(s.items[i].x)
  /\ s.from.op = "table"

ArmOf(s, arity) ==
  Arm(s.from.t, [i \in 1..arity |-> PartsOf(s.items[i].x)],
      [i \in 1..(Len(s.items) - arity) |-> ValueOf(s.items[arity + i].x)])

\* One sum per value column of the union, by position and by name.
SumsMatch(s, first) ==
  \A i \in DOMAIN SumItems(s) :
    Ident(Uncast(SumItems(s)[i].x).a[1]) = NameOf(first.items[Arity(s) + i])

\* GROUP BY every key in order, by name or by ordinal.
GroupsByKeys(s) ==
  /\ Len(s.group) = Arity(s)
  /\ \A i \in 1..Arity(s) : \/ IsIdent(s.group[i]) /\ Ident(s.group[i]) = KeyNames(s)[i]
                            \/ s.group[i] = Lit(i)

IsNonZero(x, name) ==
  x.e = "fn" /\ x.f = "<>" /\ x.a[2] = Lit(0) /\ IsSum(x.a[1]) /\ Ident(x.a[1].a[1]) = name
MatchesHaving(s, first) ==
  s.having # <<>> => IsNonZero(s.having[1], NameOf(first.items[Arity(s) + 1])) /\ Len(SumItems(s)) = 1

OrderIsCanonical(q) ==
  q.order # <<>> => /\ Len(q.order) = 1 /\ IsIdent(q.order[1].x) /\ ~q.order[1].desc
                    /\ Ident(q.order[1].x) = KeyNames(q.select)[1]

MatchesAnyLimit(q) == ~q.with /\ ~q.select.distinct
Clauses(q) == ~q.with /\ q.limit = 0 /\ ~q.select.distinct

\* What a planned query must look like, in the order it is looked at.
Admitted(q) ==
  LET s == q.select IN
  /\ Clauses(q)
  /\ Len(s.items) >= 2 /\ SumsAt(s) # {} /\ Arity(s) > 0
  /\ \A i \in DOMAIN s.items : NameOf(s.items[i]) # ""
  /\ \A i \in DOMAIN SumItems(s) : IsSum(Uncast(SumItems(s)[i].x))
  /\ s.from.op = "derived" /\ AllOfThem(s.from.u[1])
  /\ LET arms == ArmsOf(s.from.u[1])
         first == arms[1]
     IN /\ Len(arms) >= 2
        /\ \A i \in DOMAIN arms : MatchesArm(arms[i], Arity(s), Len(SumItems(s)))
        /\ \A i \in DOMAIN first.items : NameOf(first.items[i]) # ""
        /\ SumsMatch(s, first)
        /\ KeyNames(s)[1] = NameOf(first.items[1])
        /\ GroupsByKeys(s)
        /\ MatchesHaving(s, first)
  /\ OrderIsCanonical(q)

Planned(q) ==
  LET s == q.select  arms == ArmsOf(s.from.u[1]) IN
  Fold([i \in DOMAIN arms |-> ArmOf(arms[i], Arity(s))], KeyNames(s),
       [i \in DOMAIN SumItems(s) |-> NameOf(SumItems(s)[i])], s.having # <<>>)

-----------------------------------------------------------------------------
(* What a query means.                                                     *)
Local(n, x) == Named(<<"", n>>, x)
Deduplicated(names, p) == Group([i \in DOMAIN names |-> Local(names[i], Col(<<"", names[i]>>))], <<>>, p)
Where(pred, p) == IF pred = <<>> THEN p ELSE Filter(pred[1], p)
AtMost(n, p) == IF n = 0 THEN p ELSE Limit(n, p)

MeaningOfArm(s, names) ==
  LET p == Project([i \in DOMAIN s.items |-> Local(names[i], s.items[i].x)],
             Where(s.where, Alias("", Table(s.from.t, TableColumns[s.from.t]))))
  IN IF s.distinct \/ s.group # <<>> THEN Deduplicated(names, p) ELSE p

RECURSIVE MeaningOfUnion(_, _)
MeaningOfUnion(u, names) ==
  IF u.op = "select" THEN MeaningOfArm(u.s[1], names)
  ELSE LET p == Union([i \in DOMAIN u.of |-> MeaningOfUnion(u.of[i], names)]) IN
       IF u.all THEN p ELSE Deduplicated(names, p)

\* The grouped query, its HAVING beside the sums until it has been tested.
Meaning(q) ==
  LET s == q.select
      first == ArmsOf(s.from.u[1])[1]
      names == [i \in DOMAIN first.items |-> NameOf(first.items[i])]
      union == Where(s.where, AtMost(s.from.limit, MeaningOfUnion(s.from.u[1], names)))
      n == Arity(s)
      huge(x) == [x EXCEPT !.f = "sum_huge"]
      having == IF s.having = <<>> THEN Truth
                ELSE [s.having[1] EXCEPT !.a = <<huge(@[1]), @[2]>>]
      by == Cardinality({i \in 1..n : i <= Len(s.group)})
      grouped == Group([i \in 1..by |-> Local(NameOf(s.items[i]), s.items[i].x)],
                       [i \in DOMAIN SumItems(s) |-> Local(NameOf(SumItems(s)[i]), huge(Uncast(SumItems(s)[i].x)))]
                         \o <<Local("having", having)>>, union)
      kept == Filter(Col(<<"", "having">>), grouped)
  IN AtMost(q.limit, kept)

-----------------------------------------------------------------------------
NoQuery == [phase |-> "none"]

InitQuery == \E q \in Queries : \E D \in RowsOf(q) :
  query = [phase |-> "asked", asked |-> q, data |-> D]

Refuse ==
  /\ query.phase = "asked" /\ ~Admitted(query.asked)
  /\ query' = [query EXCEPT !.phase = "not admitted"]

PlanQuery ==
  /\ query.phase = "asked" /\ Admitted(query.asked)
  /\ query' = [phase |-> "planned", asked |-> query.asked, data |-> query.data, plan |-> Planned(query.asked)]

Ran(rows) ==
  [phase |-> IF rows = <<>> THEN "refused" ELSE "answered", asked |-> query.asked,
   data |-> query.data, plan |-> query.plan, rows |-> rows]
RunQuery == query.phase = "planned" /\ query' = Ran(FoldRows(query.plan, query.data))

NextQuery == Refuse \/ PlanQuery \/ RunQuery

-----------------------------------------------------------------------------
Wanted == Eval(Meaning(query.asked), EmptyRow, query.data)

\* Rows as a fold has them: a sum of nothing is 0 beside another sum, and a
\* party of which nothing was read is absent.
FoldedRow(row) ==
  LET s == query.asked.select
      sums == [i \in DOMAIN SumItems(s) |-> row[<<"", NameOf(SumItems(s)[i])>>]]
  IN [keys |-> [i \in 1..Arity(s) |-> row[<<"", KeyNames(s)[i]>>]],
      sums |-> [i \in DOMAIN sums |-> IF sums[i] = Null THEN 0 ELSE sums[i]]]
IsPresent(row) ==
  \E i \in DOMAIN SumItems(query.asked.select) :
    row[<<"", NameOf(SumItems(query.asked.select)[i])>>] # Null
RowsWanted(kept) == [i \in DOMAIN kept |-> FoldedRow(kept[i])]
AnswersAs(wanted) == ~Fails(wanted) /\ Same(query.rows[1], RowsWanted(SelectSeq(wanted, IsPresent)))
AnswersAsAsked == query.phase = "answered" => AnswersAs(Wanted)

\* What the matcher passes over: the outer WHERE, a limit of the derived table,
\* the FILTER of a sum, and whatever an outer key is besides its alias.
IsColumnOf(x, item) == Ident(x) = NameOf(item)
PassedOver(q) ==
  LET s == q.select  first == ArmsOf(s.from.u[1])[1] IN
  \/ s.where # <<>> \/ s.from.limit # 0
  \/ \E i \in DOMAIN SumItems(s) : Uncast(SumItems(s)[i].x).k # <<>>
  \/ \E i \in 1..Arity(s) : ~IsColumnOf(s.items[i].x, first.items[i])

(* A query that is planned, and of which the matcher passes nothing over,  *)
(* answers what SQL says it means, and fails if that fails.  It is the     *)
(* clauses the matcher does test that this is about (plan.rs:220-400).     *)
PlannedAnswers == query.phase = "answered" /\ ~PassedOver(query.asked) => AnswersAsAsked

(* "Everything the shape does not use must be absent rather than ignored"  *)
(* (plan.rs:836): a clause that is written is answered or refused.         *)
NothingDropped == AnswersAsAsked

(* A planned query is refused only over a value that is no integer or has  *)
(* no negation, a NULL key, or a sum outside i128.                         *)
PlannedRefusedForCause ==
  query.phase = "refused" =>
    LET cs == Contributions(query.plan, query.data) IN
    \/ \E b \in ToSet(query.plan.branches) : \E row \in ToSet(query.data[b.table]) :
         \/ KeyIsNull(b, row)
         \/ \E i \in DOMAIN b.values : row[b.values[i].col] \in {Junk, Odd, Least}
    \/ \E c \in ToSet(cs) :
         IF Len(query.plan.sums) = 1 THEN SumOf(cs, c.key, 1) \notin Least..Most
         ELSE ~StaysIn(cs, c.key, c.at)

(* What is planned is answered as asked, or refused for its cause.         *)
PlannedMeans == PlannedAnswers /\ PlannedRefusedForCause
=============================================================================
