-------------------------------- MODULE MCPlans --------------------------------
(* Statements over an outer table t and an inner table d, each of two columns *)
(* and at most two rows (three where only one of them is read), with NULLs.   *)
EXTENDS Rewrites, FoldPlanner, NarrowJoins

C(q, n) == Col(<<q, n>>)
N(n, x) == Named(<<"", n>>, x)
V(q, n) == Named(<<q, n>>, C(q, n))
T == Table("t", <<"k", "x">>)
D == Table("d", <<"k", "x">>)
Both(q) == <<V(q, "k"), V(q, "x")>>
Dx == C("d", "x")
Dk == C("d", "k")
Tx == Out(<<"t", "x">>)
Tk == Out(<<"t", "k">>)
ByX(desc) == <<By(Dx, desc), By(Dk, FALSE)>>

\* A view that orders its rows, read in one way or another.
View == Alias("v", Sort(ByX(FALSE), 0, Project(Both("d"), D)))
OrderCases ==
  {Project(Both("v"), Filter(Fn(">=", <<C("v", "x"), Lit(1)>>), View)),
   Limit(1, Project(Both("v"), View)),
   Group(<<V("v", "k")>>, <<N("s", Agg("sum", <<C("v", "x")>>))>>, View),
   Sort(<<By(C("v", "k"), TRUE), By(C("v", "x"), FALSE)>>, 0, Project(Both("v"), View)),
   Project(Both("t"), Join("inner", Fn("=", <<C("t", "x"), C("w", "x")>>), T,
                           Alias("w", Limit(1, View))))}

Part(f, a, o, r) == Win(f, a, <<Dk>>, o, r)
Latest(ws, xs, base) ==
  Project(<<Named(<<"", "k">>, C("v", "k"))>>,
    Filter(Fn("=", <<C("v", "rn"), Lit(1)>>), Alias("v", Project(xs, Window(ws, base)))))
Rn == Named(<<"", "rn">>, Part("row_number", <<>>, ByX(TRUE), "whole"))
Sum == Named(<<"", "s">>, Part("sum", <<Dx>>, <<>>, "whole"))
WindowCases ==
  {Latest(<<Rn>>, <<V("d", "k"), V("d", "x"), V("", "rn")>>, D),
   Filter(Fn("=", <<Lit(1), C("v", "rn")>>),
     Alias("v", Project(<<V("d", "k"), V("d", "x"), V("", "s"), V("", "rn")>>, Window(<<Sum>>, Window(<<Rn>>, D))))),
   \* A column named like the key from the other side of a join.
   Filter(Fn("=", <<C("", "rn"), Lit(1)>>),
     Project(<<V("d", "k"), V("t", "k"), V("", "rn")>>,
       Window(<<Rn>>, Join("inner", Fn("=", <<C("t", "x"), Dx>>), T, D)))),
   \* A test of another column than the number.
   Filter(Fn("=", <<C("", "x"), Lit(1)>>),
     Project(<<V("d", "k"), N("x", Dx), V("", "rn")>>, Window(<<Rn>>, D))),
   \* Too many columns to keep, and a partition sum that runs.
   Filter(Fn("=", <<C("", "rn"), Lit(1)>>),
     Project(<<V("d", "x"), V("t", "k"), V("t", "x"), V("", "rn")>>,
       Window(<<Rn>>, Join("inner", Fn("=", <<C("t", "k"), Dk>>), T, D)))),
   Filter(Fn("=", <<C("", "rn"), Lit(1)>>),
     Project(<<V("d", "k"), V("", "s"), V("", "rn")>>,
       Window(<<Rn, Named(<<"", "s">>, Part("sum", <<Dx>>, ByX(FALSE), "rows"))>>, D))),
   Project(Both("d"), Filter(Fn("=", <<Dx, C("", "m")>>),
     Window(<<Named(<<"", "m">>, Part("min", <<Dx>>, <<>>, "whole"))>>, D))),
   Project(Both("d"), Filter(Fn("=", <<C("", "m"), C("", "m")>>),
     Window(<<Named(<<"", "m">>, Part("max", <<Dx>>, <<>>, "whole"))>>, D))),
   Project(<<V("d", "x"), V("", "l")>>,
     Window(<<Named(<<"", "l">>, Part("last_value", <<Dx>>, <<By(Dk, TRUE)>>, "rows"))>>, D)),
   Project(<<V("d", "x"), V("", "l")>>,
     Window(<<Named(<<"", "l">>, Win("last_value", <<Dx>>, <<>>, <<By(Dk, TRUE)>>, "range"))>>, D))}

Row(xs) == Fn("row", xs)
Struct == Fn("named_struct", <<Lit(0), Dk, Lit(0), Dx>>)
DistinctCases ==
  {Group(<<V("d", "k")>>, <<N("n", Distinct("count", <<Dx>>)), N("c", Agg("count", <<Lit(1)>>)),
                            N("m", Agg("min", <<Dx>>)), N("s", Agg("sum", <<Dx>>))>>, D),
   Group(<<>>, <<N("n", Distinct("count", <<Row(<<Dk, Dx>>)>>)), N("m", Distinct("count", <<Dk>>))>>, D),
   Group(<<V("d", "k")>>, <<N("n", Distinct("count", <<Struct>>)), N("c", Agg("count", <<Dx>>))>>, D),
   Group(<<>>, <<N("n", Distinct("count", <<Dx>>)), N("s", Agg("sum", <<Dx>>))>>, D)}

One(p) == Project(<<N("v", Dx)>>, p)
Count(pred, p) == Sub(Project(<<N("n", C("", "c"))>>, Group(<<>>, <<N("c", Agg("count", <<Lit(1)>>))>>, Filter(pred, p))))
Total(pred, p) == Sub(Project(<<N("n", Fn("coalesce", <<C("", "c"), Lit(0)>>))>>,
                        Group(<<>>, <<N("c", Agg("sum", <<Dx>>))>>, Filter(pred, p))))
Keys == Fn("=", <<Dk, Tk>>)
Later == Fn("and", <<Keys, Fn(">=", <<Dx, Tx>>)>>)
TopX(k) == Limit(k, Sort(ByX(TRUE), 0, Filter(Later, D)))
\* Its output and, where it is not of the output, its key beneath the sort.
TopOf(x) == Limit(1, Project(<<N("v", C("", "v"))>>,
              Sort(ByX(TRUE), 0, Project(<<N("v", x)>> \o Both("d"), Filter(Later, D)))))
SubqueryCases ==
  {Project(<<V("t", "k"), N("v", Sub(One(Filter(Keys, D))))>>, T),
   Project(<<N("v", Sub(One(Filter(Fn("=", <<Tx, Fn("+", <<Dx, Lit(1)>>)>>), D))))>>, T),
   Project(Both("t"), Filter(Fn("=", <<Sub(One(Filter(Keys, D))), Lit(2)>>), T)),
   Project(<<N("v", Fn("coalesce", <<Sub(Project(<<N("one", Lit(1))>>, Filter(Keys, D))), Lit(0)>>))>>, T),
   Project(<<N("v", Fn("coalesce", <<Sub(Limit(1, Project(<<N("one", Lit(1))>>,
     Filter(Fn(">", <<Dx, Lit(1)>>), D)))), Lit(0)>>))>>, T),
   Project(<<V("t", "x"), N("n", Count(Fn("=", <<Tx, Fn("+", <<Dx, Lit(1)>>)>>), D))>>, T),
   Project(<<V("t", "x"), N("n", Count(Fn("=", <<Tx, Fn("dec", <<Dx>>)>>), D))>>, T),
   Group(<<V("t", "k")>>, <<N("m", Agg("max", <<Count(Keys, D)>>)), N("c", Agg("count", <<Lit(1)>>))>>, T),
   Group(<<>>, <<N("m", Agg("sum", <<Sub(TopOf(Dx))>>))>>, T),
   Project(<<N("n", Count(Fn("<=", <<Dx, Tx>>), D)), N("s", Total(Later, D)), V("t", "k")>>, T),
   Project(Both("t"), Filter(Fn(">", <<Count(Fn(">=", <<Dx, Tx>>), D), Lit(0)>>), T)),
   Project(<<V("t", "x"), N("v", Sub(TopOf(Dx))), N("w", Sub(TopOf(Dk)))>>, T),
   Project(Both("t"), Filter(Fn("=", <<Sub(TopOf(Dx)), Lit(2)>>), T)),
   Join("left", Truth, T, Alias("r", Lateral(TopX(2)))),
   Join("inner", Truth, T, Alias("r", Lateral(TopX(1)))),
   Join("inner", Truth, T, Alias("r", Lateral(Project(<<N("y", Fn("+", <<Tx, Lit(1)>>))>>, OneRow))))}

\* Signed folds over the nest tables f and g, written for the general path.
Text(null) == [kind |-> "text", null |-> null]
F == Facts("f", [from |-> Text(TRUE), to |-> Text(TRUE), v |-> Text(TRUE), w |-> Text(FALSE)],
           <<"from", "to", "v", "w">>)
G == Facts("g", [from |-> Text(FALSE), v |-> Text(FALSE), n |-> [kind |-> "double", null |-> FALSE]],
           <<"from", "v", "n">>)
Fc(c) == C("f", c)
Gc(c) == C("g", c)
Sized(key, value, p) == Project(<<N("k", key), N("d", value)>>, p)
Cast1(f, x) == Fn(f, <<x>>)
Minus(x) == Fn("neg", <<x>>)
Of(arms) == Alias("u", Union(arms))
Net(p) == Group(<<Named(<<"u", "k">>, C("u", "k"))>>, <<N("net", Agg("sum", <<C("u", "d")>>))>>, p)
Having(op, n, p) == Filter(Fn(op, <<C("", "net"), Lit(n)>>), p)
Credit == Sized(Fc("to"), Cast1("dec", Fc("v")), F)
Debit == Sized(Fc("from"), Minus(Cast1("dec", Fc("v"))), F)
Issued == Sized(Fc("to"), Cast1("dec", Fc("w")), F)
Tag == Lit(<<58>>)
FoldCases ==
  {Having("<>", 0, Net(Of(<<Credit, Debit>>))),
   Net(Of(<<Credit, Debit>>)),
   Net(Of(<<Issued, Sized(Fc("from"), Minus(Cast1("try_dec", Fc("w"))), F)>>)),
   Having(">", 1, Net(Of(<<Sized(Fn("lower", <<Fc("to")>>), Cast1("try_dec", Fc("v")), F),
                           Sized(Fn("text", <<Gc("from")>>), Cast1("huge", Gc("v")), G)>>))),
   \* Not a comparison that a NULL fails.
   Filter(Fn("=", <<Fn("coalesce", <<C("", "net"), Lit(0)>>), Lit(0)>>), Net(Of(<<Credit, Debit>>))),
   Filter(Fn("is not null", <<C("u", "k")>>), Net(Of(<<Credit, Debit>>))),
   \* Not the arm of a fold: filtered, joined, a number that is no cast, a key of doubles.
   Net(Of(<<Issued, Filter(Fn(">", <<C("", "d"), Lit(3)>>), Issued)>>)),
   Net(Of(<<Issued, Sized(Fc("to"), Cast1("dec", Gc("v")), Join("inner", Truth, F, G))>>)),
   Net(Of(<<Sized(Gc("n"), Cast1("dec", Gc("v")), G), Sized(Gc("from"), Cast1("dec", Gc("v")), G)>>)),
   \* Not its sum.
   Group(<<Named(<<"u", "k">>, C("u", "k"))>>, <<N("n", Distinct("count", <<C("u", "d")>>))>>, Of(<<Issued, Issued>>)),
   Group(<<Named(<<"u", "k">>, C("u", "k"))>>, <<N("n", Agg("max", <<C("u", "d")>>))>>, Of(<<Issued, Issued>>)),
   Group(<<Named(<<"u", "k">>, C("u", "k"))>>,
     <<N("net", OfThose(Fn(">", <<C("u", "d"), Lit(0)>>), Agg("sum", <<C("u", "d")>>)))>>, Of(<<Issued, Issued>>)),
   \* Unions in unions, columns renamed and changed over beneath an arm.
   Having("<>", 0, Net(Of(<<Alias("w", Union(<<Credit, Debit>>)),
     Project(<<N("k", Fn("text", <<C("s", "x")>>)), N("d", C("s", "k"))>>,
       Alias("s", Project(<<N("k", Cast1("dec", Gc("v"))), N("x", Fn("upper", <<Gc("from")>>))>>, G)))>>))),
   \* Two columns of a key, one of them tagged, and a limit over it.
   Limit(2, Group(<<Named(<<"u", "l">>, C("u", "l")), Named(<<"u", "k">>, C("u", "k"))>>,
     <<N("net", Agg("sum", <<C("u", "d")>>))>>,
     Of(<<Project(<<N("k", Fc("to")), N("l", Fn("||", <<Tag, Fc("from")>>)), N("d", Cast1("dec", Fc("w")))>>, F),
          Project(<<N("k", Fc("from")), N("l", Fn("concat", <<Fc("to"), Tag>>)), N("d", Cast1("dec", Fc("w")))>>, F)>>)))}

MCCases == FoldCases \cup OrderCases \cup WindowCases \cup DistinctCases \cup SubqueryCases

-----------------------------------------------------------------------------
\* Queries of the native engine: the shape it admits, and other spellings of it.
L(n) == C("", n)
SumD(x) == Agg("sum", <<x>>)
ArmOver(t, key, value) == SelectOf(<<Item(L(key), "addr"), Item(value, "d")>>, FromTable(t))
To == ArmOver("f", "to", Cast1("try_huge", L("v")))
From == SelectOf(<<Item(L("from"), ""), Item(Minus(Cast1("try_huge", L("v"))), "")>>, FromTable("f"))
Base(u) == QueryOf([SelectOf(<<Item(L("addr"), ""), Item(SumD(L("d")), "net")>>, FromUnion(u))
                      EXCEPT !.group = <<L("addr")>>])
Balances == Base(UnionOf(TRUE, Leaf(To), Leaf(From)))
NonZero == Fn("<>", <<SumD(L("d")), Lit(0)>>)
Lowered(x) == SelectOf(<<Item(Fn("lower", <<L("from")>>), "addr"), Item(x, "d")>>, FromTable("g"))
Strict == Cast1("huge", L("v"))
Tagged(c, t) == Fn("||", <<Tag, Fn("text", <<Fn(t, <<L(c)>>)>>)>>)
TwoKeys ==
  QueryOf([SelectOf(<<Item(L("a"), ""), Item(L("b"), ""), Item(SumD(L("d")), "net")>>,
     FromUnion(UnionOf(TRUE,
       Leaf(SelectOf(<<Item(L("from"), "a"), Item(L("to"), "b"), Item(Cast1("try_huge", L("w")), "d")>>, FromTable("f"))),
       Leaf(SelectOf(<<Item(L("to"), ""), Item(Tagged("from", "upper"), ""), Item(Cast1("try_huge", L("v")), "")>>, FromTable("f"))))))
     EXCEPT !.group = <<Lit(1), L("b")>>])
TwoSums ==
  QueryOf([SelectOf(<<Item(L("addr"), "addr"), Item(SumD(L("d")), "x"), Item(Fn("text", <<SumD(L("e"))>>), "y")>>,
     FromUnion(UnionOf(TRUE,
       Leaf(SelectOf(<<Item(L("to"), "addr"), Item(Cast1("try_huge", L("v")), "d"), Item(Minus(Cast1("huge", L("w"))), "e")>>, FromTable("f"))),
       Leaf(SelectOf(<<Item(L("from"), ""), Item(Cast1("huge", L("v")), ""), Item(Cast1("try_huge", L("v")), "")>>, FromTable("g"))))))
     EXCEPT !.group = <<L("addr")>>])
Spellings ==
  {Balances, TwoKeys, TwoSums,
   [Balances EXCEPT !.select.having = <<NonZero>>, !.select.group = <<Lit(1)>>, !.order = <<By(L("addr"), FALSE)>>],
   [Balances EXCEPT !.select.items = <<Item(L("addr"), "addr"), Item(Fn("text", <<SumD(L("d"))>>), "net")>>],
   Base(UnionOf(TRUE, Leaf(To), UnionOf(TRUE, Leaf(Lowered(Strict)), Leaf(From)))),
   Base(UnionOf(TRUE, UnionOf(TRUE, Leaf(To), Leaf(To)), Leaf(From)))}

\* The same with a clause or an expression that the shape has not.
OverF(x) == Base(UnionOf(TRUE, Leaf(To), Leaf(x)))
Offenders ==
  {[Balances EXCEPT !.with = TRUE], [Balances EXCEPT !.limit = 1],
   [Balances EXCEPT !.select.distinct = TRUE],
   [Balances EXCEPT !.order = <<By(L("addr"), TRUE)>>], [Balances EXCEPT !.order = <<By(L("net"), FALSE)>>],
   [Balances EXCEPT !.select.having = <<Fn(">", <<SumD(L("d")), Lit(1)>>)>>],
   [TwoSums EXCEPT !.select.having = <<NonZero>>],
   [TwoKeys EXCEPT !.select.group = <<L("a")>>], [TwoKeys EXCEPT !.select.group = <<L("b"), L("a")>>],
   [Balances EXCEPT !.select.items[2].x = Distinct("sum", <<L("d")>>)],
   [Balances EXCEPT !.select.items[2].x = Agg("max", <<L("d")>>)],
   [Balances EXCEPT !.select.items[2].x = SumD(Fn("+", <<L("d"), Lit(1)>>))],
   [Balances EXCEPT !.select.items[2].x = SumD(L("addr"))],
   [TwoSums EXCEPT !.select.items[2].x = SumD(L("e")), !.select.items[3].x = SumD(L("d"))],
   [Balances EXCEPT !.select.items[1] = Item(L("addr"), "who")],
   [Balances EXCEPT !.select.items = <<Item(SumD(L("d")), "net"), Item(L("addr"), "")>>],
   [Balances EXCEPT !.select.from = FromTable("f")],
   Base(UnionOf(FALSE, Leaf(To), Leaf(To))), Base(Leaf(To)),
   OverF([From EXCEPT !.where = <<Fn(">", <<Fn("try_huge", <<L("v")>>), Lit(1)>>)>>]), OverF([From EXCEPT !.distinct = TRUE]),
   OverF([From EXCEPT !.items = <<Item(L("from"), "")>>]), OverF([From EXCEPT !.items[2].x = L("v")]),
   OverF([From EXCEPT !.items[2].x = Cast1("narrow", L("v"))]),
   OverF([From EXCEPT !.items[1].x = Fn("coalesce", <<L("from"), L("to")>>)])}

\* With a clause that is passed over.
Overlooked ==
  {[Balances EXCEPT !.select.where = <<Fn(">", <<L("d"), Lit(1)>>)>>],
   [Balances EXCEPT !.select.from.limit = 1],
   [Balances EXCEPT !.select.items[2].x = OfThose(Fn(">", <<L("d"), Lit(4)>>), SumD(L("d")))],
   [Balances EXCEPT !.select.items[1] = Item(Fn("upper", <<L("addr")>>), "addr"), !.select.group = <<Lit(1)>>]}

MCQueries == Spellings \cup Offenders \cup Overlooked
MCTableColumns == [f |-> <<"from", "to", "v", "w">>, g |-> <<"from", "v", "n">>]

\* A distinct count beside a count, over no key and perhaps no row.
MCEmptyCases ==
  {Group(<<>>, <<N("n", Distinct("count", <<Dx>>)), N("c", Agg("count", <<Lit(1)>>))>>, D)}
\* A value that is not NULL of a row that is.
MCUnmatchedCases == {Project(<<V("t", "x"), N("v", Sub(TopOf(Fn("coalesce", <<Dk, Lit(0)>>))))>>, T)}

Rows == {[k |-> 1, x |-> 1], [k |-> 1, x |-> 2], [k |-> Null, x |-> 2], [k |-> 2, x |-> Null]}
Upto(n) == UNION {[1..m -> Rows] : m \in 0..n}

MCLeast == -10
FactRows ==
  {[from |-> <<97>>, to |-> <<98>>, v |-> 4, w |-> -4], [from |-> <<65>>, to |-> <<97>>, v |-> Null, w |-> 5],
   [from |-> <<97, 97>>, to |-> <<>>, v |-> -4, w |-> Junk], [from |-> Null, to |-> <<97, 97>>, v |-> Odd, w |-> 6],
   [from |-> <<98>>, to |-> <<98>>, v |-> -9, w |-> Odd], [from |-> <<>>, to |-> Null, v |-> Null, w |-> 3]}
GRows == {[from |-> <<97>>, v |-> 8, n |-> <<49>>], [from |-> <<98>>, v |-> Junk, n |-> <<50>>]}

FactData ==
  {[f |-> S, g |-> U] : S \in UNION {[1..n -> FactRows] : n \in 0..2}, U \in {<<>>} \cup {<<r>> : r \in GRows}}

RECURSIVE Reads(_), ReadsX(_)
ReadsX(x) == UNION {Reads(x.s[i]) : i \in DOMAIN x.s} \cup UNION {ReadsX(x.a[i]) : i \in DOMAIN x.a}
Reads(p) == (IF p.op = "scan" THEN {p.t} ELSE {}) \cup UNION {Reads(p.in[i]) : i \in DOMAIN p.in}
            \cup UNION {ReadsX(x) : x \in Exprs(p)}
MCDataOf(c) ==
  IF Reads(c) \cap {"f", "g"} # {} THEN FactData
  ELSE  IF Reads(c) = {"d"} THEN {[t |-> <<>>, d |-> S] : S \in Upto(3)}
  ELSE {[t |-> S, d |-> U] : S \in Upto(2), U \in Upto(2)}
MCRowsOf(q) == FactData

-----------------------------------------------------------------------------
\* Aggregates over casts of a text column v beside an integer n, written as DuckDB
\* means them; with the rows of which one would lose the value, and whether it is
\* refused as a plan.
A == Facts("a", [v |-> Text(TRUE), n |-> [kind |-> "int", null |-> TRUE], x |-> [kind |-> "float", null |-> TRUE]],
           <<"v", "n", "x">>)
Av == C("a", "v")
An == C("a", "n")
Ax == C("a", "x")
Dc == C("", "d")
Cd(x) == Project(<<N("d", x), Named(<<"a", "n">>, An)>>, A)
Grand(f, x, p) == Group(<<>>, <<N("r", Agg(f, <<x>>))>>, p)
LostBy(f) == Filter(Fn("and", <<Fn("is not null", <<Av>>), Fn("is", <<Fn(f, <<Av>>), Lit(Null)>>)>>), A)
\* A number, but not one of the type; what is no number is NULL either way.
Unfit(f) == Filter(Fn("is not null", <<Fn("exact", <<Av>>)>>), LostBy(f))
None == Filter(Fn("=", <<Lit(0), Lit(1)>>), A)
SumCase(plan, loss, exact) == [plan |-> plan, loss |-> loss, exact |-> exact, refused |-> FALSE]
NoPlanFor(plan) == [plan |-> plan, loss |-> None, exact |-> FALSE, refused |-> TRUE]
Try(f) == Fn(f, <<Av>>)
Minus1(f, x) == Fn(f, <<x>>)
Anm == Alias("l", Project(<<N("m", An)>>, A))
Rounded == Recursive("r", Project(<<N("i", Lit(0)), N("p", Lit(0)), N("q", Lit(0))>>, OneRow),
             Project(<<N("i", Fn("add_int", <<C("r", "i"), Lit(1)>>)), N("p", C("r", "q")), N("q", Try("try_int"))>>,
               Join("inner", Fn("<", <<C("r", "i"), Lit(2)>>),
                    Facts("r", [i |-> [kind |-> "int"], p |-> [kind |-> "int"], q |-> [kind |-> "int"]], <<"i", "p", "q">>), A)))
MCSumCases ==
  {\* Sums: of a HUGEINT its source, whatever its range; of another cast the cast.
   SumCase(Grand("sum", Try("try_huge"), A), None, TRUE),
   SumCase(Group(<<Named(<<"", "n">>, C("s", "n"))>>, <<N("r", Agg("sum", <<C("s", "d")>>))>>,
     Alias("s", Filter(Fn("is not null", <<An>>), Cd(Minus(Try("try_huge")))))), None, TRUE),
   SumCase(Grand("sum", C("u", "d"), Alias("u", Union(<<Project(<<N("d", Minus(Dc))>>, Cd(Try("try_huge"))),
                                                        Project(<<N("e", Try("try_huge"))>>, A)>>))), None, TRUE),
   SumCase(Grand("sum", Dc, Cd(Try("try_dec"))), None, FALSE),
   SumCase(Grand("sum", Fn("add_int", <<An, An>>), A), None, FALSE),
   SumCase(Grand("sum", Fn("coalesce", <<Try("try_int"), Lit(0)>>), A), LostBy("try_int"), FALSE),
   \* Other aggregates: at the cast, or at the column that carries it.
   SumCase(Grand("max", Try("try_dec"), A), LostBy("try_dec"), FALSE),
   SumCase(Grand("count", Minus1("neg_int", Try("try_int")), A), LostBy("try_int"), FALSE),
   SumCase(Grand("min", Dc, Limit(9, Sort(<<By(An, FALSE)>>, 0, Cd(Minus1("neg_int", Try("try_int")))))), Unfit("try_int"), FALSE),
   SumCase(Grand("max", Fn("add_int", <<Dc, An>>), Cd(Try("try_int"))), Unfit("try_int"), FALSE),
   SumCase(Grand("count", C("u", "d"), Alias("u", Union(<<Project(<<N("d", Fn("add_int", <<An, Lit(0)>>))>>, A), Project(<<N("d", Try("try_int"))>>, A)>>))),
           Unfit("try_int"), FALSE),
   SumCase(Grand("count", Dc, Join("left", Fn("=", <<C("l", "n"), C("a", "n")>>),
             Alias("l", Project(<<N("n", An)>>, A)), Filter(Fn("is not null", <<An>>), Cd(Try("try_dec"))))),
           Filter(Fn("is not null", <<An>>), Unfit("try_dec")), FALSE),
   \* A semi or an anti join has the columns of one side, and no source through it.
   SumCase(Grand("max", Fn("add_int", <<C("l", "m"), Lit(0)>>),
             Unique(Join("right anti", Fn("=", <<Dc, C("l", "m")>>), Cd(Try("try_dec")), Anm))), None, FALSE),
   NoPlanFor(Grand("count", Dc, Join("semi", Fn("=", <<An, C("l", "m")>>), Cd(Try("try_dec")), Anm))),
   \* Whether it fits is an exact answer, also within a FILTER; what a filter does
   \* with a NULL is its own affair.
   SumCase(Group(<<>>, <<N("r", OfThose(Fn("is not null", <<Try("try_huge")>>), Agg("count", <<Lit(1)>>)))>>, A), None, TRUE),
   SumCase(Grand("count", Lit(1), Filter(Fn(">", <<Dc, Lit(1)>>), Cd(Try("try_dec")))), None, FALSE),
   SumCase(Project(<<N("s", Fn("add_int", <<An, Minus1("neg_int", An)>>)), N("y", Fn("add_float", <<An, Ax>>)),
                     N("t", Fn("add_dec", <<Fn("coalesce", <<Try("try_dec"), Lit(0)>>), An>>))>>, A), None, FALSE),
   SumCase(Window(<<N("w", Win("sum", <<An>>, <<>>, <<By(An, FALSE)>>, "rows"))>>, A), None, FALSE),
   SumCase(Project(<<N("s", Sub(Grand("max", Try("try_int"), A)))>>, OneRow), LostBy("try_int"), FALSE),
   \* No source to be traced, no form that is checked, or not known to have one.
   NoPlanFor(Grand("max", C("", "p"), Rounded)),
   NoPlanFor(Grand("count", C("", "m"), Group(<<N("m", Try("try_int"))>>, <<N("c", Agg("count", <<Lit(1)>>))>>, A))),
   NoPlanFor(Grand("sum", Dc, Cd(Fn("coalesce", <<Try("try_int"), Lit(0)>>)))),
   NoPlanFor(Grand("count", C("u", "d"), Alias("u", Union(<<Project(<<N("d", An)>>, A), Project(<<N("d", Try("try_int"))>>, A)>>)))),
   NoPlanFor(Grand("max", C("u", "d"), Alias("u", Union(<<Project(<<N("d", Try("try_dec"))>>, A), Project(<<N("d", Try("try_int"))>>, A)>>)))),
   NoPlanFor(Group(<<>>, <<N("r", OfThose(Fn(">", <<Try("try_int"), Lit(1)>>), Agg("count", <<Lit(1)>>)))>>, A)),
   NoPlanFor(Group(<<>>, <<N("r", Distinct("sum", <<An>>))>>, A)),
   NoPlanFor(Grand("product", An, A)),
   NoPlanFor(Project(<<N("h", Fn("hash", <<An>>))>>, A)),
   NoPlanFor(Window(<<N("w", Win("max", <<Dc>>, <<>>, <<>>, "whole"))>>, Cd(Try("try_int"))))}
ARows == {[v |-> v, n |-> n, x |-> 7] : v \in {3, -6, 10, -12, Junk, Null}, n \in {-5, 2}} \cup {[v |-> 4, n |-> Null, x |-> Null]}
MCSumData(c) == {[a |-> S] : S \in UNION {[1..n -> ARows] : n \in 0..2}}

-----------------------------------------------------------------------------
\* Pages over an entity table e and the rows w of its events, and over views of them.
Number == [kind |-> "int", null |-> TRUE]
E == Facts("e", [id |-> Number, v |-> Number], <<"id", "v">>)
W == Facts("w", [id |-> Number, pos |-> Number], <<"id", "pos">>)
Eid == C("e", "id")
Wid == C("w", "id")
Wpos == C("w", "pos")
Plus1(x) == Fn("add_int", <<x, Lit(1)>>)
CountAll == N("n", Agg("count", <<Lit(1)>>))
LastOfW == Group(<<Named(<<"", "id">>, Wid)>>, <<N("last", Agg("max", <<Wpos>>)), CountAll>>, W)
LastW == Alias("l", Project(<<V("", "id"), V("", "last"), V("", "n")>>, LastOfW))
EqId(q) == <<Pair(Eid, C(q, "id"))>>
WithLast == JoinOn("left", EqId("l"), E, LastW)
WithRow == JoinOn("left", <<Pair(C("l", "last"), C("r", "pos"))>>, WithLast, Alias("r", W))
TaggedW == Alias("t", Group(<<Named(<<"", "k">>, Plus1(Wid))>>, <<CountAll>>, W))
NumberedW(k, n) == Alias("k", Project(<<V("w", "id"), N(n, C("", n))>>,
                    Window(<<N(n, Win("row_number", <<>>, k, <<By(Wpos, FALSE)>>, "rows"))>>, W)))
Entity(k) ==
  JoinOn("left", EqId("k"),
    JoinOn("left", <<Pair(Plus1(Eid), C("t", "k"))>>, WithRow, TaggedW), k)
Upward(x) == <<By(x, FALSE)>>
Page(p, whole, order, skip, take, held) ==
  [plan |-> p, whole |-> whole, order |-> order, skip |-> skip, take |-> take, held |-> held]
Whole(p, held) == Page(p, p, <<>>, 0, 9, held)
First(o, n, p, held) == Page(Sort(o, n, p), Sort(o, 0, p), XsOf(o), 0, n, held)
AnyRows(p, n, whole, held) == Page(Limit(n, p), whole, <<>>, 0, n, held)
Over1(right) == JoinOn("left", EqId("w"), E, right)
Twice(kind) == JoinOn(kind, <<Pair(Wid, C("z", "id"))>>, W, Alias("z", W))
OrOne(kind, c) == JoinOn("left", <<Pair(Eid, Fn("coalesce", <<c, Lit(1)>>))>>, E, Twice(kind))
OfW(p) == Project(<<V("w", "id"), V("w", "pos")>>, p)
Kinds == {"left", "semi", "anti"}
ById == Upward(Eid)
PageNarrowed ==
  {\* The chain of an entity view: keys of the kept rows, of a joined side, an expression.
   First(ById, 1, Project(<<V("e", "id"), V("l", "last"), V("r", "id"), V("t", "n"), V("k", "gr")>>,
                          Entity(NumberedW(<<>>, "gr"))), 2),
   First(<<By(C("", "u"), TRUE)>>, 1, Project(<<N("u", Plus1(Eid)), V("l", "n"), V("k", "pr")>>,
                          Entity(NumberedW(<<Wid>>, "pr"))), 2),
   Page(Offset(1, 1, Sort(ById, 2, WithRow)), Sort(ById, 0, WithRow), <<Eid>>, 1, 1, 2),
   First(ById, 2, Over1(W), 1),
   First(ById, 1, JoinOn("left", <<Pair(C("e", "v"), C("l", "n"))>>, E, LastW), 1),
   First(ById, 2, [Over1(W) EXCEPT !.pred = Fn(">", <<Wpos, C("e", "v")>>)], 1),
   First(ById, 1, JoinOn("left", EqId("l"), JoinOn("inner", EqId("w"), E, W), LastW), 1),
   \* A limit with no order, and the optimizer's copy of it.
   AnyRows(JoinOn("left", EqId("l"), Limit(1, E), LastW), 1, WithLast, 1),
   AnyRows(JoinOn("left", EqId("k"), Limit(2, JoinOn("left", EqId("l"), Limit(2, E), LastW)), NumberedW(<<Wid>>, "pr")), 1,
           JoinOn("left", EqId("k"), WithLast, NumberedW(<<Wid>>, "pr")), 1),
   Page(Offset(1, 1, JoinOn("left", EqId("l"), Limit(2, E), LastW)), WithLast, <<>>, 1, 1, 1),
   \* Two keys, of two places.
   First(ById, 2, JoinOn("left", <<Pair(Eid, C("r", "id")), Pair(C("l", "last"), C("r", "pos"))>>, WithLast, Alias("r", W)), 1),
   \* Sides through which the keys pass, or not.
   First(ById, 2, Over1(OfW(Filter(Fn(">", <<Wpos, Lit(1)>>), Sort(Upward(Wpos), 0, W)))), 1),
   First(ById, 2, Over1(Unique(OfW(W))), 1),
   First(ById, 2, Over1(Sort(Upward(Wpos), 1, W)), 1),
   First(ById, 2, Over1(Twice("inner")), 1),
   First(ById, 2, OrOne("right", C("z", "id")), 1), First(ById, 2, OrOne("right", Wid), 1),
   First(ById, 2, OrOne("left", C("z", "id")), 1), First(ById, 2, OrOne("left", Wid), 1)}
  \cup {First(ById, 2, Over1(JoinOn(k, <<Pair(Wid, C("z", "pos"))>>, W, Alias("z", W))), 1) : k \in Kinds}

NullsToo(p) == [p EXCEPT !.nulls = TRUE]
HoldsSub == Filter(Fn("=", <<Wpos, Sub(Project(<<N("m", C("", "m"))>>, Group(<<>>, <<N("m", Agg("min", <<C("s", "pos")>>))>>, Alias("s", W))))>>), W)
PageWhole ==
  {\* Matching NULL to NULL, a side with a subquery, a key that is no same value twice.
   First(ById, 2, NullsToo(Over1(W)), 1),
   First(ById, 2, Over1(HoldsSub), 1),
   First(ById, 2, JoinOn("left", <<Pair(Fn("random", <<Eid>>), Wid)>>, E, W), 1),
   First(Upward(Wid), 2, JoinOn("left", <<Pair(Wid, Eid)>>, HoldsSub, E), 0),
   First(Upward(Fn("random", <<Eid>>)), 1, Over1(W), 0),
   \* Not a page, past the most rows, by a side's order, after a filter.
   Page(Sort(ById, 0, Over1(W)), Sort(ById, 0, Over1(W)), <<Eid>>, 0, 9, 0),
   First(ById, 3, Over1(W), 0),
   First(Upward(Wpos), 1, Over1(W), 0),
   AnyRows(Filter(Fn("=", <<Wpos, Lit(2)>>), Over1(W)), 1, Filter(Fn("=", <<Wpos, Lit(2)>>), Over1(W)), 0),
   \* A term of a recursion.
   Whole(Recursive("n", Project(<<N("i", Lit(1))>>, OneRow), Project(<<N("i", Plus1(C("n", "i")))>>,
          Filter(Fn("<", <<C("n", "i"), Lit(3)>>), Sort(Upward(C("n", "i")), 1,
            JoinOn("left", <<Pair(C("n", "i"), Wid)>>, Facts("n", [i |-> Number], <<"i">>), W))))), 0)}

\* A view over another, each read more than once.
Placed(q) == Alias(q, Project(<<V("", "id"), V("", "last")>>, LastOfW))
Applied(q) == Alias(q, Group(<<Named(<<"", "id">>, C("p", "id"))>>, <<N("m", Agg("min", <<C("p", "last")>>)), CountAll>>,
                JoinOn("inner", EqId("p"), E, Placed("p"))))
Bet == JoinOn("left", <<Pair(C("p", "id"), C("b", "id"))>>,
         JoinOn("left", <<Pair(C("p", "id"), C("a", "id"))>>, Placed("p"), Applied("a")), Applied("b"))
\* Its key is widened where it meets a sum.
Sums == Alias("s", Group(<<V("u", "d")>>, <<CountAll>>, Alias("u", Union(<<Project(<<N("d", C("e", "v"))>>, E),
          Project(<<N("d", C("", "s"))>>, Group(<<>>, <<N("s", Agg("checked_sum", <<Wpos>>))>>, W))>>))))
MostOf == Project(<<N("y", C("q", "m"))>>,
  Alias("q", Group(<<>>, <<N("m", Agg("max", <<Wpos>>))>>, Filter(Fn("=", <<Wid, Out(<<"e", "id">>)>>), W))))
Only(x, p) == Project(<<N("d", x)>>, p)
RankedW == Alias("k", Project(<<V("", "id"), V("", "rn")>>, Window(<<N("rn", Win("row_number", <<>>, <<>>, <<By(C("", "n"), FALSE)>>, "rows"))>>, LastOfW)))
PageShared ==
  {First(Upward(C("p", "id")), 1, Bet, 3),
   Whole(Project(<<N("n", C("a", "n")), N("m", Sub(Only(C("b", "m"), Limit(1, Applied("b")))))>>, Applied("a")), 2),
   Whole(Union(<<Only(C("s", "d"), Sums), Only(C("s", "n"), Sums), Only(C("e", "v"), E)>>), 2),
   \* Not over an aggregate, a window at its top, correlated.
   Whole(Union(<<Only(C("r", "id"), Alias("r", W)), Only(C("r", "pos"), Alias("r", W))>>), 0),
   Whole(Union(<<Only(C("k", "id"), RankedW), Only(C("k", "rn"), RankedW)>>), 0),
   Whole(Project(<<N("n", Sub(MostOf)), N("o", Sub(MostOf))>>, E), 0)}
MCPageCases == PageNarrowed \cup PageWhole \cup PageShared
ERows == {[id |-> 1, v |-> 1], [id |-> 2, v |-> 1], [id |-> Null, v |-> 2]}
WRows == {[id |-> 1, pos |-> 2], [id |-> 1, pos |-> 1], [id |-> 2, pos |-> 2], [id |-> Null, pos |-> Null]}
MCPageData(c) ==
  {[e |-> S, w |-> U] : S \in UNION {[1..n -> ERows] : n \in 0..2}, U \in UNION {[1..n -> WRows] : n \in 0..2}}

\* One statement of either engine; the others rest.
Resting == [case |-> OneRow, plan |-> OneRow, data |-> <<>>, ran |-> Len(Rules), want |-> <<EmptyRow>>]
MCInit ==
  \/ Init /\ query = NoQuery /\ summed = NoSummed /\ page = NoPage
  \/ InitQuery /\ stmt = Resting /\ summed = NoSummed /\ page = NoPage
  \/ InitSummed /\ stmt = Resting /\ query = NoQuery /\ page = NoPage
  \/ InitPage /\ stmt = Resting /\ query = NoQuery /\ summed = NoSummed
MCNext ==
  \/ Next /\ UNCHANGED <<query, summed, page>>
  \/ NextQuery /\ UNCHANGED <<stmt, summed, page>>
  \/ NextSummed /\ UNCHANGED <<stmt, query, page>>
  \/ NextPage /\ UNCHANGED <<stmt, query, summed>>
MCSpec == MCInit /\ [][MCNext]_<<stmt, query, summed, page>>
=============================================================================
