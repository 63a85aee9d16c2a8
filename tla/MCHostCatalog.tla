--------------------------- MODULE MCHostCatalog ---------------------------
(* The front of the engine, one part at a time: HostCatalog with one relation, *)
(* two bodies and two columns; a statement measured before it is planned; the  *)
(* subqueries of one, rewritten.                                               *)
EXTENDS HostCatalog, Depth, Subqueries

CONSTANTS t, b1, b2, c1, c2

MCOneRelation == {t}

(* The second body has a column named like a relation. *)
MCColumnsOf == [b \in Bodies |-> IF b = b1 THEN {c1, c2} ELSE {c2, <<t, "public">>}]

MCNoNest == [r \in Relations |-> "absent"]
MCNest == [r \in Relations |-> "wide"]

-----------------------------------------------------------------------------
(* Expressions at and past each bound, in every place of a statement.      *)
OpX(xs) == [X EXCEPT !.k = "op", !.in = xs]
RECURSIVE Chain(_)
Chain(n) == IF n = 1 THEN X ELSE OpX(<<Chain(n - 1), X>>)
Wide(n) == OpX([i \in 1..(n - 1) |-> X])
OneTable == [SelectSet EXCEPT !.from = <<JoinedTo(Factor, <<>>)>>]
Tree(xs) == TreeOf([OneTable EXCEPT !.x = xs])
ReadsX(xs, q) == [X EXCEPT !.k = "reads", !.in = xs, !.q = <<q>>]
CallX == [X EXCEPT !.k = "call"]
OneQuery(q) == [Stmt EXCEPT !.q = <<q>>]
RECURSIVE Nested(_), OpsOf(_, _)
Nested(n) == IF n = 1 THEN Tree(<<X>>) ELSE TreeOf([SelectSet EXCEPT !.from = <<JoinedTo([Factor EXCEPT !.q = <<Nested(n - 1)>>], <<>>)>>])
OpsOf(op, n) == IF n = 0 THEN [OneTable EXCEPT !.x = <<X>>] ELSE SetOf(op, OpsOf(op, n - 1), [OneTable EXCEPT !.x = <<X>>])
UnionQ(n) == TreeOf(OpsOf("union", n))

Probes == {Chain(n) : n \in 1..4} \cup {Wide(n) : n \in {5, 6}}
  \cup {ReadsX(<<>>, Tree(<<Chain(n)>>)) : n \in 1..3} \cup {ReadsX(<<X>>, Nested(2))}
  \cup {[CallX EXCEPT !.in = <<Chain(2)>>, !.order = <<Key(Chain(2), <<X>>)>>]}
  \cup {[CallX EXCEPT !.over = <<WindowOf(<<X>>, <<Key(X, <<>>)>>, <<Chain(n)>>)>>, !.filter = <<Chain(2)>>] : n \in {2, 3}}
TreeWhere(x) == TreeOf([OneTable EXCEPT !.tests = <<x>>])
FromT(f) == TreeOf([SelectSet EXCEPT !.x = <<X>>, !.from = <<JoinedTo(f, <<>>)>>])
Positions(x) ==
  {Tree(<<x>>), Tree(<<X, x>>), TreeWhere(x), [Tree(<<X>>) EXCEPT !.order = <<Key(x, <<>>)>>], [Tree(<<X>>) EXCEPT !.order = <<Key(X, <<x>>)>>],
   [Tree(<<X>>) EXCEPT !.x = <<x>>], [Tree(<<X>>) EXCEPT !.with = <<Tree(<<x>>)>>],
   TreeOf(ValuesOf(<<X, x>>)), TreeOf(InParens(Tree(<<x>>))), TreeOf(SetOf("union", OneTable, [OneTable EXCEPT !.x = <<x>>])),
   FromT([Factor EXCEPT !.x = <<x>>]), FromT([Factor EXCEPT !.order = <<Key(X, <<x>>)>>]), FromT([Factor EXCEPT !.q = <<Tree(<<x>>)>>]),
   FromT([Factor EXCEPT !.t = <<JoinedTo(Factor, <<[f |-> Factor, on |-> <<x>>]>>)>>]),
   TreeOf([SelectSet EXCEPT !.from = <<JoinedTo(Factor, <<[f |-> [Factor EXCEPT !.x = <<x>>], on |-> <<X>>]>>)>>]),
   TreeOf([OneTable EXCEPT !.sorts = <<Key(x, <<>>)>>]), TreeOf([OneTable EXCEPT !.windows = <<WindowOf(<<x>>, <<>>, <<>>)>>]),
   TreeOf([OneTable EXCEPT !.windows = <<WindowOf(<<>>, <<Key(X, <<>>)>>, <<x>>)>>]),
   [Tree(<<X>>) EXCEPT !.pipes = <<[Pipe EXCEPT !.x = <<x>>]>>], [Tree(<<X>>) EXCEPT !.pipes = <<[Pipe EXCEPT !.q = <<Tree(<<x>>)>>]>>],
   [Tree(<<X>>) EXCEPT !.pipes = <<Pipe, [Pipe EXCEPT !.call = <<[CallX EXCEPT !.in = <<x>>]>>]>>],
   [Tree(<<X>>) EXCEPT !.pipes = <<[Pipe EXCEPT !.joins = <<[f |-> Factor, on |-> <<x>>]>>, !.order = <<Key(x, <<>>)>>]>>],
   Tree(<<OpX(<<x>>)>>), Tree(<<ReadsX(<<x>>, Tree(<<X>>))>>), Tree(<<ReadsX(<<>>, TreeWhere(x))>>), Tree(<<[X EXCEPT !.k = "access", !.in = <<X>>, !.subs = <<<<X>>, <<x, X>>>>]>>),
   Tree(<<[CallX EXCEPT !.in = <<x>>, !.filter = <<X>>]>>), Tree(<<[CallX EXCEPT !.order = <<Key(x, <<X>>)>>]>>), Tree(<<[CallX EXCEPT !.limit = <<x>>]>>),
   Tree(<<[CallX EXCEPT !.over = <<WindowOf(<<>>, <<Key(x, <<>>)>>, <<>>)>>]>>), Tree(<<[CallX EXCEPT !.q = <<Tree(<<x>>)>>]>>)}
Writes(kind, x) == [Stmt EXCEPT !.k = kind, !.t = <<JoinedTo(Factor, <<>>)>>, !.x = <<x>>]
Kinds(x) ==
  {[Stmt EXCEPT !.k = "explain", !.s = <<OneQuery(Tree(<<x>>))>>], [Stmt EXCEPT !.k = "insert", !.q = <<Tree(<<x>>)>>, !.x = <<x>>],
   [Stmt EXCEPT !.k = "create", !.q = <<Tree(<<x>>)>>], Writes("update", x), Writes("delete", x), [Stmt EXCEPT !.k = "other", !.x = <<x>>],
   [Writes("update", X) EXCEPT !.order = <<Key(x, <<>>)>>, !.t = <<JoinedTo([Factor EXCEPT !.q = <<Tree(<<x>>)>>], <<>>)>>],
   OneQuery(TreeOf([k |-> "stmt", s |-> [Stmt EXCEPT !.k = "insert", !.q = <<Tree(<<x>>)>>]]))}
Nests ==
  {Nested(n) : n \in 1..4} \cup {UnionQ(n) : n \in 1..4} \cup {TreeOf(OpsOf("minus", n)) : n \in 2..4}
  \cup {Tree(<<ReadsX(<<>>, UnionQ(n)), ReadsX(<<X>>, UnionQ(2))>>) : n \in 1..2}
  \cup {FromT([Factor EXCEPT !.q = <<TreeOf(SetOf("union", InParens(UnionQ(n)), OneTable))>>]) : n \in 1..2}
  \cup {TreeOf(SetOf("union", InParens(Tree(<<ReadsX(<<>>, UnionQ(n))>>)), OpsOf("except", m))) : n \in 0..2, m \in 0..1}
MCStatements ==
  {OneQuery(q) : q \in UNION {Positions(x) : x \in Probes} \cup Nests} \cup UNION {Kinds(x) : x \in Probes}
  \cup {[Stmt EXCEPT !.k = k, !.q = <<q>>] : k \in {"insert", "create"}, q \in Nests}

-----------------------------------------------------------------------------
(* Names that repeat, and predicates over NULLs, in every place of a query. *)
KA == <<"a">>
KB == <<"b">>
KC == <<"c">>
MCKnownColumns == [n \in {"t", "u", "e"} |-> CASE n = "t" -> <<KA, KB>> [] n = "u" -> <<<<"A">>, KC>> [] OTHER -> <<<<"k">>>>]
Rows1 == {<<>>, <<<<1, 12>>, <<Null, 12>>, <<2, 15>>>>, <<<<3, Null>>, <<3, 1>>>>}
Rows2 == {<<>>, <<<<1, 1>>>>, <<<<2, Null>>, <<1, 2>>>>, <<<<Null, 3>>, <<2, 3>>>>}
Worlds == {[n \in {"t", "u", "e"} |-> CASE n = "t" -> r1 [] n = "u" -> r2 [] OTHER -> <<<<1>>>>] : r1 \in Rows1, r2 \in Rows2}
A0 == Col("", KA)
B0 == Col("", KB)
C0 == Col("", KC)
T(n) == TableAs(n, "", <<>>, TRUE)
TAs(n, as) == TableAs(n, as, <<>>, TRUE)
Using(n, as) == TableAs(n, as, <<>>, FALSE)
AllOf(d) == QueryOf(SelectFrom(<<Star("", FALSE)>>, <<d>>, Lit(1)))
Sel(items, from) == QueryOf(SelectFrom(items, from, Lit(1)))
SelWhere(items, from, x) == QueryOf(SelectFrom(items, from, x))
It(x) == Item(x, <<>>, <<"it">>)
As(x, n) == Item(x, n, <<>>)
Plus1 == Item(Fn("plus", <<A0, Lit(1)>>), <<>>, <<"(a + 1)">>)
UnionAll(l, r) == [k |-> "union", sides |-> <<l, r>>]
InnerC == Sel(<<It(C0)>>, <<T("u")>>)
InnerCs == SelWhere(<<It(C0)>>, <<T("u")>>, Fn("eq", <<Col("u", KA), Col("t", KA)>>))
Limited(q) == [q EXCEPT !.first = TRUE]
ByKey(q, x) == [q EXCEPT !.body.keys = <<x>>]
Having(q, x) == [q EXCEPT !.body.having = <<x>>]
Told(q, may) == [q |-> q, may |-> may, worlds |-> Worlds]
D(q) == DerivedAs(q, "d", <<>>)
NamesTexts ==
  {AllOf(D(Sel(<<Star("", FALSE)>>, <<TAs("t", "x"), TAs("u", "y")>>))),
   AllOf(DerivedAs(Sel(<<Star("", FALSE)>>, <<TAs("t", "x"), TAs("u", "y")>>), "", <<>>)),
   AllOf(D(Sel(<<It(A0), As(B0, <<"a", "_1">>), As(B0, <<"A">>)>>, <<T("t")>>))),
   Sel(<<It(Col("d", <<"(a + 1)">>)), It(Col("d", <<"(a + 1)", "_1">>))>>, <<D(Sel(<<Plus1, Plus1>>, <<T("t")>>))>>),
   [AllOf(D(Sel(<<Star("", FALSE), It(Col("", <<"x">>))>>, <<T("c")>>))) EXCEPT !.with = <<CteOf("c", <<<<"x">>>>, Sel(<<It(A0), It(B0)>>, <<T("t")>>))>>],
   [AllOf(T("c")) EXCEPT !.rec = TRUE, !.with = <<CteOf("c", <<>>, Sel(<<It(A0), It(B0)>>, <<T("t")>>))>>],
   AllOf(D(Sel(<<Star("", FALSE)>>, <<TAs("t", "x"), Using("u", "y")>>))),
   AllOf(D(QueryOf(UnionAll(Sel(<<It(A0), It(A0)>>, <<T("t")>>).body, Sel(<<It(C0), It(C0)>>, <<T("u")>>).body)))),
   AllOf(D(Sel(<<Star("x", FALSE), It(Col("y", KA))>>, <<TAs("t", "x"), TAs("u", "y")>>))),
   AllOf(D(Sel(<<Star("", FALSE)>>, <<NestedJoin(<<TAs("t", "x"), TAs("u", "y")>>)>>))),
   AllOf(D(Sel(<<Star("", TRUE)>>, <<T("t")>>))),
   AllOf(D(QueryOf([k |-> "query", q |-> Sel(<<It(A0), It(A0)>>, <<T("t")>>)]))),
   AllOf(DerivedAs(Sel(<<Star("", FALSE)>>, <<TableAs("t", "x", <<KC>>, TRUE)>>), "d", <<<<"z">>>>)),
   [AllOf(T("t")) EXCEPT !.with = <<CteOf("t", <<>>, Sel(<<Plus1, It(A0), It(A0)>>, <<T("t")>>))>>]}
In(x) == InQuery(x, InnerC, FALSE)
NotIn(x) == InQuery(x, InnerC, TRUE)
BoolAnd(x) == Agg("bool_and", <<x>>)
MaxA == Agg("max", <<B0>>)
MaxCast == Agg("max", <<Fn("cast", <<B0>>)>>)
CountTexts ==
  {Sel(<<It(A0), It(In(A0)), It(NotIn(Col("t", KA))), It(InQuery(A0, InnerCs, FALSE))>>, <<T("t")>>),
   Sel(<<It(Exists(InnerCs, FALSE)), It(Exists(InnerCs, TRUE))>>, <<T("t")>>),
   Sel(<<It(NotIn(B0)), It(In(Col("x", KA)))>>, <<TAs("t", "x"), T("e")>>),
   Sel(<<It(Fn("case", <<In(Fn("plus", <<A0, Lit(1)>>)), Lit(5), B0>>))>>, <<T("t")>>),
   Sel(<<It(BoolAnd(In(A0))), It(Agg("count", <<NotIn(A0)>>))>>, <<T("t")>>),
   Sel(<<It(BoolAnd(In(A0))), It(Agg("count", <<In(A0)>>))>>, <<T("t")>>),
   ByKey(Sel(<<It(B0), It(BoolAnd(NotIn(A0)))>>, <<T("t")>>), B0),
   Having(ByKey(Sel(<<It(B0)>>, <<T("t")>>), B0), BoolAnd(NotIn(A0))),
   Having(ByKey(Sel(<<It(B0)>>, <<T("t"), T("e")>>), B0), Fn("or", <<BoolAnd(NotIn(A0)), In(B0)>>)),
   SelWhere(<<It(A0)>>, <<T("t")>>, NotIn(A0)), SelWhere(<<It(A0)>>, <<T("t")>>, And(Fn("gt", <<B0, Lit(1)>>), In(A0))),
   SelWhere(<<It(A0)>>, <<T("t")>>, Fn("or", <<Fn("eq", <<A0, Lit(3)>>), NotIn(A0)>>)),
   SelWhere(<<It(A0)>>, <<T("t")>>, Fn("not", <<InQuery(A0, InnerCs, FALSE)>>)),
   SelWhere(<<It(A0)>>, <<T("t")>>, Fn("isnull", <<In(A0)>>)),
   SelWhere(<<It(A0)>>, <<T("t")>>, Fn("or", <<Exists(InnerCs, FALSE), Fn("eq", <<A0, Lit(3)>>)>>)),
   SelWhere(<<It(A0)>>, <<T("t")>>, InQuery(A0, SelWhere(<<It(C0)>>, <<T("u")>>, Fn("or", <<NotIn(C0), Fn("eq", <<C0, Lit(3)>>)>>)), FALSE)),
   AllOf(D(Sel(<<As(In(A0), <<"p">>), As(NotIn(A0), <<"p">>)>>, <<T("t")>>))),
   QueryOf(UnionAll(Sel(<<It(In(A0))>>, <<T("t")>>).body, Sel(<<It(NotIn(C0))>>, <<TAs("u", "y")>>).body)),
   [Sel(<<It(NotIn(A0))>>, <<T("c")>>) EXCEPT !.with = <<CteOf("c", <<>>, Sel(<<It(A0)>>, <<T("t")>>))>>],
   Sel(<<It(MaxCast), It(MaxA), It(Fn("plus", <<MaxCast, MaxA>>))>>, <<T("t")>>),
   Having(ByKey(Sel(<<It(A0), It(MaxA)>>, <<T("t")>>), A0), Fn("gt", <<MaxCast, Lit(9)>>)),
   Sel(<<It(A0), It(Scalar(Sel(<<It(Fn("plus", <<Agg("max", <<Fn("cast", <<C0>>)>>), Agg("max", <<C0>>)>>))>>, <<T("u")>>)))>>, <<T("t")>>),
   Sel(<<It([MaxCast EXCEPT !.fl = <<Fn("gt", <<Lit(2), A0>>)>>]), It([MaxA EXCEPT !.fl = <<Fn("gt", <<Lit(2), A0>>)>>])>>, <<T("t")>>)}
MayRefuse ==
  {Sel(<<It(InQuery(Col("t", KA), Sel(<<It(C0)>>, <<T("u"), T("t")>>), FALSE))>>, <<T("t")>>),
   Sel(<<It(InQuery(Col("t", KA), Sel(<<It(Col("t", KB))>>, <<TAs("t", "t")>>), FALSE))>>, <<T("t")>>),
   Sel(<<It(InQuery(A0, Limited(InnerC), FALSE))>>, <<T("t")>>),
   Sel(<<It(Exists([InnerC EXCEPT !.body.distinct = TRUE], FALSE))>>, <<T("t")>>),
   Sel(<<It(InQuery(A0, Sel(<<It(Agg("max", <<C0>>))>>, <<T("u")>>), FALSE))>>, <<T("t")>>),
   Sel(<<It(In(A0))>>, <<T("t"), T("u")>>), Sel(<<It(In(A0))>>, <<T("t"), DerivedAs(Sel(<<As(B0, <<"k">>)>>, <<T("t")>>), "d", <<>>)>>),
   SelWhere(<<It(A0)>>, <<T("t")>>, Fn("or", <<Fn("eq", <<A0, Lit(3)>>), InQuery(A0, ByKey(InnerC, C0), TRUE)>>)),
   Sel(<<It(BoolAnd(InQuery(A0, Limited(InnerC), FALSE)))>>, <<T("t")>>),
   Sel(<<It(BoolAnd(In(A0)))>>, <<T("t"), T("e")>>)}
Captured == Sel(<<It(InQuery(Col("t", KA), Sel(<<It(Col("t", KC))>>, <<NestedJoin(<<TAs("u", "t")>>)>>), FALSE))>>, <<T("t")>>)
MCCapturedTexts == {Told(Captured, TRUE)}
MCTexts == {Told(q, FALSE) : q \in NamesTexts \cup CountTexts} \cup {Told(q, TRUE) : q \in MayRefuse}

-----------------------------------------------------------------------------
WalkRests == [stmt |-> Stmt, said |-> "rests", work |-> <<>>, groups |-> <<>>]
TextRests == [of |-> <<>>, q |-> <<>>, said |-> "rests"]
MCInit ==
  /\ Init
  /\ \/ walk = WalkRests /\ text = TextRests
     \/ InitWalk /\ text = TextRests
     \/ walk = WalkRests /\ InitText
MCNext ==
  \/ walk = WalkRests /\ text = TextRests /\ Next /\ UNCHANGED <<walk, text>>
  \/ NextWalk /\ UNCHANGED <<vars, text>>
  \/ NextText /\ UNCHANGED <<vars, walk>>
MCSpec == MCInit /\ [][MCNext]_<<vars, walk, text>>

(* subqueries.rs:531-533: "`x` can move into the subquery's `WHERE` without *)
(* changing what it names: every column in it qualified, by a name the      *)
(* subquery does not bind itself."  So it means there what it meant.        *)
MovedMeansTheSame ==
  text.said = "planned" =>
    \A d \in text.of.worlds : SameRows(AnswerOn(text.q, d, FALSE).rows, AnswerOn(text.of.q, d, TRUE).rows)
=============================================================================
