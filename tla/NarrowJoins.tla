------------------------------ MODULE NarrowJoins ------------------------------
(***************************************************************************)
(* narrow.rs: a page over a chain of left joins.  The rows of a left join  *)
(* are its left side's, each at least once, so the top rows of the chain   *)
(* come of the top rows of that side: these are computed once, and each    *)
(* joined side reads only the keys that they, or the rows of a side joined *)
(* before, carry.  It runs after the optimizer, over each shared subquery  *)
(* and then the statement, on a machine that shares, coerces, narrows and  *)
(* answers one statement.                                                  *)
(***************************************************************************)
EXTENDS SharedPlans

CONSTANTS
  MostRows,      \* the most rows a narrowed side keeps
  PageCases,     \* statements, with what they would be in whole
  PageDataOf(_)  \* contents of the tables one reads

ASSUME NarrowAssumption == MostRows \in Nat

VARIABLE page

RECURSIVE Volatile(_), ColumnsIn(_), Awkward(_), AwkwardX(_)
Volatile(x) == x.f = "random" \/ \E i \in DOMAIN x.a : Volatile(x.a[i])
ColumnsIn(x) == IF x.e = "col" THEN {x.c} ELSE UNION {ColumnsIn(x.a[i]) : i \in DOMAIN x.a}
OverThe(x, p) == ColumnsIn(x) \subseteq ToSet(Schema(p))
\* A subquery, or an expression that holds one or refers out of one.
AwkwardX(x) == x.e \in {"sub", "out"} \/ \E i \in DOMAIN x.a : AwkwardX(x.a[i])
Awkward(p) ==
  p.op = "lateral" \/ (\E x \in ToSet(ExprsOf(p)) : AwkwardX(x)) \/ \E i \in DOMAIN p.in : Awkward(p.in[i])

\* An expression over what a node answers, over what it reads: each column by what
\* computes it, if every one has such.
Behind(p) ==
  CASE p.op = "project" -> [c \in ToSet(Schema(p)) |-> p.xs[IndexOf(c, Schema(p))].x]
    [] p.op = "alias" -> [c \in ToSet(Schema(p)) |-> Col(Schema(p.in[1])[IndexOf(c, Schema(p))])]
    [] p.op = "group" -> [c \in {p.keys[i].n : i \in DOMAIN p.keys} |-> p.keys[IndexOf(c, Schema(p))].x]
RECURSIVE PutIn(_, _)
PutIn(x, of) == IF x.e = "col" THEN of[x.c] ELSE [x EXCEPT !.a = [i \in DOMAIN x.a |-> PutIn(x.a[i], of)]]
Substitute(x, of) == IF ColumnsIn(x) \subseteq DOMAIN of THEN <<PutIn(x, of)>> ELSE Nothing
AllIn(found) == IF Nothing \in ToSet(found) THEN Nothing ELSE <<[i \in DOMAIN found |-> found[i][1]]>>
OrderThrough(s, of) ==
  LET x == Substitute(s.x, of) IN IF x = Nothing \/ Volatile(x[1]) THEN Nothing ELSE <<By(x[1], s.desc)>>
OrderBehind(order, of) == AllIn([i \in DOMAIN order |-> OrderThrough(order[i], of)])
PairThrough(pair, of) ==
  LET x == Substitute(pair.r, of) IN IF x = Nothing THEN Nothing ELSE <<Pair(pair.l, x[1])>>
PairsBehind(on, of) == AllIn([i \in DOMAIN on |-> PairThrough(on[i], of)])

-----------------------------------------------------------------------------
\* The rows whose keys are among `keys`, below whatever these pass through unchanged.
PartitionsEvery(x, w) ==
  /\ ColumnsIn(x) # {}
  /\ \A c \in ColumnsIn(x) : c \in ToSet(Schema(w.in[1])) /\ \A i \in DOMAIN w.xs : Col(c) \in ToSet(w.xs[i].x.k)
InTo(at, on) == <<[at |-> at, on |-> on]>>
Mapped(on) == IF on = Nothing THEN Nothing ELSE InTo(1, on[1])
Steady(on) == IF on # Nothing /\ \E i \in DOMAIN on[1] : Volatile(on[1][i].r) THEN Nothing ELSE on
EachOver(on, p) == \A i \in DOMAIN on : OverThe(on[i].r, p)
KeepsLeft == {"inner", "left", "semi", "anti"}
KeepsRight == {"inner", "right"} \cup OfOneRight
BelowWith(p, on) ==
  CASE p.op = "project" -> Mapped(Steady(PairsBehind(on, Behind(p))))
    [] p.op \in {"alias", "group"} -> Mapped(PairsBehind(on, Behind(p)))
    [] p.op \in {"filter", "unique"} \/ (p.op = "sort" /\ p.n = 0) -> InTo(1, on)
    [] p.op = "window" -> IF \A i \in DOMAIN on : PartitionsEvery(on[i].r, p) THEN InTo(1, on) ELSE Nothing
    [] p.op = "join" -> IF p.t \in KeepsLeft /\ EachOver(on, p.in[1]) THEN InTo(1, on)
                        ELSE IF p.t \in KeepsRight /\ EachOver(on, p.in[2]) THEN InTo(2, on) ELSE Nothing
    [] OTHER -> Nothing
RECURSIVE Semi(_, _, _), SemiBelow(_, _, _, _)
SemiBelow(p, on, keys, below) ==
  IF below = Nothing THEN JoinOn("right semi", on, keys, p)
  ELSE [p EXCEPT !.in[below[1].at] = Semi(p.in[below[1].at], below[1].on, keys)]
Semi(p, on, keys) == SemiBelow(p, on, keys, BelowWith(p, on))

-----------------------------------------------------------------------------
(* What a plan is narrowed with: the subqueries defined, references to the *)
(* rows kept, the sides narrowed so far, each with its reference once a    *)
(* later join has taken keys from it, and the number of keys' aliases.     *)
Cx(added) == [added |-> added, kept |-> <<>>, sides |-> <<>>, fresh |-> 0]
Turned(cx, out) == [cx |-> cx, out |-> out]

HeldIds == <<"held 1", "held 2", "held 3", "held 4">>
DefinitionOf(cx, plan) == [id |-> HeldIds[Len(cx.added) + 1], def |-> plan]
Defined(cx, plan) == [cx EXCEPT !.added = Append(@, DefinitionOf(cx, plan))]
ReadOf(d) == ReferenceTo(d.id, d.def)
NarrowedTo(p) == Marked("narrowed", "", 0, p)

\* Where an expression comes from: rows that are narrowed already, and it over them.
RECURSIVE Trace(_, _, _), TraceOnward(_, _, _)
TraceOnward(found, p, cx) == IF found = Nothing THEN Nothing ELSE Trace(found[1], p, cx)
Trace(x, p, cx) ==
  CASE Volatile(x) -> Nothing
    [] p \in ToSet(cx.kept) \/ p.op = "side" -> <<[from |-> p, x |-> x]>>
    [] p.op \in {"narrowed", "limit"} -> Trace(x, p.in[1], cx)
    [] p.op \in {"project", "alias"} -> TraceOnward(Substitute(x, Behind(p)), p.in[1], cx)
    [] p.op = "join" /\ p.t = "left" ->
         IF OverThe(x, p.in[1]) THEN Trace(x, p.in[1], cx) ELSE IF OverThe(x, p.in[2]) THEN Trace(x, p.in[2], cx) ELSE Nothing
    [] OTHER -> Nothing

\* The pairs of a join whose left key is traced to one and the same place, the first's.
TracedPairs(on, traces) ==
  LET at == SelectSeq([i \in DOMAIN on |-> i], LAMBDA i : traces[i] # Nothing)
  IN SelectSeq([i \in DOMAIN at |-> [from |-> traces[at[i]][1].from, x |-> traces[at[i]][1].x, r |-> on[at[i]].r]],
               LAMBDA q : q.from = traces[at[1]][1].from)

SemiNames == <<"k1", "k2">>
KeyAliases == <<"keys 1", "keys 2", "keys 3", "keys 4">>
KeyCol(i) == <<"", SemiNames[i]>>
KeysOf(pairs, source) ==
  Group([i \in DOMAIN pairs |-> Named(KeyCol(i), Col(KeyCol(i)))], <<>>,
        Project([i \in DOMAIN pairs |-> Named(KeyCol(i), pairs[i].x)], source))
Few(from, keys) == IF from.op = "side" THEN keys ELSE NarrowedTo(keys)
ReadBy(cx, j, pairs, source) ==
  Turned([cx EXCEPT !.fresh = @ + 1],
    <<Semi(j.in[2], [i \in DOMAIN pairs |-> Pair(Col(<<KeyAliases[cx.fresh + 1], SemiNames[i]>>), pairs[i].r)],
           Alias(KeyAliases[cx.fresh + 1], Few(pairs[1].from, KeysOf(pairs, source))))>>)

\* A side is held once a later join reads its keys.
HoldSide(cx, i) ==
  IF cx.sides[i].ref # Nothing THEN cx
  ELSE [Defined(cx, cx.sides[i].plan) EXCEPT !.sides[i].ref = <<ReadOf(DefinitionOf(cx, cx.sides[i].plan))>>]
FromSide(cx, i, j, pairs) == ReadBy(cx, j, pairs, cx.sides[i].ref[1])

ReduceBy(pairs, j, cx) ==
  IF pairs = <<>> THEN Turned(cx, Nothing)
  ELSE IF pairs[1].from.op = "side" THEN FromSide(HoldSide(cx, pairs[1].from.n), pairs[1].from.n, j, pairs)
  ELSE ReadBy(cx, j, pairs, pairs[1].from)
ReduceNulls(left, j, cx) ==
  IF Awkward(j.in[2]) THEN Turned(cx, Nothing)
  ELSE ReduceBy(TracedPairs(j.on, [i \in DOMAIN j.on |-> Trace(j.on[i].l, left, cx)]), j, cx)
Reduce(left, j, cx) ==
  IF j.nulls \/ Awkward(j.in[2]) THEN Turned(cx, Nothing)
  ELSE ReduceBy(TracedPairs(j.on, [i \in DOMAIN j.on |-> Trace(j.on[i].l, left, cx)]), j, cx)

\* The top rows of a plan, computed once.
TopOfPlan(p, order, n) == IF order = <<>> THEN Limit(n, p) ELSE Sort(order, n, p)
KeptAs(cx, d) == Turned([Defined(cx, d.def) EXCEPT !.kept = Append(@, ReadOf(d))], <<NarrowedTo(ReadOf(d))>>)
KeepRows(p, order, n, cx) == KeptAs(cx, DefinitionOf(cx, TopOfPlan(p, order, n)))

SideOf(cx, plan) == Marked("side", "", Len(cx.sides) + 1, plan)
WithSide(j, left, cx, plan) ==
  Turned([cx EXCEPT !.sides = Append(@, [plan |-> plan, ref |-> Nothing])],
         <<[j EXCEPT !.in = <<left, SideOf(cx, plan)>>]>>)
RightTurned(j, left, r) ==
  IF r.out = Nothing THEN Turned(r.cx, <<[j EXCEPT !.in = <<left, j.in[2]>>]>>) ELSE WithSide(j, left, r.cx, r.out[1])
LeftTurned(j, l) ==
  IF l.out = Nothing THEN l ELSE RightTurned(j, l.out[1], Reduce(l.out[1], j, l.cx))
OrKept(j, l, order, n) ==
  IF l.out # Nothing \/ Awkward(j.in[1]) THEN l ELSE KeepRows(j.in[1], order, n, l.cx)

WithInput(p, d) == IF d.out = Nothing THEN d ELSE Turned(d.cx, <<[p EXCEPT !.in = d.out]>>)
AsFew(p, d) == IF d.out = Nothing \/ p.n > MostRows THEN d ELSE Turned(d.cx, <<NarrowedTo(d.out[1])>>)

RECURSIVE Descend(_, _, _, _), DescendBehind(_, _, _, _)
DescendBehind(p, order, n, cx) ==
  IF order = Nothing THEN Turned(cx, Nothing) ELSE WithInput(p, Descend(p.in[1], order[1], n, cx))
Descend(p, order, n, cx) ==
  CASE p.op \in {"project", "alias"} -> DescendBehind(p, OrderBehind(order, Behind(p)), n, cx)
    \* The optimizer's copy of a limit.
    [] p.op = "limit" /\ order = <<>> /\ p.skip = 0 /\ p.n >= n ->
         AsFew(p, WithInput(p, Descend(p.in[1], order, n, cx)))
    [] p.op = "join" /\ p.t = "left" /\ \A i \in DOMAIN order : OverThe(order[i].x, p.in[1]) ->
         LeftTurned(p, OrKept(p, Descend(p.in[1], order, n, cx), order, n))
    [] OTHER -> Turned(cx, Nothing)

\* A sort with a limit, or a limit: each side a later join read is its reference now,
\* any other streams into its join as before.
SidesOf(cx) == [i \in DOMAIN cx.sides |-> Marked("side", "", i, cx.sides[i].plan)]
Settled(cx) == [i \in DOMAIN cx.sides |-> IF cx.sides[i].ref = Nothing THEN cx.sides[i].plan ELSE cx.sides[i].ref[1]]
Settle(p, d) ==
  Turned([d.cx EXCEPT !.sides = <<>>], <<[p EXCEPT !.in = <<Swap(d.out[1], SidesOf(d.cx), Settled(d.cx))>>]>>)
NarrowedAt(p, d) == IF d.out = Nothing THEN d ELSE Settle(p, d)
IsTop(p) == p.op = "sort" /\ p.n # 0 /\ p.n <= MostRows /\ ~\E i \in DOMAIN p.o : Volatile(p.o[i].x)
At(p, cx) ==
  IF IsTop(p) THEN NarrowedAt(p, Descend(p.in[1], p.o, p.n, cx))
  ELSE IF p.op = "limit" /\ p.skip + p.n <= MostRows THEN NarrowedAt(p, Descend(p.in[1], <<>>, p.skip + p.n, cx))
  ELSE Turned(cx, Nothing)

\* Outermost first, and no further where one is narrowed; nothing of a recursion is
\* computed once for the statement.
RECURSIVE NarrowIn(_, _), NarrowInputs(_, _, _), NarrowTried(_, _), NarrowNext(_, _, _)
NarrowNext(p, i, r) == NarrowInputs([p EXCEPT !.in[i] = r.out[1]], i + 1, r.cx)
NarrowInputs(p, i, cx) == IF i > Len(p.in) THEN Turned(cx, <<p>>) ELSE NarrowNext(p, i, NarrowIn(p.in[i], cx))
NarrowTried(p, d) == IF d.out # Nothing THEN d ELSE NarrowInputs(p, 1, d.cx)
NarrowIn(p, cx) == IF p.op = "recursive" THEN Turned(cx, <<p>>) ELSE NarrowTried(p, At(p, cx))

\* Over each definition there is, then the statement; what is defined comes after.
RECURSIVE NarrowEach(_, _, _)
NarrowOne(done, id, d) == [done |-> Append(done, [id |-> id, def |-> d.out[1]]), added |-> d.cx.added]
NarrowEach(done, later, added) ==
  IF later = <<>> THEN [done |-> done, added |-> added]
  ELSE LET one == NarrowOne(done, Head(later).id, NarrowIn(Head(later).def, Cx(added)))
       IN NarrowEach(one.done, Tail(later), one.added)
Narrow(p) ==
  LET all == NarrowEach(<<>>, Append(DefsOf(p), [id |-> "body", def |-> BodyOf(p)]), <<>>)
  IN WithDefs(Front(all.done) \o all.added, Last(all.done).def)

-----------------------------------------------------------------------------
NoPage == [phase |-> "none"]
InitPage == \E c \in PageCases : \E D \in PageDataOf(c) :
  page = [phase |-> "analyzed", case |-> c, data |-> D, plan |-> c.plan]

Became(phase, plan) == page' = [page EXCEPT !.phase = phase, !.plan = plan]
Share == page.phase = "analyzed" /\ Became("shared", ShareRepeats(page.plan))
Coerce == page.phase = "shared" /\ Became("coerced", OverShared(page.plan))
NarrowPage == page.phase = "coerced" /\ Became("narrowed", Narrow(page.plan))
AnswerPage ==
  /\ page.phase = "narrowed"
  /\ page' = [phase |-> "answered", case |-> page.case, data |-> page.data,
              rows |-> Eval(page.plan, EmptyRow, page.data)]
NextPage == Share \/ Coerce \/ NarrowPage \/ AnswerPage

-----------------------------------------------------------------------------
\* Nothing that is worth sharing is computed twice.
AllShared == page.phase = "shared" => Repeated(Found(page.plan)) = {}
\* A reference has the columns and the types of its definition, and the arms of a
\* union are of one type, whatever a rule made of a definition.
RECURSIVE Nodes(_)
Nodes(p) == {p} \cup UNION {Nodes(Beside(p)[i]) : i \in DOMAIN Beside(p)}
TrueTo(p, defs) == \A i \in DOMAIN defs :
  defs[i].id = p.t => Len(p.cols) = Len(Schema(defs[i].def)) /\ p.types = TypesOf(defs[i].def)
Typed(p, defs) ==
  CASE p.op = "ref" -> p.t \in {defs[i].id : i \in DOMAIN defs} /\ TrueTo(p, defs)
    [] p.op = "union" -> \A j \in DOMAIN p.in : TypesOf(p.in[j]) = TypesOf(p.in[1])
    [] OTHER -> TRUE
WellTyped == page.phase \in {"coerced", "narrowed"} => \A p \in Nodes(page.plan) : Typed(p, DefsOf(page.plan))
\* Each of what is held is computed once: what repeats, the rows kept, and a side
\* whose keys a later join reads.
HeldOnce == page.phase = "narrowed" => Len(DefsOf(page.plan)) = page.case.held
\* A page of the whole answer: as many rows, of the same keys in the same order, and
\* each of them a row of it as often; ties are broken as may be.
Times(r, rows) == Cardinality({i \in DOMAIN rows : rows[i] = r})
KeysOfRows(rows) == [i \in DOMAIN rows |-> [j \in DOMAIN page.case.order |-> Val(page.case.order[j], rows[i], EmptyRow, page.data)]]
Slice(all, c) == SubSeq(all, c.skip + 1, Min({Len(all), c.skip + c.take}))
PageOfWhole(all) ==
  /\ KeysOfRows(page.rows) = KeysOfRows(Slice(all, page.case))
  /\ \A r \in ToSet(page.rows) : Times(r, page.rows) <= Times(r, all)
PageKept == page.phase = "answered" => PageOfWhole(Eval(page.case.whole, EmptyRow, page.data))

(* A page over left joins and shared subqueries answers as the whole       *)
(* answer does, with each subquery that is worth it computed once.         *)
PageAnswered == AllShared /\ WellTyped /\ HeldOnce /\ PageKept
=============================================================================
