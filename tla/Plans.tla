--------------------------------- MODULE Plans ---------------------------------
(***************************************************************************)
(* Logical plans of DataFusion and what they answer, as far as the rules   *)
(* of the engine tell them apart.  A column is a pair of qualifier and     *)
(* name, a row a function from its columns to values, an answer a sequence *)
(* of rows.  Ties of an order are broken by arrival.  A signed fold put in *)
(* the place of an aggregate answers what SignedFold says.                 *)
(***************************************************************************)
EXTENDS SignedFold, TLC

CONSTANTS
  DecimalMost,  \* the largest magnitude of DECIMAL(38, 0), 10^38 - 1
  IntMost,      \* the largest value of an integer column's type
  OddReads      \* what DataFusion reads an odd text as

ASSUME PlansAssumption ==
  /\ Cardinality({Null, Failed, Junk, Odd}) = 4
  /\ Least < -DecimalMost /\ DecimalMost < Most /\ 0 < IntMost /\ IntMost < DecimalMost

-----------------------------------------------------------------------------
(* Expressions: a column, an outer reference, a literal, a call, an        *)
(* aggregate, a window, a scalar subquery.                                 *)
X == [e |-> "", f |-> "", c |-> <<"", "">>, v |-> Null, a |-> <<>>, s |-> <<>>,
      o |-> <<>>, k |-> <<>>, d |-> FALSE, r |-> ""]
Col(c) == [X EXCEPT !.e = "col", !.c = c]
Out(c) == [X EXCEPT !.e = "out", !.c = c]
Lit(v) == [X EXCEPT !.e = "lit", !.v = v]
Fn(f, a) == [X EXCEPT !.e = "fn", !.f = f, !.a = a]
Truth == Fn("true", <<>>)
Agg(f, a) == [X EXCEPT !.e = "agg", !.f = f, !.a = a]
AggBy(f, a, o) == [Agg(f, a) EXCEPT !.o = o]
Distinct(f, a) == [Agg(f, a) EXCEPT !.d = TRUE]
Win(f, a, k, o, r) == [X EXCEPT !.e = "win", !.f = f, !.a = a, !.k = k, !.o = o, !.r = r]
Sub(q) == [X EXCEPT !.e = "sub", !.s = <<q>>]

Named(n, x) == [n |-> n, x |-> x]
By(x, desc) == [x |-> x, desc |-> desc]
And(S) == IF Len(S) = 1 THEN S[1] ELSE Fn("and", S)

P == [op |-> "", in |-> <<>>, xs |-> <<>>, keys |-> <<>>, cols |-> <<>>, pred |-> Truth,
      o |-> <<>>, n |-> 0, skip |-> 0, t |-> "", on |-> <<>>, nulls |-> FALSE, types |-> <<>>,
      fold |-> <<>>]
Table(t, names) == [P EXCEPT !.op = "scan", !.t = t, !.cols = [i \in DOMAIN names |-> <<t, names[i]>>]]
\* A table of the nest: types of its columns, NULL or not.
Facts(t, types, names) == [Table(t, names) EXCEPT !.types = types]
Union(arms) == [P EXCEPT !.op = "union", !.in = arms]
Owned(fold, cols) == [P EXCEPT !.op = "fold", !.fold = fold, !.cols = cols]
OneRow == [P EXCEPT !.op = "one"]
Filter(x, p) == [P EXCEPT !.op = "filter", !.pred = x, !.in = <<p>>]
Project(xs, p) == [P EXCEPT !.op = "project", !.xs = xs, !.in = <<p>>]
Alias(q, p) == [P EXCEPT !.op = "alias", !.t = q, !.in = <<p>>]
Window(xs, p) == [P EXCEPT !.op = "window", !.xs = xs, !.in = <<p>>]
Group(keys, xs, p) == [P EXCEPT !.op = "group", !.keys = keys, !.xs = xs, !.in = <<p>>]
Sort(o, fetch, p) == [P EXCEPT !.op = "sort", !.o = o, !.n = fetch, !.in = <<p>>]
Limit(n, p) == [P EXCEPT !.op = "limit", !.n = n, !.in = <<p>>]
Lateral(p) == [P EXCEPT !.op = "lateral", !.in = <<p>>]
\* A recursive CTE: its seed, and what a round makes of the last one's rows, read as t.
Recursive(t, seed, round) == [P EXCEPT !.op = "recursive", !.t = t, !.in = <<seed, round>>]
Join(t, x, l, r) == [P EXCEPT !.op = "join", !.t = t, !.pred = x, !.in = <<l, r>>]
\* By pairs of keys, which NULL meets only if nulls says so.
Pair(l, r) == [l |-> l, r |-> r]
JoinOn(t, on, l, r) == [Join(t, Truth, l, r) EXCEPT !.on = on]
Offset(skip, n, p) == [Limit(n, p) EXCEPT !.skip = skip]
Unique(p) == [P EXCEPT !.op = "unique", !.in = <<p>>]

\* A subquery read by name, with the columns it is said to have; a statement after
\* the subqueries it reads; a mark on a plan.
Reference(id, cols, types) == [P EXCEPT !.op = "ref", !.t = id, !.cols = cols, !.types = types]
WithDefinitions(ids, defs, body) == [P EXCEPT !.op = "defs", !.cols = ids, !.in = Append(defs, body)]
Marked(op, t, n, p) == [P EXCEPT !.op = op, !.t = t, !.n = n, !.in = <<p>>]

\* One after the other, each computed once.
InTurn(seqs) == FlattenSeq(seqs \o <<>>)

IndexOf(c, s) == CHOOSE i \in DOMAIN s : s[i] = c

Marks == {"shared", "narrowed", "side"}

\* Joins that answer the rows of one side.
OfOneLeft == {"semi", "anti"}
OfOneRight == {"right semi", "right anti"}

RECURSIVE Schema(_)
Schema(p) ==
  LET names(xs) == [i \in DOMAIN xs |-> xs[i].n] IN
  CASE p.op \in {"scan", "fold", "ref"} -> p.cols
    [] p.op = "defs" -> Schema(Last(p.in))
    [] p.op = "union" -> LET s == Schema(p.in[1]) IN [i \in DOMAIN s |-> <<"", s[i][2]>>]
    [] p.op = "one" -> <<>>
    [] p.op \in {"filter", "sort", "limit", "lateral", "recursive", "unique"} \cup Marks -> Schema(p.in[1])
    [] p.op = "join" /\ p.t \in OfOneLeft -> Schema(p.in[1])
    [] p.op = "join" /\ p.t \in OfOneRight -> Schema(p.in[2])
    [] p.op = "project" -> names(p.xs)
    [] p.op = "alias" -> LET s == Schema(p.in[1]) IN [i \in DOMAIN s |-> <<p.t, s[i][2]>>]
    [] p.op = "window" -> Schema(p.in[1]) \o names(p.xs)
    [] p.op = "group" -> names(p.keys) \o names(p.xs)
    [] p.op = "join" -> Schema(p.in[1]) \o Schema(p.in[2])

-----------------------------------------------------------------------------
Compare(f, x, y) ==
  CASE f = "=" -> x = y [] f = "<>" -> x # y [] f = "<" -> x < y [] f = "<=" -> x <= y [] f = ">" -> x > y
    [] f = ">=" -> x >= y [] f = "+" -> x + y

Present(v) == SelectSeq(v, LAMBDA x : x # Null)
Present1(v) == IF Present(v) = <<>> THEN Null ELSE Present(v)[1]

\* A key of bytes: a mark and the value of each field.
RowKey(v) == FlattenSeq([i \in DOMAIN v |-> IF v[i] = Null THEN <<0>> ELSE <<1, v[i]>>])

\* burrmill_single of a row count and a value.
Single(pair) == IF pair = Null THEN Null ELSE IF pair[1] > 1 THEN Failed ELSE pair[2]

Fits(n) == n \in -DecimalMost..DecimalMost

\* The casts of a text to DECIMAL(38, 0): strict, or NULL where it will not.
\* The source of a HUGEINT is read in the whole range of i128.
Read(cell) == IF cell = Odd THEN OddReads ELSE cell
Ints == -IntMost - 1..IntMost
CastRange(f) ==
  CASE f \in {"dec", "try_dec"} -> -DecimalMost..DecimalMost
    [] f \in {"huge", "try_huge"} -> Least..Most
    [] f = "try_int" -> Ints
Cast(f, cell) ==
  LET n == Read(cell)  fails == IF f \in {"dec", "huge"} THEN Failed ELSE Null IN
  IF n = Junk THEN fails ELSE IF n \notin CastRange(f) THEN fails ELSE n

\* What the checked arithmetic makes of a result, what DataFusion's own does, and
\* the exact values behind a cast.
Ranged(f, n) ==
  IF n \in (IF f \in {"add_int", "neg_int"} THEN Ints ELSE -DecimalMost..DecimalMost) THEN n ELSE Failed
Wrapped(n) == ((n + IntMost + 1) % (2 * IntMost + 2)) - IntMost - 1
NumberOf(cell) == IF Read(cell) = Junk THEN Null ELSE Read(cell)
WithinHuge(n) == IF n # Null /\ n \in Least..Most THEN n ELSE Null
Refusing(cell) == IF WithinHuge(NumberOf(cell)) # Null /\ ~Fits(NumberOf(cell)) THEN Failed ELSE cell
ArithmeticCall(f, v) ==
  CASE f \in {"add_int", "add_dec"} -> Ranged(f, v[1] + v[2])
    [] f \in {"neg_int", "neg_dec"} -> Ranged(f, -v[1])
    [] f = "add_float" -> v[1] + v[2]
    [] f = "wrap_add" -> Wrapped(v[1] + v[2])
    [] f = "wrap_neg" -> Wrapped(-v[1])
    [] f = "exact" -> NumberOf(v[1])
    [] f = "exact_neg" -> -v[1]
    [] f = "exact_huge" -> WithinHuge(NumberOf(v[1]))
    [] f = "huge_source" -> Refusing(v[1])
    [] f = "hash" -> Wrapped(3 * v[1])

TextCall(f, v) ==
  CASE f = "text" -> v[1] [] f = "lower" -> LowerCase(v[1]) [] f = "upper" -> UpperCase(v[1])
    [] f = "||" -> v[1] \o v[2]

Arithmetics == {"add_int", "add_dec", "neg_int", "neg_dec", "add_float", "wrap_add", "wrap_neg", "exact",
                "exact_neg", "exact_huge", "huge_source", "hash"}
Call(f, v) ==
  CASE Failed \in ToSet(v) -> Failed
    [] f = "and" -> IF FALSE \in ToSet(v) THEN FALSE ELSE IF Null \in ToSet(v) THEN Null ELSE TRUE
    [] f = "coalesce" -> Present1(v)
    [] f = "is" -> v[1] = v[2]
    [] f = "is not null" -> v[1] # Null
    [] f = "fits_huge" -> v[1] # Null /\ WithinHuge(NumberOf(v[1])) # Null
    [] f = "true" -> TRUE
    [] f = "row" -> v
    [] f = "named_struct" -> [i \in 1..(Len(v) \div 2) |-> v[2 * i]]
    [] f = "row_key" -> RowKey(v)
    [] f = "single" -> Single(v[1])
    [] f \in {"maybe_null", "widen", "random"} -> v[1]
    [] f = "guard" -> IF v[1] = Null /\ v[2] # Null THEN Failed ELSE v[1]
    [] f = "concat" -> FlattenSeq(Present(v))
    [] Null \in ToSet(v) -> Null
    [] f \in {"dec", "try_dec", "huge", "try_huge", "try_int"} -> Cast(f, v[1])
    [] f \in Arithmetics -> ArithmeticCall(f, v)
    [] f \in {"text", "lower", "upper", "||"} -> TextCall(f, v)
    [] f = "neg" -> -v[1]
    [] OTHER -> Compare(f, v[1], v[2])

Totals(f, v) ==
  CASE f = "count" -> Len(v)
    [] v = <<>> -> Null
    [] f \in {"sum", "checked_sum"} -> LET n == FoldLeft(+, 0, v) IN IF Fits(n) THEN n ELSE Failed
    [] f = "sum_huge" -> LET n == FoldLeft(+, 0, v) IN IF n \in Least..Most THEN n ELSE Failed
    [] f = "wrap_sum" -> Wrapped(FoldLeft(+, 0, v))
    [] f = "product" -> FoldLeft(LAMBDA m, n : m * n, 1, v)
    [] f = "min" -> Min(ToSet(v))
    [] f = "max" -> Max(ToSet(v))

\* NULLs last, whatever the direction.
Precedes(a, b, desc) ==
  IF a = Null THEN FALSE ELSE IF b = Null THEN TRUE ELSE IF desc THEN a > b ELSE a < b

RECURSIVE Eval(_, _, _), Val(_, _, _, _)

\* The rows in order; the keys of a row are computed once.
WithKeys(rows, o, env, D) ==
  [i \in DOMAIN rows |->
     [row |-> rows[i], at |-> i, key |-> [j \in DOMAIN o |-> Val(o[j].x, rows[i], env, D)]]]
InOrder(keyed, o) ==
  SortSeq(keyed, LAMBDA x, y :
    \/ \E j \in DOMAIN o : /\ Precedes(x.key[j], y.key[j], o[j].desc)
                           /\ \A i \in 1..(j - 1) : x.key[i] = y.key[i]
    \/ x.key = y.key /\ x.at < y.at)
RowsIn(keyed) == [i \in DOMAIN keyed |-> keyed[i].row]
Ordered(rows, o, env, D) == RowsIn(InOrder(WithKeys(rows, o, env, D), o))

ArgumentOf(x, rows, env, D) == [i \in DOMAIN rows |-> Val(x.a[1], rows[i], env, D)]
LastOf(vals) == IF vals = <<>> THEN Null ELSE Last(vals)

Collected(x, vals) ==
  CASE Failed \in ToSet(vals) -> Failed
    [] x.f = "first_value" -> IF vals = <<>> THEN Null ELSE vals[1]
    [] x.f = "last_non_null" -> LastOf(Present(vals))
    [] x.d -> Cardinality(ToSet(Present(vals)))
    [] OTHER -> Totals(x.f, Present(vals))
\* A FILTER of an aggregate is its k.
OfFilter(x, rows, env, D) ==
  IF x.e # "agg" \/ x.k = <<>> THEN rows ELSE SelectSeq(rows, LAMBDA r : Val(x.k[1], r, env, D) = TRUE)
AggregatedOf(x, rows, env, D) ==
  Collected(x, ArgumentOf(x, IF x.o = <<>> THEN rows ELSE Ordered(rows, x.o, env, D), env, D))
Aggregated(x, rows, env, D) == AggregatedOf(x, OfFilter(x, rows, env, D), env, D)

KeyOf(xs, row, env, D) == [j \in DOMAIN xs |-> Val(xs[j], row, env, D)]

\* The rows of the partition row i is in.
PartitionOf(x, rows, i, env, D) ==
  LET mine == KeyOf(x.k, rows[i], env, D)
  IN SelectSeq(WithKeys(rows, x.o, env, D), LAMBDA y : KeyOf(x.k, y.row, env, D) = mine)

\* A frame: the whole partition, the rows up to this one, or these and its peers.
FrameEnd(r, sorted, me) ==
  CASE r = "whole" -> Len(sorted)
    [] r = "rows" -> me
    [] r = "range" -> Max({j \in DOMAIN sorted : sorted[j].key = sorted[me].key})
Framed(x, me, frame, env, D) ==
  CASE x.f = "row_number" -> me
    [] x.f = "last_value" -> LastOf(Present(ArgumentOf(x, frame, env, D)))
    [] OTHER -> Aggregated(x, frame, env, D)
WindowedAt(x, sorted, me, env, D) ==
  Framed(x, me, RowsIn(SubSeq(sorted, 1, FrameEnd(x.r, sorted, me))), env, D)
WindowedIn(x, sorted, i, env, D) ==
  WindowedAt(x, sorted, CHOOSE j \in DOMAIN sorted : sorted[j].at = i, env, D)
Windowed(x, rows, i, env, D) ==
  WindowedIn(x, InOrder(PartitionOf(x, rows, i, env, D), x.o), i, env, D)

Val(x, row, env, D) ==
  CASE x.e = "col" -> row[x.c]
    [] x.e = "out" -> env[x.c]
    [] x.e = "lit" -> x.v
    [] x.e = "fn" -> Call(x.f, [i \in DOMAIN x.a |-> Val(x.a[i], row, env, D)])
    [] x.e = "sub" -> LET rows == Eval(x.s[1], row @@ env, D) IN
                      CASE Len(rows) = 0 -> Null
                        [] Len(rows) = 1 -> rows[1][Schema(x.s[1])[1]]
                        [] OTHER -> Failed

\* An aggregate's expression, with the calls put around it.
RECURSIVE AggVal(_, _, _, _)
AggVal(x, rows, env, D) ==
  IF x.e = "fn" THEN Call(x.f, [i \in DOMAIN x.a |-> AggVal(x.a[i], rows, env, D)])
  ELSE IF x.e = "agg" THEN Aggregated(x, rows, env, D) ELSE x.v

RowOf(xs, row, env, D) ==
  [n \in {xs[i].n : i \in DOMAIN xs} |->
     Val(xs[CHOOSE i \in DOMAIN xs : xs[i].n = n].x, row, env, D)]

EmptyRow == [c \in {} |-> Null]
NullRow(p) == [c \in ToSet(Schema(p)) |-> Null]

\* Each key once, where it first occurs.
Firsts(all) ==
  LET first == SetToSortSeq({i \in DOMAIN all : \A j \in 1..(i - 1) : all[j] # all[i]}, <)
  IN [i \in DOMAIN first |-> all[first[i]]]
GroupsOf(p, rows, keyed, keys, env, D) ==
  [i \in DOMAIN keys |->
     LET mine == SelectSeq([j \in DOMAIN rows |-> <<rows[j], keyed[j]>>], LAMBDA y : y[2] = keys[i])
     IN keys[i] @@ [n \in {p.xs[j].n : j \in DOMAIN p.xs} |->
                      AggVal(p.xs[CHOOSE j \in DOMAIN p.xs : p.xs[j].n = n].x,
                             [j \in DOMAIN mine |-> mine[j][1]], env, D)]]
GroupedBy(p, rows, keyed, env, D) ==
  GroupsOf(p, rows, keyed, IF p.keys = <<>> THEN <<EmptyRow>> ELSE Firsts(keyed), env, D)
Grouped(p, rows, env, D) ==
  GroupedBy(p, rows, [i \in DOMAIN rows |-> RowOf(p.keys, rows[i], env, D)], env, D)

\* For each left row the right rows it meets, or, in a left join, one of NULLs;
\* of a semi join the rows of one side that meet any, of an anti join those that
\* meet none.
OnKeys(p, r, env, D) ==
  \A i \in DOMAIN p.on :
    LET x == Val(p.on[i].l, r, env, D)  y == Val(p.on[i].r, r, env, D) IN x = y /\ (x # Null \/ p.nulls)
Meeting(p, r, env, D) == OnKeys(p, r, env, D) /\ Val(p.pred, r, env, D) = TRUE
Meets(p, l, right, env, D) ==
  SelectSeq([j \in DOMAIN right |-> l @@ right[j]], LAMBDA r : Meeting(p, r, env, D))
OrOuter(p, l, met) ==
  CASE p.t = "semi" -> IF met = <<>> THEN <<>> ELSE <<l>>
    [] p.t = "anti" -> IF met = <<>> THEN <<l>> ELSE <<>>
    [] p.t = "left" /\ met = <<>> -> <<l @@ NullRow(p.in[2])>>
    [] OTHER -> met
OfTheRight(p, left, right, env, D) ==
  IF p.t \in OfOneRight
  THEN SelectSeq(right, LAMBDA r :
         (p.t = "right semi") = (\E i \in DOMAIN left : Meeting(p, left[i] @@ r, env, D)))
  ELSE InTurn([j \in DOMAIN right |->
         LET met == SelectSeq(left, LAMBDA l : Meeting(p, l @@ right[j], env, D))
         IN IF met = <<>> THEN <<NullRow(p.in[1]) @@ right[j]>> ELSE [i \in DOMAIN met |-> met[i] @@ right[j]]])
Joined(p, left, env, D) ==
  IF p.t = "right" \/ p.t \in OfOneRight THEN OfTheRight(p, left, Eval(p.in[2], env, D), env, D)
  ELSE InTurn([i \in DOMAIN left |->
         OrOuter(p, left[i], Meets(p, left[i], Eval(p.in[2], left[i] @@ env, D), env, D))])

\* A filter that fails hands on what makes the statement fail.
Passed(p, rows, env, D) ==
  LET kept == SelectSeq(rows, LAMBDA r : Val(p.pred, r, env, D) \in {TRUE, Failed})
  IN [i \in DOMAIN kept |-> IF Val(p.pred, kept[i], env, D) = TRUE THEN kept[i]
                            ELSE [c \in DOMAIN kept[i] |-> Failed]]

\* The arms one after the other, their columns by position.
Concatenated(p, env, D) ==
  LET names == Schema(p)
      arm(q) == LET rows == Eval(q, env, D)  from == Schema(q) IN
        [r \in DOMAIN rows |-> [c \in ToSet(names) |->
           rows[r][from[CHOOSE i \in DOMAIN names : names[i] = c]]]]
  IN InTurn([i \in DOMAIN p.in |-> arm(p.in[i])])

\* A recursion: the rows of each round, till one has none.
AsTable(p, rows) == [i \in DOMAIN rows |-> [c \in {n[2] : n \in ToSet(Schema(p))} |->
  rows[i][CHOOSE n \in ToSet(Schema(p)) : n[2] = c]]]
ByPosition(rows, from, names) ==
  [i \in DOMAIN rows |-> [c \in ToSet(names) |-> rows[i][from[IndexOf(c, names)]]]]
RECURSIVE RoundsOf(_, _, _, _)
NextRound(p, rows, env, D) ==
  RoundsOf(p, ByPosition(Eval(p.in[2], env, (p.t :> AsTable(p, rows)) @@ D), Schema(p.in[2]), Schema(p)), env, D)
RoundsOf(p, rows, env, D) == IF rows = <<>> THEN <<>> ELSE rows \o NextRound(p, rows, env, D)

\* A fold in a plan: its rows under the aggregate's columns, each sum checked
\* against the digits of its type before any row is handed on.
Narrowed(answer) ==
  IF answer = <<>> \/ \E r \in ToSet(answer[1]) : ~Fits(r.sums[1]) THEN <<>> ELSE answer
HandedRow(p, r) ==
  [c \in ToSet(p.cols) |->
     LET i == CHOOSE j \in DOMAIN p.cols : p.cols[j] = c IN
     IF i <= Len(p.fold.keys) THEN r.keys[i] ELSE r.sums[1]]
HandedOn(p, answer) ==
  IF answer = <<>> THEN <<[c \in ToSet(p.cols) |-> Failed]>>
  ELSE [i \in DOMAIN answer[1] |-> HandedRow(p, answer[1][i])]
FoldNode(p, D) == HandedOn(p, Narrowed(FoldRows(p.fold, D)))

\* What is read by name: the rows of the definition, by position.
ReadByName(p, def, rows) ==
  [i \in DOMAIN rows |-> [c \in ToSet(p.cols) |-> rows[i][Schema(def)[IndexOf(c, p.cols)]]]]

Eval(p, env, D) ==
  IF p.op = "one" THEN <<EmptyRow>>
  ELSE IF p.op = "ref" THEN ReadByName(p, D[p.t], Eval(D[p.t], EmptyRow, D))
  ELSE IF p.op = "defs"
  THEN Eval(Last(p.in), env, [id \in ToSet(p.cols) |-> p.in[IndexOf(id, p.cols)]] @@ D)
  ELSE IF p.op = "union" THEN Concatenated(p, env, D)
  ELSE IF p.op = "fold" THEN FoldNode(p, D)
  ELSE IF p.op = "scan" THEN
    [i \in DOMAIN D[p.t] |-> [c \in ToSet(p.cols) |-> D[p.t][i][c[2]]]]
  ELSE LET rows == Eval(p.in[1], env, D) IN
  CASE p.op = "filter" -> Passed(p, rows, env, D)
    [] p.op = "project" -> [i \in DOMAIN rows |-> RowOf(p.xs, rows[i], env, D)]
    [] p.op = "alias" ->
         LET s == Schema(p.in[1]) IN
         [i \in DOMAIN rows |-> [c \in {<<p.t, s[j][2]>> : j \in DOMAIN s} |->
            rows[i][s[CHOOSE j \in DOMAIN s : s[j][2] = c[2]]]]]
    [] p.op = "window" ->
         [i \in DOMAIN rows |->
            rows[i] @@ [n \in {p.xs[j].n : j \in DOMAIN p.xs} |->
              Windowed(p.xs[CHOOSE j \in DOMAIN p.xs : p.xs[j].n = n].x, rows, i, env, D)]]
    [] p.op = "group" -> Grouped(p, rows, env, D)
    [] p.op = "sort" -> LET all == Ordered(rows, p.o, env, D) IN
                        IF p.n = 0 THEN all ELSE SubSeq(all, 1, Min({p.n, Len(all)}))
    [] p.op = "limit" -> SubSeq(rows, p.skip + 1, Min({p.skip + p.n, Len(rows)}))
    [] p.op = "unique" -> Firsts(rows)
    [] p.op \in {"lateral"} \cup Marks -> rows
    [] p.op = "recursive" -> RoundsOf(p, rows, env, D)
    [] p.op = "join" -> Joined(p, rows, env, D)

Fails(rows) == \E i \in DOMAIN rows : \E c \in DOMAIN rows[i] : rows[i][c] = Failed

Same(S, T) == Len(S) = Len(T) /\ \A r \in ToSet(S) :
  Cardinality({i \in DOMAIN S : S[i] = r}) = Cardinality({i \in DOMAIN T : T[i] = r})
=============================================================================
