------------------------------- MODULE RangeJoin -------------------------------
(***************************************************************************)
(* A join on `a >= b AND c <= d` by sorting instead of by nested loops     *)
(* (src/df/rangejoin.rs).  The left side is collected once, by whichever   *)
(* partition polls first, and sorted by its lower bound; each right row    *)
(* finds its candidates by binary search and scans them in order until a   *)
(* suffix minimum shows that nothing further matches.  A probe stops after *)
(* so many matches or candidates, hands them on and looks at the token.    *)
(***************************************************************************)
EXTENDS Integers, Sequences, FiniteSets, Functions

CONSTANTS
  JoinCases,   \* the joins: both inputs, the filter as written, the join's type
  JoinCols,    \* the columns of a row
  Partitions,  \* of the right side
  MaxOut, Steps,
  JoinPool     \* bytes left in the pool

JoinRow == [JoinCols -> Int]
\* A comparison as written: `left` says that its left operand is of the left input.
Comparison == [left : BOOLEAN, l : JoinCols, op : {">", ">=", "<", "<="}, r : JoinCols]

ASSUME RangeJoinAssumption ==
  /\ MaxOut \in Nat \ {0} /\ Steps \in Nat \ {0} /\ JoinPool \in Nat
  \* Left rows, right rows per partition, a conjunction of two comparisons, and
  \* whether unmatched right rows are kept.
  /\ JoinCases \subseteq [left : Seq(JoinRow), right : [Partitions -> Seq(JoinRow)],
                          filter : [1..2 -> Comparison], keep : BOOLEAN]

VARIABLE join

Null == -99
Nobody == 0  \* no left row

Holds(x, op, y) ==
  x # Null /\ y # Null /\
  CASE op = ">" -> x > y [] op = ">=" -> x >= y [] op = "<" -> x < y [] op = "<=" -> x <= y

Swapped(op) == CASE op = ">" -> "<" [] op = ">=" -> "<=" [] op = "<" -> ">" [] op = "<=" -> ">="

\* Turned round so that the column of the left input comes first.
Normalised(c) == IF c.left THEN c ELSE [left |-> TRUE, l |-> c.r, op |-> Swapped(c.op), r |-> c.l]

IsLower(c) == c.op \in {">", ">="}

\* What the rule takes: an inner or right join whose filter is one lower and
\* one upper bound.
BoundsOf(case) ==
  LET x == Normalised(case.filter[1])  y == Normalised(case.filter[2]) IN
  IF IsLower(x) = IsLower(y) THEN <<>>
  ELSE LET a == IF IsLower(x) THEN x ELSE y  b == IF IsLower(x) THEN y ELSE x
       IN <<[la |-> a.l, ra |-> a.r, aStrict |-> a.op = ">",
             lb |-> b.l, rb |-> b.r, bStrict |-> b.op = "<"]>>

Taken(case) == BoundsOf(case) # <<>>
Bounds == BoundsOf(join.case)[1]

-----------------------------------------------------------------------------
\* The rows of the left side with both bounds.
Valid(case, b) == {i \in DOMAIN case.left : case.left[i][b.la] # Null /\ case.left[i][b.lb] # Null}

\* Their orders by the lower bound: the sort leaves equal ones in any.
Orders(case, b) ==
  {o \in Bijection(1..Cardinality(Valid(case, b)), Valid(case, b)) :
     \A i, j \in DOMAIN o : i < j => case.left[o[i]][b.la] <= case.left[o[j]][b.la]}

\* The position of the least upper bound at or after each, the earlier of two equal.
SuffixMin(B) ==
  [i \in DOMAIN B |-> CHOOSE m \in i..Len(B) :
     \A k \in i..Len(B) : B[m] < B[k] \/ (B[m] = B[k] /\ m <= k)]

BuiltOf(case, b, order) ==
  LET up == [i \in DOMAIN order |-> case.left[order[i]][b.lb]]
  IN [order |-> order, a |-> [i \in DOMAIN order |-> case.left[order[i]][b.la]], b |-> up,
      suffixMin |-> SuffixMin(up)]

\* Row r, its search not begun.
Start(r) == [r |-> r, i |-> 0, matched |-> FALSE]

Planned(c) ==
  [case |-> c, built |-> <<>>, token |-> FALSE,
   part |-> [p \in Partitions |->
               [cur |-> Start(1), lo |-> 0, hi |-> 0, steps |-> 0,
                out |-> <<>>, chunk |-> <<>>, state |-> "open"]]]

JoinInit == join \in {Planned(c) : c \in {d \in JoinCases : Taken(d)}}

\* The batches of the left side, and then one that holds all of them.
BuildBytes(case) == 2 * Len(case.left)

Build(p) ==
  LET c == join.case IN
  /\ join.part[p].state = "open" /\ join.built = <<>>
  /\ IF BuildBytes(c) > JoinPool THEN join' = [join EXCEPT !.part[p].state = "error"]
     ELSE \E o \in Orders(c, Bounds) : join' = [join EXCEPT !.built = <<BuiltOf(c, Bounds, o)>>]

-----------------------------------------------------------------------------
(* A probe of a partition's batch, from where the one before stopped.      *)
Built == join.built[1]
Candidates == Len(Built.order)
Right(p) == join.case.right[p][join.part[p].cur.r]
At(p, state) == join.part[p].state = state
Moved(p, t) == join' = [join EXCEPT !.part[p] = t]

\* `L_a >= R_a` and `L_b <= R_b`, of the i-th candidate.
AHolds(i, right) == IF Bounds.aStrict THEN right[Bounds.ra] < Built.a[i] ELSE right[Bounds.ra] <= Built.a[i]
BHolds(i, right) == IF Bounds.bStrict THEN right[Bounds.rb] > Built.b[i] ELSE right[Bounds.rb] >= Built.b[i]

\* The token is looked at before every call.
Call(p) ==
  LET t == join.part[p] IN
  /\ At(p, "open") /\ join.built # <<>>
  /\ Moved(p, IF join.token THEN [t EXCEPT !.state = "error"]
              ELSE [t EXCEPT !.chunk = <<>>, !.steps = 0, !.state = "rows"])

\* A row is over; one without a match is kept where the join keeps them.
HandOn(t, row) == [t EXCEPT !.out = Append(@, row), !.chunk = Append(@, row)]
NextRow(t) ==
  LET r == t.cur.r  u == IF join.case.keep /\ ~t.cur.matched THEN HandOn(t, <<Nobody, r>>) ELSE t
  IN [u EXCEPT !.cur = Start(r + 1), !.state = "rows"]

\* A row without a bound has no candidates, one stopped at goes on where it was.
RowBegins(p) ==
  LET t == join.part[p] IN
  /\ At(p, "rows") /\ t.cur.r <= Len(join.case.right[p])
  /\ Moved(p, IF Right(p)[Bounds.ra] = Null \/ Right(p)[Bounds.rb] = Null THEN NextRow(t)
              ELSE IF t.cur.i # 0 THEN [t EXCEPT !.state = "scan"]
              ELSE [t EXCEPT !.lo = 1, !.hi = Candidates + 1, !.state = "search"])

\* The first candidate whose lower bound holds; it holds from there on.
Halve(p) ==
  LET t == join.part[p]  mid == (t.lo + t.hi) \div 2 IN
  /\ At(p, "search") /\ t.lo < t.hi
  /\ Moved(p, IF AHolds(mid, Right(p)) THEN [t EXCEPT !.hi = mid] ELSE [t EXCEPT !.lo = mid + 1])

Found(p) ==
  LET t == join.part[p] IN
  /\ At(p, "search") /\ t.lo >= t.hi
  /\ Moved(p, [t EXCEPT !.cur.i = t.lo, !.state = "scan"])

\* Something at or after the candidate may match.
MayMatch(p) ==
  LET i == join.part[p].cur.i IN i <= Candidates /\ BHolds(Built.suffixMin[i], Right(p))
CallFull(t) == Len(t.chunk) >= MaxOut \/ t.steps >= Steps

\* The call returns in the middle of a row.
PauseRestarting(p) ==
  LET t == join.part[p] IN
  /\ At(p, "scan") /\ MayMatch(p) /\ CallFull(t) /\ Moved(p, [t EXCEPT !.cur.i = 0, !.state = "open"])
Pause(p) ==
  LET t == join.part[p] IN
  /\ At(p, "scan") /\ MayMatch(p) /\ CallFull(t) /\ Moved(p, [t EXCEPT !.state = "open"])

Examine(p) ==
  LET t == join.part[p]  i == t.cur.i  next == [t EXCEPT !.cur.i = i + 1, !.steps = @ + 1] IN
  /\ At(p, "scan") /\ MayMatch(p) /\ ~CallFull(t)
  /\ Moved(p, IF BHolds(i, Right(p)) THEN HandOn([next EXCEPT !.cur.matched = TRUE], <<Built.order[i], t.cur.r>>)
              ELSE next)

RowEnds(p) == At(p, "scan") /\ ~MayMatch(p) /\ Moved(p, NextRow(join.part[p]))

\* A call that ends its batch without a row is not followed by another.
BatchEndsWithRows(p) ==
  LET t == join.part[p] IN
  /\ At(p, "rows") /\ t.cur.r > Len(join.case.right[p])
  /\ Moved(p, [t EXCEPT !.state = IF t.chunk = <<>> THEN "open" ELSE "done"])
BatchEnds(p) ==
  LET t == join.part[p] IN
  /\ At(p, "rows") /\ t.cur.r > Len(join.case.right[p])
  /\ Moved(p, [t EXCEPT !.state = "done"])

Cancel == ~join.token /\ join' = [join EXCEPT !.token = TRUE]

JoinSteps(p) ==
  \/ Build(p) \/ Call(p) \/ RowBegins(p) \/ Halve(p) \/ Found(p)
  \/ Pause(p) \/ Examine(p) \/ RowEnds(p) \/ BatchEnds(p)
JoinNext == (\E p \in Partitions : JoinSteps(p)) \/ Cancel

JoinSpec == JoinInit /\ [][JoinNext]_join

-----------------------------------------------------------------------------
\* The nested loop it replaces.
Matches(case, right) ==
  {i \in DOMAIN case.left :
     \A k \in 1..2 : LET c == case.filter[k] IN
       IF c.left THEN Holds(case.left[i][c.l], c.op, right[c.r])
       ELSE Holds(right[c.l], c.op, case.left[i][c.r])}

(* A partition has handed on, for every right row it is done with, each    *)
(* left row the filter matches as it was written, once, and one row        *)
(* without a left side where there is none and the join keeps them; and    *)
(* its rows leave in the order of the right side.                          *)
NestedLoop(p, r) ==
  LET want == Matches(join.case, join.case.right[p][r]) IN
  IF want = {} /\ join.case.keep THEN {Nobody} ELSE want

JoinIsTheNestedLoop ==
  \A p \in Partitions : LET t == join.part[p] IN
    /\ \A r \in DOMAIN join.case.right[p] :
         LET given == {k \in DOMAIN t.out : t.out[k][2] = r}
         IN /\ t.state = "done" \/ r < t.cur.r => {t.out[k][1] : k \in given} = NestedLoop(p, r)
            /\ {t.out[k][1] : k \in given} \subseteq NestedLoop(p, r)
            /\ \A k, l \in given : t.out[k][1] = t.out[l][1] => k = l
    /\ \A k \in 1..(Len(t.out) - 1) : t.out[k][2] <= t.out[k + 1][2]

(* One wide right row cannot hold a thread: a call looks at no more than   *)
(* Steps candidates, and its matches are among the first MaxOut rows of    *)
(* its batch, whatever unmatched rows follow.                              *)
ProbesAreBounded ==
  \A p \in Partitions : LET t == join.part[p] IN
    /\ t.steps <= Steps
    /\ \A k \in DOMAIN t.chunk : t.chunk[k][1] # Nobody => k <= MaxOut

(* The sorted join answers as the nested loop it replaces, wherever a      *)
(* probe stopped and went on, in steps that are bounded (rangejoin.rs,     *)
(* build and probe).                                                       *)
JoinInv == JoinIsTheNestedLoop /\ ProbesAreBounded
=============================================================================
