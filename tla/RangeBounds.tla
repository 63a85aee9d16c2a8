------------------------------ MODULE RangeBounds ------------------------------
(***************************************************************************)
(* A hash join's range conditions bound the probe's scan by the extremes   *)
(* of the build side (src/df/rangebounds.rs).  The build side passes       *)
(* through, and when it ends the filter of each bounded probe column is    *)
(* set, one after the other, while the scan may already be reading.        *)
(***************************************************************************)
EXTENDS Integers, Sequences, FiniteSets, FiniteSetsExt

CONSTANTS
  BoundCases,  \* the joins: both inputs, conditions, join type
  BoundCols    \* columns of a row, the equality key `k` beside them

VARIABLE scan

NoValue == -99

JoinTypes == {"Inner", "Left", "LeftSemi", "LeftAnti", "LeftMark", "RightSemi", "Right", "RightAnti", "Full"}

\* A case: the build side, whether it fails, the conditions as `probe op build`, the
\* probe columns that reach a scan, the join, and the row groups of the probe side.
ASSUME RangeBoundsAssumption ==
  \A c \in BoundCases :
    /\ c.type \in JoinTypes /\ c.plain \subseteq BoundCols
    /\ \A d \in c.conditions : d.build \in BoundCols /\ d.op \in {">", ">=", "<", "<="}
    /\ Len(c.build) \in Nat /\ DOMAIN c.build = 1..Len(c.build)
    /\ \A i \in DOMAIN c.build : \A x \in BoundCols : c.build[i][x] \in Int
    /\ \A g \in DOMAIN c.groups : \A r \in c.groups[g].rows : \A x \in BoundCols : r[x] \in Int

Compares(x, op, y) ==
  x # NoValue /\ y # NoValue /\
  CASE op = ">" -> x > y [] op = ">=" -> x >= y [] op = "<" -> x < y [] op = "<=" -> x <= y

\* Every probe row a join of this type emits was matched.
DropsUnmatchedProbeRows(t) ==
  t \in {"Inner", "Left", "LeftSemi", "LeftAnti", "LeftMark", "RightSemi"}
DropsMost(t) == t # "Full"

\* The probe columns that reach a Parquet scan through plain columns; an arm of
\* a union that is no such scan is read whole.
BoundsTaken(c) == DropsUnmatchedProbeRows(c.type) /\ c.collectLeft

BoundColsOf(c) ==
  IF BoundsTaken(c) THEN {d.probe : d \in {e \in c.conditions : e.probe \in c.plain}} ELSE {}

\* What a lower bound takes of the build values, and an upper one.
Extreme(op, V) ==
  IF V = {} THEN NoValue ELSE IF op \in {">", ">="} THEN Min(V) ELSE Max(V)

Extremes(c, seen) ==
  [d \in c.conditions |-> Extreme(d.op, {c.build[i][d.build] : i \in 1..seen} \ {NoValue})]

Unbounded == [set |-> FALSE]

Opened(c) ==
  [case |-> c, seen |-> 0, state |-> "reading", todo |-> BoundColsOf(c),
   filter |-> [x \in BoundCols |-> Unbounded], read |-> {}, skipped |-> {}]

BoundsInit == \E c \in BoundCases : scan = Opened(c)

\* A build row passes and is looked at.
Collect ==
  /\ scan.state = "reading" /\ scan.seen < Len(scan.case.build)
  /\ scan' = [scan EXCEPT !.seen = @ + 1]

CollectEnds ==
  /\ scan.state = "reading" /\ scan.seen = Len(scan.case.build)
  /\ scan' = [scan EXCEPT !.state = IF scan.case.fails THEN "failed" ELSE "ended"]

PublishEarly == scan.state \in {"reading", "ended"}

\* The filter of one column: the conjunction of its conditions.
PublishReady == scan.state = "ended"

Publish(x) ==
  /\ PublishReady /\ x \in scan.todo
  /\ scan' = [scan EXCEPT !.todo = @ \ {x},
                          !.filter[x] = [set |-> TRUE, by |-> Extremes(scan.case, scan.seen)]]

\* A row group whose least and greatest values cannot pass is skipped.
CanPass(x, group) ==
  ~scan.filter[x].set \/
  \A d \in {e \in scan.case.conditions : e.probe = x} :
    \E r \in group.rows : Compares(r[x], d.op, scan.filter[x].by[d])

Group(g) == scan.case.groups[g]

ReadGroup(g) ==
  /\ g \notin scan.read \cup scan.skipped
  /\ scan' = IF Group(g).parquet /\ \E x \in BoundCols : ~CanPass(x, Group(g))
             THEN [scan EXCEPT !.skipped = @ \cup {g}] ELSE [scan EXCEPT !.read = @ \cup {g}]

BoundsNext ==
  \/ Collect \/ CollectEnds
  \/ \E x \in BoundCols : Publish(x)
  \/ \E g \in DOMAIN scan.case.groups : ReadGroup(g)

BoundsSpec == BoundsInit /\ [][BoundsNext]_scan

-----------------------------------------------------------------------------
Pairs(c, b, r) ==
  b.k = r.k /\ \A d \in c.conditions : Compares(r[d.probe], d.op, b[d.build])

\* What the join emits of the probe rows R: pairs, build rows or probe rows.
Emitted(c, R) ==
  LET pairs == {<<i, r>> : i \in DOMAIN c.build, r \in R} 
      matched == {x \in pairs : Pairs(c, c.build[x[1]], x[2])}
      lefts == {x[1] : x \in matched}  rights == {x[2] : x \in matched}
  IN CASE c.type = "Inner" -> matched
       [] c.type = "Left" -> [pairs |-> matched, alone |-> DOMAIN c.build \ lefts]
       [] c.type \in {"LeftSemi", "LeftMark"} -> lefts
       [] c.type = "LeftAnti" -> DOMAIN c.build \ lefts
       [] c.type = "RightSemi" -> rights
       [] c.type = "Right" -> [pairs |-> matched, alone |-> R \ rights]
       [] c.type = "RightAnti" -> R \ rights
       [] c.type = "Full" -> [pairs |-> matched, left |-> DOMAIN c.build \ lefts, right |-> R \ rights]

RowsIn(G) == UNION {Group(g).rows : g \in G}

(* Skipping changes no answer: whenever the row groups were read, before   *)
(* the bounds, between the publication of one column's and another's, or   *)
(* after both, the join emits of the rows it was given what it would have  *)
(* emitted of all (src/df/rangebounds.rs, publish).                        *)
SkipsNothingNeeded ==
  Emitted(scan.case, RowsIn(scan.read)) = Emitted(scan.case, RowsIn(scan.read \cup scan.skipped))
=============================================================================
