--------------------------- MODULE OperatorsProofs ---------------------------
(***************************************************************************)
(* The bounds of a range join for any join, the streams that hold their    *)
(* input for any number of them and any inputs, and the sorted range join  *)
(* for any inputs, filter and partitions.                                  *)
(***************************************************************************)
EXTENDS RangeBounds, HeldInput, RangeJoin, TLAPS, FiniteSetTheorems, WellFoundedInduction, SequenceTheorems

(* Induction over the naturals, for a set.                                 *)
LEMMA ByInduction ==
  ASSUME NEW S, 0 \in S, \A n \in Nat : n \in S => n + 1 \in S
  PROVE  \A n \in Nat : n \in S
  <1> SUFFICES ASSUME NEW n \in Nat, n \notin S PROVE FALSE
    OBVIOUS
  <1> DEFINE Missing == Nat \ S
  <1>1. Missing \subseteq Nat /\ Missing # {}
    OBVIOUS
  <1>2. PICK m \in Missing : \A k \in Missing : ~(<<k, m>> \in OpToRel(<, Nat))
    BY <1>1, NatLessThanWellFounded, WFMin
  <1>3. \A k \in Missing : ~(k < m)
    BY <1>1, <1>2 DEF OpToRel
  <1>4. m \in Nat /\ m # 0 /\ m \notin S
    OBVIOUS
  <1>5. m - 1 \in Nat /\ m - 1 \in S
    BY <1>3, <1>4
  <1>6. (m - 1) + 1 \in S
    BY <1>5
  <1>. QED BY <1>4, <1>6

-----------------------------------------------------------------------------
(* RangeBounds: a bound is an extreme of the build side, so that whatever  *)
(* pairs with a build row passes it.                                       *)
LEMMA Extremum ==
  ASSUME NEW V, V \subseteq Int, IsFiniteSet(V), V # {}
  PROVE  /\ Min(V) \in V /\ \A y \in V : Min(V) <= y
         /\ Max(V) \in V /\ \A y \in V : Max(V) >= y
  <1> DEFINE Least(T) == \E x \in T : \A y \in T : x <= y
             Greatest(T) == \E x \in T : \A y \in T : x >= y
             I == {n \in Nat : \A T \in SUBSET V : Cardinality(T) = n /\ T # {} => Least(T) /\ Greatest(T)}
  <1>1. 0 \in I
    <2>1. \A T \in SUBSET V : Cardinality(T) = 0 => T = {}
      BY FS_Subset, FS_EmptySet
    <2>. QED BY <2>1
  <1>2. ASSUME NEW n \in Nat, n \in I PROVE n + 1 \in I
    <2> SUFFICES ASSUME NEW T \in SUBSET V, Cardinality(T) = n + 1, T # {}
                 PROVE  Least(T) /\ Greatest(T)
      BY <1>2
    <2>1. PICK x \in T : TRUE
      OBVIOUS
    <2> DEFINE U == T \ {x}
    <2>2. U \in SUBSET V /\ Cardinality(U) = n
      <3>1. IsFiniteSet(T) /\ Cardinality(U) = Cardinality(T) - 1
        BY <2>1, FS_Subset, FS_RemoveElement
      <3>. QED BY <3>1
    <2>3. CASE U = {}
      <3>1. T = {x} /\ x \in Int
        BY <2>1, <2>3
      <3>. QED BY <3>1
    <2>4. CASE U # {}
      <3>1. PICK a \in U, b \in U : \A y \in U : a <= y /\ b >= y
        BY <1>2, <2>2, <2>4
      <3>2. x \in Int /\ a \in Int /\ b \in Int /\ (\A y \in U : y \in Int) /\ T = U \cup {x}
        BY <2>1, <3>1
      <3> HIDE DEF U
      <3>3. Least(T)
        <4>1. CASE x <= a
          BY <3>1, <3>2, <4>1
        <4>2. CASE a <= x
          BY <3>1, <3>2, <4>2
        <4>. QED BY <4>1, <4>2, <3>2
      <3>4. Greatest(T)
        <4>1. CASE x >= b
          BY <3>1, <3>2, <4>1
        <4>2. CASE b >= x
          BY <3>1, <3>2, <4>2
        <4>. QED BY <4>1, <4>2, <3>2
      <3>. QED BY <3>3, <3>4
    <2>. QED BY <2>3, <2>4
  <1>3. Cardinality(V) \in I
    <2> HIDE DEF I
    <2>. QED BY <1>1, <1>2, ByInduction, FS_CardinalityType
  <1>4. Least(V) /\ Greatest(V)
    BY <1>3
  <1>. QED BY <1>4 DEF Min, Max

\* The values of a column of the build side.
BuildValues(c, d) == {c.build[i][d.build] : i \in 1..Len(c.build)} \ {NoValue}

\* What the bounds are taken of: finitely many integers, those of the build rows.
LEMMA BuildValuesFinite ==
  ASSUME NEW c \in BoundCases, NEW d \in c.conditions
  PROVE  /\ BuildValues(c, d) \subseteq Int /\ IsFiniteSet(BuildValues(c, d))
         /\ d.op \in {">", ">=", "<", "<="}
         /\ \A i \in DOMAIN c.build : /\ c.build[i][d.build] \in Int
                                      /\ c.build[i][d.build] # NoValue =>
                                           c.build[i][d.build] \in BuildValues(c, d)
  <1>1. /\ Len(c.build) \in Nat /\ DOMAIN c.build = 1..Len(c.build)
        /\ \A i \in DOMAIN c.build : c.build[i][d.build] \in Int
        /\ d.op \in {">", ">=", "<", "<="}
    BY RangeBoundsAssumption
  <1>2. IsFiniteSet(1..Len(c.build))
    BY <1>1, FS_Interval
  <1>3. IsFiniteSet({c.build[i][d.build] : i \in 1..Len(c.build)})
    <2> DEFINE T == {c.build[i][d.build] : i \in 1..Len(c.build)}
               f == [i \in 1..Len(c.build) |-> c.build[i][d.build]]
    <2>1. f \in Surjection(1..Len(c.build), T)
      BY DEF Surjection
    <2> HIDE DEF T, f
    <2>2. IsFiniteSet(T)
      BY <1>2, <2>1, FS_Surjection
    <2>. QED BY <2>2 DEF T
  <1>4. IsFiniteSet(BuildValues(c, d))
    BY <1>3, FS_Subset DEF BuildValues
  <1>5. BuildValues(c, d) \subseteq Int
    BY <1>1 DEF BuildValues
  <1>. QED BY <1>1, <1>4, <1>5 DEF BuildValues

(* A probe value that compares with some build value passes the bound.     *)
LEMMA PairPasses ==
  ASSUME NEW c \in BoundCases, NEW d \in c.conditions, NEW i \in DOMAIN c.build,
         NEW v \in Int, Compares(v, d.op, c.build[i][d.build])
  PROVE  Compares(v, d.op, Extremes(c, Len(c.build))[d])
  <1> DEFINE V == BuildValues(c, d)
             y == c.build[i][d.build]
  <1>1. /\ V \subseteq Int /\ IsFiniteSet(V) /\ y \in Int /\ (y # NoValue => y \in V)
        /\ d.op \in {">", ">=", "<", "<="}
    BY BuildValuesFinite
  <1>2. Extremes(c, Len(c.build))[d] = Extreme(d.op, V)
    BY DEF Extremes, BuildValues
  <1>3. NoValue \notin V
    BY DEF BuildValues
  <1>c. Compares(v, d.op, y)
    OBVIOUS
  <1> HIDE DEF V, y
  <1>4. v # NoValue /\ y # NoValue /\ y \in V
    BY <1>c, <1>1 DEF Compares
  <1>5. /\ Min(V) \in V /\ Min(V) <= y /\ Min(V) \in Int /\ Min(V) # NoValue
        /\ Max(V) \in V /\ Max(V) >= y /\ Max(V) \in Int /\ Max(V) # NoValue
    BY <1>1, <1>3, <1>4, Extremum
  <1>6. CASE d.op \in {">", ">="}
    <2>1. Extreme(d.op, V) = Min(V)
      BY <1>4, <1>6 DEF Extreme
    <2>2. (d.op = ">" => v > y) /\ (d.op = ">=" => v >= y)
      BY <1>c, <1>6 DEF Compares
    <2>3. (d.op = ">" => v > Min(V)) /\ (d.op = ">=" => v >= Min(V))
      BY <2>2, <1>1, <1>5
    <2>. QED BY <1>2, <1>4, <1>5, <1>6, <2>1, <2>3 DEF Compares
  <1>7. CASE d.op \in {"<", "<="}
    <2>1. Extreme(d.op, V) = Max(V)
      BY <1>4, <1>7 DEF Extreme
    <2>2. (d.op = "<" => v < y) /\ (d.op = "<=" => v <= y)
      BY <1>c, <1>7 DEF Compares
    <2>3. (d.op = "<" => v < Max(V)) /\ (d.op = "<=" => v <= Max(V))
      BY <2>2, <1>1, <1>5
    <2>. QED BY <1>2, <1>4, <1>5, <1>7, <2>1, <2>3 DEF Compares
  <1>. QED BY <1>1, <1>6, <1>7

(* A join of a type the rule takes emits nothing for rows that pair with   *)
(* no build row.                                                           *)
Unpaired(c, R) == \A r \in R : \A i \in DOMAIN c.build : ~Pairs(c, c.build[i], r)
Matched(c, R) == {x \in {<<i, r>> : i \in DOMAIN c.build, r \in R} : Pairs(c, c.build[x[1]], x[2])}

\* Emitted of a join type that drops unmatched probe rows loses nothing with rows that pair with no build row.
LEMMA UnpairedEmitsNothing ==
  ASSUME NEW c, DropsUnmatchedProbeRows(c.type), NEW R, NEW S, Unpaired(c, S)
  PROVE  Emitted(c, R \cup S) = Emitted(c, R)
  <1>1. Matched(c, R \cup S) = Matched(c, R)
    BY DEF Matched, Unpaired
  <1>2. \A Q : Emitted(c, Q) =
          LET m == Matched(c, Q)  lefts == {x[1] : x \in m}  rights == {x[2] : x \in m}
          IN  CASE c.type = "Inner" -> m
                [] c.type = "Left" -> [pairs |-> m, alone |-> DOMAIN c.build \ lefts]
                [] c.type \in {"LeftSemi", "LeftMark"} -> lefts
                [] c.type = "LeftAnti" -> DOMAIN c.build \ lefts
                [] c.type = "RightSemi" -> rights
                [] c.type = "Right" -> [pairs |-> m, alone |-> Q \ rights]
                [] c.type = "RightAnti" -> Q \ rights
                [] c.type = "Full" -> [pairs |-> m, left |-> DOMAIN c.build \ lefts, right |-> Q \ rights]
    BY DEF Emitted, Matched
  <1>3. c.type \in {"Inner", "Left", "LeftSemi", "LeftAnti", "LeftMark", "RightSemi"}
    BY DEF DropsUnmatchedProbeRows
  <1>4. c.type = "Inner" => Emitted(c, R \cup S) = Emitted(c, R)
    BY <1>1, <1>2
  <1>5. c.type = "Left" => Emitted(c, R \cup S) = Emitted(c, R)
    BY <1>1, <1>2
  <1>6. c.type \in {"LeftSemi", "LeftMark"} => Emitted(c, R \cup S) = Emitted(c, R)
    BY <1>1, <1>2
  <1>7. c.type = "LeftAnti" => Emitted(c, R \cup S) = Emitted(c, R)
    BY <1>1, <1>2
  <1>8. c.type = "RightSemi" => Emitted(c, R \cup S) = Emitted(c, R)
    BY <1>1, <1>2
  <1>. QED BY <1>3, <1>4, <1>5, <1>6, <1>7, <1>8

(* A filter is unset or what the whole build side allows, and a row group  *)
(* that was skipped pairs with none of it.                                 *)
Published(c) == [set |-> TRUE, by |-> Extremes(c, Len(c.build))]
GroupIds == UNION {DOMAIN c.groups : c \in BoundCases}

ScanShape ==
  scan \in [case : BoundCases, seen : Nat, state : {"reading", "ended", "failed"},
            todo : SUBSET BoundCols,
            filter : [BoundCols -> {Unbounded} \cup {Published(c) : c \in BoundCases}],
            read : SUBSET GroupIds, skipped : SUBSET GroupIds]

BoundsInv ==
  /\ ScanShape
  /\ scan.todo \subseteq BoundColsOf(scan.case)
  /\ scan.state = "ended" => scan.seen = Len(scan.case.build)
  /\ \A x \in BoundCols :
       \/ scan.filter[x] = Unbounded
       \/ x \in BoundColsOf(scan.case) /\ scan.filter[x] = Published(scan.case)
  /\ scan.read \cup scan.skipped \subseteq DOMAIN scan.case.groups
  /\ \A g \in scan.skipped : BoundsTaken(scan.case) /\ Unpaired(scan.case, scan.case.groups[g].rows)

\* No filter is set before the build side is known.
LEMMA BoundsStart == BoundsInit => BoundsInv
  <1> SUFFICES ASSUME NEW c \in BoundCases, scan = Opened(c) PROVE BoundsInv
    BY DEF BoundsInit
  <1>1. BoundColsOf(c) \subseteq BoundCols
    <2>1. c.plain \subseteq BoundCols
      BY RangeBoundsAssumption
    <2>. QED BY <2>1 DEF BoundColsOf
  <1>. QED BY <1>1 DEF Opened, BoundsInv, ScanShape

\* ReadGroup: a group none of whose values can pass a set filter pairs with no build row.
LEMMA SkippedIsUnpaired ==
  ASSUME BoundsInv, NEW g \in DOMAIN scan.case.groups, NEW x \in BoundCols, ~CanPass(x, Group(g))
  PROVE  BoundsTaken(scan.case) /\ Unpaired(scan.case, scan.case.groups[g].rows)
  <1> DEFINE c == scan.case
  <1>1. c \in BoundCases
    BY DEF BoundsInv, ScanShape
  <1>2. scan.filter[x].set
    BY DEF CanPass
  <1>3. scan.filter[x] # Unbounded
    BY <1>2 DEF Unbounded
  <1>4. x \in BoundColsOf(c) /\ scan.filter[x] = Published(c)
    BY <1>3 DEF BoundsInv
  <1>5. scan.filter[x].by = Extremes(c, Len(c.build))
    BY <1>4 DEF Published
  <1>6. PICK d \in c.conditions :
          d.probe = x /\ ~\E r \in c.groups[g].rows : Compares(r[x], d.op, Extremes(c, Len(c.build))[d])
    BY <1>5 DEF CanPass, Group
  <1>7. \A r \in c.groups[g].rows : r[x] \in Int
    BY <1>1, RangeBoundsAssumption
  <1> HIDE DEF c
  <1>8. Unpaired(c, c.groups[g].rows)
    <2> SUFFICES ASSUME NEW r \in c.groups[g].rows, NEW i \in DOMAIN c.build, Pairs(c, c.build[i], r)
                 PROVE  FALSE
      BY DEF Unpaired
    <2>1. Compares(r[x], d.op, c.build[i][d.build])
      BY <1>6 DEF Pairs
    <2>2. Compares(r[x], d.op, Extremes(c, Len(c.build))[d])
      BY <2>1, <1>1, <1>7, PairPasses
    <2>. QED BY <2>2, <1>6
  <1>9. BoundsTaken(c)
    BY <1>4 DEF BoundColsOf
  <1>. QED BY <1>8, <1>9 DEF c

\* Collecting, publishing and reading keep it, one step per action.
LEMMA BoundsStep == BoundsInv /\ [BoundsNext]_scan => BoundsInv'
  <1> SUFFICES ASSUME BoundsInv, [BoundsNext]_scan PROVE BoundsInv'
    OBVIOUS
  <1>1. ASSUME Collect PROVE BoundsInv'
    BY <1>1 DEF Collect, BoundsInv, ScanShape
  <1>2. ASSUME CollectEnds PROVE BoundsInv'
    BY <1>2 DEF CollectEnds, BoundsInv, ScanShape
  <1>3. ASSUME NEW x \in BoundCols, Publish(x) PROVE BoundsInv'
    <2>1. /\ x \in scan.todo /\ scan.state = "ended"
          /\ scan' = [scan EXCEPT !.todo = @ \ {x},
                                  !.filter[x] = [set |-> TRUE, by |-> Extremes(scan.case, scan.seen)]]
      BY <1>3 DEF Publish, PublishReady
    <2>2. x \in BoundColsOf(scan.case) /\ scan.seen = Len(scan.case.build)
      BY <2>1 DEF BoundsInv
    <2>3. scan' = [scan EXCEPT !.todo = @ \ {x}, !.filter[x] = Published(scan.case)]
      BY <2>1, <2>2 DEF Published
    <2>4. Published(scan.case) \in {Published(c) : c \in BoundCases}
      BY DEF BoundsInv, ScanShape
    <2>5. ScanShape'
      BY <2>3, <2>4 DEF BoundsInv, ScanShape
    <2>6. /\ scan'.case = scan.case /\ scan'.state = scan.state /\ scan'.seen = scan.seen
          /\ scan'.todo \subseteq scan.todo /\ scan'.read = scan.read /\ scan'.skipped = scan.skipped
          /\ \A z \in BoundCols : scan'.filter[z] = IF z = x THEN Published(scan.case) ELSE scan.filter[z]
      BY <2>3 DEF BoundsInv, ScanShape
    <2>. QED BY <2>2, <2>5, <2>6 DEF BoundsInv
  <1>4. ASSUME NEW g \in DOMAIN scan.case.groups, ReadGroup(g) PROVE BoundsInv'
    <2>0. g \in GroupIds
      BY DEF BoundsInv, ScanShape, GroupIds
    <2>1. CASE scan' = [scan EXCEPT !.read = @ \cup {g}]
      <3>1. ScanShape'
        BY <2>0, <2>1 DEF BoundsInv, ScanShape
      <3>2. /\ scan'.case = scan.case /\ scan'.state = scan.state /\ scan'.seen = scan.seen
            /\ scan'.todo = scan.todo /\ scan'.skipped = scan.skipped /\ scan'.filter = scan.filter
            /\ scan'.read = scan.read \cup {g}
        BY <2>1 DEF BoundsInv, ScanShape
      <3>. QED BY <3>1, <3>2 DEF BoundsInv
    <2>2. CASE /\ \E x \in BoundCols : ~CanPass(x, Group(g))
               /\ scan' = [scan EXCEPT !.skipped = @ \cup {g}]
      <3>1. ScanShape'
        BY <2>0, <2>2 DEF BoundsInv, ScanShape
      <3>2. /\ scan'.case = scan.case /\ scan'.state = scan.state /\ scan'.seen = scan.seen
            /\ scan'.todo = scan.todo /\ scan'.read = scan.read /\ scan'.filter = scan.filter
            /\ scan'.skipped = scan.skipped \cup {g}
        BY <2>2 DEF BoundsInv, ScanShape
      <3>3. BoundsTaken(scan.case) /\ Unpaired(scan.case, scan.case.groups[g].rows)
        BY <2>2, SkippedIsUnpaired
      <3>. QED BY <3>1, <3>2, <3>3 DEF BoundsInv
    <2>. QED BY <1>4, <2>1, <2>2 DEF ReadGroup
  <1>5. ASSUME UNCHANGED scan PROVE BoundsInv'
    BY <1>5 DEF BoundsInv, ScanShape
  <1>. QED BY <1>1, <1>2, <1>3, <1>4, <1>5 DEF BoundsNext

\* And it is enough for the rule that no group is skipped which an answer needs.
LEMMA BoundsImply == BoundsInv => SkipsNothingNeeded
  <1> SUFFICES ASSUME BoundsInv PROVE SkipsNothingNeeded
    OBVIOUS
  <1> DEFINE c == scan.case
             R == RowsIn(scan.read)
             S == RowsIn(scan.skipped)
  <1>1. RowsIn(scan.read \cup scan.skipped) = R \cup S
    BY DEF RowsIn
  <1>2. Unpaired(c, S)
    <2>1. \A r \in S : \E g \in scan.skipped : r \in scan.case.groups[g].rows
      BY DEF RowsIn, Group
    <2>. QED BY <2>1 DEF BoundsInv, Unpaired
  <1>3. CASE scan.skipped = {}
    <2>1. R \cup S = R
      BY <1>3 DEF RowsIn
    <2>. QED BY <1>1, <2>1 DEF SkipsNothingNeeded
  <1>4. CASE scan.skipped # {}
    <2>1. DropsUnmatchedProbeRows(c.type)
      BY <1>4 DEF BoundsInv, BoundsTaken
    <2> HIDE DEF c, R, S
    <2>2. Emitted(c, R \cup S) = Emitted(c, R)
      BY <1>2, <2>1, UnpairedEmitsNothing
    <2>. QED BY <1>1, <2>2 DEF SkipsNothingNeeded, c, R
  <1>. QED BY <1>3, <1>4

(* A row group is skipped only if no answer needs it, whenever the bounds  *)
(* were published between the reads (src/df/rangebounds.rs, publish).      *)
THEOREM SkippingChangesNoAnswer == BoundsSpec => []SkipsNothingNeeded
  BY BoundsStart, BoundsStep, BoundsImply, PTL DEF BoundsSpec

(* Sums over a finite set, which the folds take one element at a time.     *)
One(s) == CHOOSE x \in s : TRUE
Adding(f, S, g) ==
  g = [s \in SUBSET S |-> IF s = {} THEN 0 ELSE f[One(s)] + g[s \ {One(s)}]]
Adder(f, S) == CHOOSE g : Adding(f, S, g)

\* The fold of the library is the function the lemmas below reason about.
LEMMA SumIs == \A f, S : SumFunctionOnSet(f, S) = Adder(f, S)[S]
  BY DEF SumFunctionOnSet, FoldFunctionOnSet, MapThenFoldSet, Adder, Adding, One
\* A finite set without the element the fold takes is one smaller.
LEMMA OneLess ==
  ASSUME NEW s, IsFiniteSet(s), s # {}
  PROVE  /\ One(s) \in s /\ Cardinality(s) > 0 /\ Cardinality(s) \in Nat
         /\ IsFiniteSet(s \ {One(s)})
         /\ Cardinality(s \ {One(s)}) = Cardinality(s) - 1
  <1>1. One(s) \in s
    BY DEF One
  <1>2. Cardinality(s) # 0 /\ Cardinality(s) \in Nat
    BY FS_EmptySet, FS_CardinalityType
  <1>3. /\ IsFiniteSet(s \ {One(s)})
        /\ Cardinality(s \ {One(s)}) = Cardinality(s) - 1
    BY <1>1, FS_RemoveElement
  <1>. QED BY <1>1, <1>2, <1>3

\* The function is what its recursion says, for every finite set.
LEMMA AdderAdds ==
  ASSUME NEW f, NEW S, IsFiniteSet(S)
  PROVE  Adding(f, S, Adder(f, S))
  <1> DEFINE Upto(n, g) == g = [s \in SUBSET S |->
                 IF s = {} THEN 0
                 ELSE IF Cardinality(s) <= n THEN f[One(s)] + g[s \ {One(s)}] ELSE 0]
             I == {n \in Nat : \E g : Upto(n, g)}
  <1>0. \A s \in SUBSET S : Cardinality(s) \in Nat /\ Cardinality(s) <= Cardinality(S)
    BY FS_Subset, FS_CardinalityType
  <1>00. \A s \in SUBSET S : s # {} =>
           /\ Cardinality(s) > 0 /\ s \ {One(s)} \in SUBSET S
           /\ Cardinality(s \ {One(s)}) = Cardinality(s) - 1
    BY OneLess, FS_Subset
  <1>1. 0 \in I
    <2>1. \A s \in SUBSET S : s # {} => ~(Cardinality(s) <= 0)
      <3> TAKE s \in SUBSET S
      <3>1. s # {} => Cardinality(s) > 0
        BY <1>00
      <3>2. Cardinality(s) \in Nat
        BY <1>0
      <3> HIDE DEF Upto, I
      <3>. QED BY <3>1, <3>2
    <2>2. Upto(0, [s \in SUBSET S |-> 0])
      BY <2>1
    <2>. QED BY <2>2
  <1>2. ASSUME NEW n \in Nat, n \in I PROVE n + 1 \in I
    <2>1. PICK g : Upto(n, g)
      BY <1>2
    <2> DEFINE h == [s \in SUBSET S |->
                       IF s = {} THEN 0
                       ELSE IF Cardinality(s) <= n + 1 THEN f[One(s)] + g[s \ {One(s)}] ELSE 0]
    <2>2. \A s \in SUBSET S : Cardinality(s) <= n => h[s] = g[s]
      <3> TAKE s \in SUBSET S
      <3> HAVE Cardinality(s) <= n
      <3>1. g[s] = IF s = {} THEN 0 ELSE f[One(s)] + g[s \ {One(s)}]
        BY <2>1
      <3>2. Cardinality(s) <= n + 1
        <4>1. Cardinality(s) \in Nat
          BY <1>0
        <4> HIDE DEF h, Upto
        <4>. QED BY <4>1
      <3>. QED BY <3>1, <3>2
    <2>3. \A s \in SUBSET S : s # {} /\ Cardinality(s) <= n + 1 =>
            h[s \ {One(s)}] = g[s \ {One(s)}]
      <3> TAKE s \in SUBSET S
      <3> HAVE s # {} /\ Cardinality(s) <= n + 1
      <3>1. s \ {One(s)} \in SUBSET S /\ Cardinality(s \ {One(s)}) <= n
        <4>1. Cardinality(s) \in Nat /\ s \ {One(s)} \in SUBSET S
              /\ Cardinality(s \ {One(s)}) = Cardinality(s) - 1
          BY <1>0, <1>00
        <4> HIDE DEF h, Upto
        <4>. QED BY <4>1
      <3>. QED BY <3>1, <2>2
    <2>4. Upto(n + 1, h)
      <3>1. h = [s \in SUBSET S |->
                   IF s = {} THEN 0
                   ELSE IF Cardinality(s) <= n + 1 THEN f[One(s)] + h[s \ {One(s)}] ELSE 0]
        BY <2>3
      <3>. QED BY <3>1
    <2> HIDE DEF h, Upto
    <2>5. \E k : Upto(n + 1, k)
      BY <2>4
    <2>6. n + 1 \in Nat
      BY <1>2
    <2>. QED BY <2>5, <2>6
  <1> HIDE DEF I
  <1>3. Cardinality(S) \in I
    BY <1>0, <1>1, <1>2, ByInduction, FS_CardinalityType
  <1>4. PICK g : Upto(Cardinality(S), g)
    BY <1>3 DEF I
  <1>5. \A s \in SUBSET S : Cardinality(s) <= Cardinality(S)
    BY <1>0
  <1>6. Adding(f, S, g)
    BY <1>4, <1>5 DEF Adding
  <1>. QED BY <1>6 DEF Adder

(* In whatever order the elements are taken.                               *)
LEMMA AnyOrder ==
  ASSUME NEW S, IsFiniteSet(S), NEW f, \A x \in S : f[x] \in Int
  PROVE  \A s \in SUBSET S :
           /\ Adder(f, S)[s] \in Int
           /\ \A y \in s : Adder(f, S)[s] = f[y] + Adder(f, S)[s \ {y}]
  <1> DEFINE F == Adder(f, S)
             Good(s) == F[s] \in Int /\ \A y \in s : F[s] = f[y] + F[s \ {y}]
             I == {n \in Nat : \A s \in SUBSET S : Cardinality(s) <= n => Good(s)}
  <1>0. \A s \in SUBSET S : Cardinality(s) \in Nat /\ IsFiniteSet(s)
    BY FS_Subset, FS_CardinalityType
  <1>1. \A s \in SUBSET S : F[s] = IF s = {} THEN 0 ELSE f[One(s)] + F[s \ {One(s)}]
    <2>1. Adding(f, S, F)
      BY AdderAdds
    <2> HIDE DEF F
    <2>. QED BY <2>1 DEF Adding
  <1> HIDE DEF F
  <1>e. Good({})
    BY <1>1
  <1>2. 0 \in I
    <2> SUFFICES ASSUME NEW s \in SUBSET S, Cardinality(s) <= 0 PROVE s = {}
      BY <1>e
    <2>1. Cardinality(s) = 0
      BY <1>0
    <2>. QED BY <2>1, <1>0, FS_EmptySet
  <1>3. ASSUME NEW n \in Nat, n \in I PROVE n + 1 \in I
    <2>0. n + 1 \in Nat
      OBVIOUS
    <2> HIDE DEF Good
    <2> SUFFICES ASSUME NEW s \in SUBSET S, Cardinality(s) <= n + 1, s # {} PROVE Good(s)
      BY <2>0, <1>e
    <2> USE DEF Good
    <2> DEFINE z == One(s)
    <2>1. z \in s /\ F[s] = f[z] + F[s \ {z}]
      BY <1>1 DEF One
    <2> HIDE DEF z
    <2>2. \A y \in s : s \ {y} \in SUBSET S /\ Cardinality(s \ {y}) <= n
      <3> TAKE y \in s
      <3>1. Cardinality(s \ {y}) = Cardinality(s) - 1
        BY <1>0, FS_RemoveElement
      <3>2. Cardinality(s) \in Nat
        BY <1>0
      <3> HIDE DEF I, Good
      <3>. QED BY <3>1, <3>2
    <2>3. \A y \in s : Good(s \ {y})
      BY <1>3, <2>2
    <2>4. \A y \in s : f[y] \in Int /\ F[s \ {y}] \in Int
      BY <2>3
    <2>5. F[s] \in Int
      <3>1. f[z] \in Int /\ F[s \ {z}] \in Int
        BY <2>1, <2>4
      <3> HIDE DEF Good, I
      <3>. QED BY <2>1, <3>1
    <2>6. ASSUME NEW y \in s, y # z PROVE F[s] = f[y] + F[s \ {y}]
      <3> DEFINE r == (s \ {y}) \ {z}
      <3>1. y \in s \ {z} /\ z \in s \ {y} /\ (s \ {z}) \ {y} = r
        BY <2>1, <2>6
      <3>2. F[s \ {z}] = f[y] + F[r] /\ F[s \ {y}] = f[z] + F[r]
        BY <2>1, <2>3, <3>1
      <3>3. F[r] \in Int
        <4>1. s \ {y} \in SUBSET S /\ Cardinality(s \ {y}) <= n
          BY <2>2
        <4>2. r \in SUBSET S /\ Cardinality(r) = Cardinality(s \ {y}) - 1
          BY <1>0, <4>1, <3>1, FS_RemoveElement
        <4>3. Cardinality(r) <= n
          <5>1. Cardinality(s \ {y}) \in Nat
            BY <1>0, <4>1
          <5> HIDE DEF r, I, Good
          <5>. QED BY <4>1, <4>2, <5>1
        <4>. QED BY <1>3, <4>2, <4>3
      <3>4. f[y] \in Int /\ f[z] \in Int
        BY <2>1, <2>4
      <3> HIDE DEF r, Good, I
      <3>. QED BY <2>1, <3>2, <3>3, <3>4
    <2>. QED BY <2>1, <2>5, <2>6
  <1>4. ASSUME NEW s \in SUBSET S PROVE Good(s)
    <2>1. Cardinality(s) \in I
      <3> HIDE DEF I
      <3>. QED BY <1>0, <1>2, <1>3, ByInduction
    <2>2. Cardinality(s) <= Cardinality(s)
      BY <1>0
    <2>. QED BY <2>1, <2>2
  <1>. QED BY <1>4 DEF F

(* A sum depends on what it sums, not on what else there is.               *)
LEMMA SameSum ==
  ASSUME NEW S, IsFiniteSet(S), NEW T \in SUBSET S, NEW f, NEW g, \A y \in T : f[y] = g[y]
  PROVE  Adder(f, S)[T] = Adder(g, T)[T]
  <1> DEFINE F == Adder(f, S)
             G == Adder(g, T)
             I == {n \in Nat : \A s \in SUBSET T : Cardinality(s) <= n => F[s] = G[s]}
  <1>0. \A s \in SUBSET T : Cardinality(s) \in Nat /\ IsFiniteSet(s)
    BY FS_Subset, FS_CardinalityType
  <1>1. /\ \A s \in SUBSET T : F[s] = IF s = {} THEN 0 ELSE f[One(s)] + F[s \ {One(s)}]
        /\ \A s \in SUBSET T : G[s] = IF s = {} THEN 0 ELSE g[One(s)] + G[s \ {One(s)}]
    <2>1. Adding(f, S, F) /\ Adding(g, T, G)
      BY <1>0, AdderAdds
    <2> HIDE DEF F, G
    <2>. QED BY <2>1 DEF Adding
  <1> HIDE DEF F, G
  <1>2. 0 \in I
    <2> SUFFICES ASSUME NEW s \in SUBSET T, Cardinality(s) <= 0 PROVE s = {}
      BY <1>1
    <2>1. Cardinality(s) = 0
      BY <1>0
    <2>. QED BY <2>1, <1>0, FS_EmptySet
  <1>3. ASSUME NEW n \in Nat, n \in I PROVE n + 1 \in I
    <2>e. F[{}] = G[{}] /\ n + 1 \in Nat
      <3>1. {} \in SUBSET T
        OBVIOUS
      <3>2. F[{}] = 0
        BY <1>1, <3>1
      <3>3. G[{}] = 0
        BY <1>1, <3>1
      <3>. QED BY <3>2, <3>3
    <2> SUFFICES ASSUME NEW s \in SUBSET T, Cardinality(s) <= n + 1, s # {} PROVE F[s] = G[s]
      BY <2>e
    <2> DEFINE z == One(s)
    <2>1. z \in s /\ s \ {z} \in SUBSET T /\ f[z] = g[z]
      BY DEF One
    <2>2. Cardinality(s \ {z}) <= n
      <3>1. Cardinality(s \ {z}) = Cardinality(s) - 1
        BY <1>0, <2>1, FS_RemoveElement
      <3>2. Cardinality(s) \in Nat
        BY <1>0
      <3> HIDE DEF I, z
      <3>. QED BY <3>1, <3>2
    <2>3. F[s \ {z}] = G[s \ {z}]
      BY <1>3, <2>1, <2>2
    <2>. QED BY <1>1, <2>1, <2>3
  <1>4. Cardinality(T) \in I
    <2> HIDE DEF I
    <2>. QED BY <1>0, <1>2, <1>3, ByInduction
  <1>5. Cardinality(T) <= Cardinality(T)
    BY <1>0
  <1>. QED BY <1>4, <1>5 DEF F, G

(* Taking one more into a sum.                                             *)
LEMMA SumSplit ==
  ASSUME NEW S, IsFiniteSet(S), NEW x \in S, NEW f, NEW g, \A y \in S : f[y] \in Int,
         \A y \in S \ {x} : f[y] = g[y]
  PROVE  /\ SumFunctionOnSet(f, S) \in Int /\ SumFunctionOnSet(g, S \ {x}) \in Int
         /\ SumFunctionOnSet(f, S) = SumFunctionOnSet(g, S \ {x}) + f[x]
  <1>1. /\ SumFunctionOnSet(f, S) = Adder(f, S)[S]
        /\ SumFunctionOnSet(g, S \ {x}) = Adder(g, S \ {x})[S \ {x}]
    BY SumIs
  <1>2. /\ Adder(f, S)[S] \in Int /\ Adder(f, S)[S \ {x}] \in Int
        /\ Adder(f, S)[S] = f[x] + Adder(f, S)[S \ {x}]
    BY AnyOrder
  <1>3. Adder(f, S)[S \ {x}] = Adder(g, S \ {x})[S \ {x}]
    BY SameSum
  <1>4. f[x] \in Int
    OBVIOUS
  <1>. QED BY <1>1, <1>2, <1>3, <1>4

\* The sum of nothing.
LEMMA SumOfNothing == \A f : SumFunctionOnSet(f, {}) = 0
  <1> TAKE f
  <1>1. Adding(f, {}, Adder(f, {}))
    BY AdderAdds, FS_EmptySet
  <1>2. Adder(f, {})[{}] = 0
    <2> HIDE DEF Adder
    <2>. QED BY <1>1 DEF Adding
  <1>. QED BY <1>2, SumIs

(* Two functions that differ at w alone have sums that differ by as much.  *)
LEMMA SumChange ==
  ASSUME NEW S, IsFiniteSet(S), NEW f, NEW g, NEW w \in S,
         \A x \in S : f[x] \in Int /\ g[x] \in Int, \A x \in S \ {w} : f[x] = g[x]
  PROVE  /\ SumFunctionOnSet(f, S) \in Int
         /\ SumFunctionOnSet(g, S) = SumFunctionOnSet(f, S) + (g[w] - f[w])
  <1>1. /\ SumFunctionOnSet(f, S) \in Int /\ SumFunctionOnSet(f, S \ {w}) \in Int
        /\ SumFunctionOnSet(f, S) = SumFunctionOnSet(f, S \ {w}) + f[w]
    BY SumSplit
  <1>2. SumFunctionOnSet(g, S) = SumFunctionOnSet(f, S \ {w}) + g[w]
    BY SumSplit
  <1>3. f[w] \in Int /\ g[w] \in Int
    OBVIOUS
  <1>. QED BY <1>1, <1>2, <1>3

\* Natural numbers have a natural sum.
LEMMA SumIsNat ==
  ASSUME NEW S, IsFiniteSet(S), NEW f, \A x \in S : f[x] \in Nat
  PROVE  SumFunctionOnSet(f, S) \in Nat
  <1> DEFINE F == Adder(f, S)
             I == {n \in Nat : \A s \in SUBSET S : Cardinality(s) <= n => F[s] \in Nat}
  <1>0. \A s \in SUBSET S : Cardinality(s) \in Nat /\ IsFiniteSet(s)
    BY FS_Subset, FS_CardinalityType
  <1>1. \A s \in SUBSET S : F[s] = IF s = {} THEN 0 ELSE f[One(s)] + F[s \ {One(s)}]
    <2>1. Adding(f, S, F)
      BY AdderAdds
    <2> HIDE DEF F
    <2>. QED BY <2>1 DEF Adding
  <1> HIDE DEF F
  <1>2. 0 \in I
    <2>e. F[{}] \in Nat
      BY <1>1
    <2> SUFFICES ASSUME NEW s \in SUBSET S, Cardinality(s) <= 0 PROVE s = {}
      BY <2>e
    <2>1. Cardinality(s) = 0
      BY <1>0
    <2>. QED BY <2>1, <1>0, FS_EmptySet
  <1>3. ASSUME NEW n \in Nat, n \in I PROVE n + 1 \in I
    <2>e. F[{}] \in Nat /\ n + 1 \in Nat
      BY <1>1
    <2> SUFFICES ASSUME NEW s \in SUBSET S, Cardinality(s) <= n + 1, s # {} PROVE F[s] \in Nat
      BY <2>e
    <2> DEFINE z == One(s)
    <2>1. z \in s /\ s \ {z} \in SUBSET S /\ f[z] \in Nat
      BY DEF One
    <2>2. Cardinality(s \ {z}) <= n
      <3>1. Cardinality(s \ {z}) = Cardinality(s) - 1
        BY <1>0, <2>1, FS_RemoveElement
      <3>2. Cardinality(s) \in Nat
        BY <1>0
      <3> HIDE DEF I, z
      <3>. QED BY <3>1, <3>2
    <2>3. F[s \ {z}] \in Nat
      BY <1>3, <2>1, <2>2
    <2>4. F[s] = f[z] + F[s \ {z}]
      BY <1>1
    <2> HIDE DEF z, I
    <2>. QED BY <2>1, <2>3, <2>4
  <1>4. Cardinality(S) \in I
    <2> HIDE DEF I
    <2>. QED BY <1>0, <1>2, <1>3, ByInduction
  <1>5. Cardinality(S) <= Cardinality(S)
    BY <1>0
  <1>6. F[S] \in Nat
    BY <1>4, <1>5
  <1>. QED BY <1>6, SumIs DEF F


-----------------------------------------------------------------------------
(* Sums over sequences, an element at a time.                              *)
LEMMA SumStep ==
  ASSUME NEW n \in Nat, NEW f, NEW g, \A k \in 1..(n + 1) : f[k] \in Nat, \A k \in 1..n : f[k] = g[k]
  PROVE  /\ SumFunctionOnSet(g, 1..n) \in Nat /\ SumFunctionOnSet(f, 1..(n + 1)) \in Nat
         /\ SumFunctionOnSet(f, 1..(n + 1)) = SumFunctionOnSet(g, 1..n) + f[n + 1]
  <1> DEFINE S == 1..(n + 1)
             T == 1..n
             x == n + 1
  <1>1. x \in S /\ S \ {x} = T
    OBVIOUS
  <1>2. IsFiniteSet(S) /\ IsFiniteSet(T)
    <2>1. n \in Int /\ n + 1 \in Int /\ 1 \in Int
      OBVIOUS
    <2>. QED BY <2>1, FS_Interval
  <1>3. (\A k \in T : g[k] \in Nat) /\ (\A k \in S : f[k] \in Int /\ f[k] \in Nat) /\ \A k \in T : f[k] = g[k]
    OBVIOUS
  <1> HIDE DEF S, T, x
  <1>4. SumFunctionOnSet(g, T) \in Nat /\ SumFunctionOnSet(f, S) \in Nat
    BY <1>2, <1>3, SumIsNat
  <1>5. \A y \in S \ {x} : f[y] = g[y]
    BY <1>1, <1>3
  <1>6. SumFunctionOnSet(f, S) = SumFunctionOnSet(g, S \ {x}) + f[x]
    BY <1>1, <1>2, <1>3, <1>5, SumSplit
  <1>. QED BY <1>1, <1>4, <1>6 DEF S, T, x

\* The sum over no positions.
LEMMA SumOfNone == \A f : SumFunctionOnSet(f, 1..0) = 0
  <1>1. 1..0 = {}
    OBVIOUS
  <1>. QED BY <1>1, SumOfNothing

\* Functions that agree where they are summed have equal sums.
LEMMA SumAgree ==
  ASSUME NEW n \in Nat, NEW f, NEW g, \A k \in 1..n : f[k] = g[k] /\ f[k] \in Nat
  PROVE  SumFunctionOnSet(f, 1..n) = SumFunctionOnSet(g, 1..n)
  <1> DEFINE T == 1..n
  <1>1. IsFiniteSet(T)
    <2>1. n \in Int /\ 1 \in Int
      OBVIOUS
    <2>. QED BY <2>1, FS_Interval
  <1>2. T \in SUBSET T /\ \A k \in T : f[k] = g[k]
    OBVIOUS
  <1> HIDE DEF T
  <1>3. Adder(f, T)[T] = Adder(g, T)[T]
    BY <1>1, <1>2, SameSum
  <1>4. SumFunctionOnSet(f, T) = SumFunctionOnSet(g, T)
    BY <1>3, SumIs
  <1>. QED BY <1>4 DEF T

(* The first of a sequence, and the rest of it.                            *)
LEMMA SumShift ==
  ASSUME NEW n \in Nat, NEW f, NEW g, \A k \in 1..(n + 1) : f[k] \in Nat,
         \A k \in 1..n : g[k] = f[k + 1]
  PROVE  SumFunctionOnSet(f, 1..(n + 1)) = f[1] + SumFunctionOnSet(g, 1..n)
  <1> DEFINE A(m) == SumFunctionOnSet(f, 1..m)
             B(m) == SumFunctionOnSet(g, 1..m)
             I == {m \in Nat : m <= n => A(m + 1) = f[1] + B(m)}
  <1>1. ASSUME NEW m \in Nat, m <= n PROVE A(m + 1) = A(m) + f[m + 1] /\ A(m) \in Nat
    <2>1. \A k \in 1..(m + 1) : f[k] \in Nat
      BY <1>1
    <2>2. \A k \in 1..m : f[k] = f[k]
      OBVIOUS
    <2>. QED BY <2>1, <2>2, SumStep
  <1>2. ASSUME NEW m \in Nat, m + 1 <= n PROVE B(m + 1) = B(m) + f[m + 2] /\ B(m) \in Nat
    <2>1. \A k \in 1..(m + 1) : g[k] \in Nat
      <3> TAKE k \in 1..(m + 1)
      <3>1. k \in 1..n /\ k + 1 \in 1..(n + 1)
        BY <1>2
      <3>. QED BY <3>1
    <2>2. \A k \in 1..m : g[k] = g[k]
      OBVIOUS
    <2>3. g[m + 1] = f[m + 2]
      <3>1. m + 1 \in 1..n /\ (m + 1) + 1 = m + 2
        BY <1>2
      <3>. QED BY <3>1
    <2>. QED BY <2>1, <2>2, <2>3, SumStep
  <1>3. A(0) = 0 /\ B(0) = 0
    BY SumOfNone
  <1> HIDE DEF A, B
  <1>4. 0 \in I
    <2>1. A(0 + 1) = A(0) + f[0 + 1]
      BY <1>1
    <2>2. f[1] \in Nat /\ 0 + 1 = 1
      OBVIOUS
    <2>. QED BY <2>1, <2>2, <1>3
  <1>5. ASSUME NEW m \in Nat, m \in I PROVE m + 1 \in I
    <2> SUFFICES ASSUME m + 1 <= n PROVE A((m + 1) + 1) = f[1] + B(m + 1)
      OBVIOUS
    <2>1. m <= n /\ m + 1 \in Nat /\ (m + 1) + 1 = m + 2 /\ 1 \in 1..(n + 1) /\ m + 2 \in 1..(n + 1)
      OBVIOUS
    <2>2. A(m + 1) = f[1] + B(m)
      BY <2>1, <1>5
    <2>3. A((m + 1) + 1) = A(m + 1) + f[(m + 1) + 1]
      BY <2>1, <1>1
    <2>4. B(m + 1) = B(m) + f[m + 2] /\ B(m) \in Nat
      BY <1>2
    <2>5. f[1] \in Nat /\ f[m + 2] \in Nat
      BY <2>1
    <2> HIDE DEF I
    <2>. QED BY <2>1, <2>2, <2>3, <2>4, <2>5
  <1>6. n \in I
    <2> HIDE DEF I
    <2>. QED BY <1>4, <1>5, ByInduction
  <1>. QED BY <1>6 DEF A, B

\* Equal summands: as many times the one.
LEMMA SumOfEqual ==
  ASSUME NEW n \in Nat, NEW c \in Nat, NEW f, \A k \in 1..n : f[k] = c
  PROVE  SumFunctionOnSet(f, 1..n) = n * c
  <1> DEFINE A(m) == SumFunctionOnSet(f, 1..m)
             I == {m \in Nat : m <= n => A(m) = m * c}
  <1>1. ASSUME NEW m \in Nat, m + 1 <= n PROVE A(m + 1) = A(m) + c
    <2>1. \A k \in 1..(m + 1) : f[k] \in Nat
      BY <1>1
    <2>2. \A k \in 1..m : f[k] = f[k]
      OBVIOUS
    <2>3. f[m + 1] = c
      BY <1>1
    <2>. QED BY <2>1, <2>2, <2>3, SumStep
  <1>2. A(0) = 0
    BY SumOfNone
  <1> HIDE DEF A
  <1>3. 0 \in I
    BY <1>2
  <1>4. ASSUME NEW m \in Nat, m \in I PROVE m + 1 \in I
    <2> SUFFICES ASSUME m + 1 <= n PROVE A(m + 1) = (m + 1) * c
      OBVIOUS
    <2>1. A(m) = m * c
      BY <1>4
    <2>2. A(m + 1) = A(m) + c
      BY <1>1
    <2>3. (m + 1) * c = m * c + c
      OBVIOUS
    <2>. QED BY <2>1, <2>2, <2>3
  <1>5. n \in I
    <2> HIDE DEF I
    <2>. QED BY <1>3, <1>4, ByInduction
  <1>. QED BY <1>5 DEF A

-----------------------------------------------------------------------------
(* The rows of sequences of batches, held or handed on.                    *)
Handed == [rows : Nat, used : Nat]
Rowed == Batch \cup Handed

\* The rows of batches are a sum of natural numbers.
LEMMA RowsOfAny ==
  ASSUME NEW S \in Seq(Rowed)
  PROVE  /\ RowsOf(S) = SumFunctionOnSet([k \in DOMAIN S |-> S[k].rows], 1..Len(S))
         /\ DOMAIN S = 1..Len(S) /\ Len(S) \in Nat
         /\ \A k \in 1..Len(S) : S[k] \in Rowed /\ S[k].rows \in Nat /\ [i \in DOMAIN S |-> S[i].rows][k] = S[k].rows
         /\ RowsOf(S) \in Nat
  <1>1. DOMAIN S = 1..Len(S) /\ Len(S) \in Nat /\ \A k \in 1..Len(S) : S[k] \in Rowed
    BY LenProperties, ElementOfSeq
  <1>2. \A k \in 1..Len(S) : S[k].rows \in Nat
    BY <1>1 DEF Rowed, Batch, Handed
  <1>3. RowsOf(S) = SumFunctionOnSet([k \in DOMAIN S |-> S[k].rows], 1..Len(S))
    BY <1>1 DEF RowsOf, SumFunction
  <1>4. IsFiniteSet(1..Len(S))
    BY <1>1, FS_Interval
  <1> DEFINE f == [k \in DOMAIN S |-> S[k].rows]
  <1>5. \A k \in 1..Len(S) : f[k] \in Nat /\ f[k] = S[k].rows
    BY <1>1, <1>2
  <1>6. SumFunctionOnSet(f, 1..Len(S)) \in Nat
    <2> HIDE DEF f
    <2>. QED BY <1>4, <1>5, SumIsNat
  <1>. QED BY <1>1, <1>2, <1>3, <1>5, <1>6

\* No batches, no rows.
LEMMA RowsOfNone == RowsOf(<<>>) = 0 /\ <<>> \in Seq(Rowed)
  <1>1. <<>> \in Seq(Rowed) /\ Len(<<>>) = 0
    BY EmptySeq
  <1>. QED BY <1>1, RowsOfAny, SumOfNone

\* A batch appended adds its rows.
LEMMA RowsOfAppend ==
  ASSUME NEW S \in Seq(Rowed), NEW b \in Rowed
  PROVE  /\ RowsOf(Append(S, b)) = RowsOf(S) + b.rows /\ Append(S, b) \in Seq(Rowed)
         /\ b.rows \in Nat /\ RowsOf(S) \in Nat
  <1> DEFINE T == Append(S, b)
             f == [k \in DOMAIN T |-> T[k].rows]
             g == [k \in DOMAIN S |-> S[k].rows]
  <1>1. /\ T \in Seq(Rowed) /\ Len(T) = Len(S) + 1 /\ T[Len(S) + 1] = b
        /\ \A k \in 1..Len(S) : T[k] = S[k]
    BY AppendProperties
  <1> HIDE DEF T
  <1>2. RowsOf(T) = SumFunctionOnSet(f, 1..Len(T)) /\ \A k \in 1..Len(T) : f[k] \in Nat /\ f[k] = T[k].rows
    BY <1>1, RowsOfAny
  <1>3. /\ RowsOf(S) = SumFunctionOnSet(g, 1..Len(S)) /\ Len(S) \in Nat
        /\ \A k \in 1..Len(S) : g[k] = S[k].rows
    BY RowsOfAny
  <1>4. Len(S) + 1 \in 1..(Len(S) + 1) /\ \A k \in 1..Len(S) : k \in 1..(Len(S) + 1)
    BY <1>3
  <1> HIDE DEF f, g
  <1>5. \A k \in 1..Len(S) : f[k] = g[k]
    BY <1>1, <1>2, <1>3, <1>4
  <1>6. SumFunctionOnSet(f, 1..(Len(S) + 1)) = SumFunctionOnSet(g, 1..Len(S)) + f[Len(S) + 1]
    BY <1>1, <1>2, <1>3, <1>5, SumStep
  <1>7. f[Len(S) + 1] = b.rows /\ b.rows \in Nat
    BY <1>1, <1>2, <1>4
  <1>8. RowsOf(S) \in Nat
    BY RowsOfAny
  <1>. QED BY <1>1, <1>2, <1>3, <1>6, <1>7, <1>8 DEF T

\* The head of a sequence and its tail have the rows of the whole.
LEMMA RowsOfFirst ==
  ASSUME NEW S \in Seq(Rowed), S # <<>>
  PROVE  /\ RowsOf(S) = Head(S).rows + RowsOf(Tail(S)) /\ Tail(S) \in Seq(Rowed)
         /\ Head(S) = S[1] /\ Len(Tail(S)) = Len(S) - 1 /\ Len(S) \in Nat \ {0}
         /\ \A k \in 1..Len(Tail(S)) : Tail(S)[k] = S[k + 1]
  <1> DEFINE T == Tail(S)
             f == [k \in DOMAIN S |-> S[k].rows]
             g == [k \in DOMAIN T |-> T[k].rows]
             n == Len(T)
  <1>1. /\ T \in Seq(Rowed) /\ n = Len(S) - 1 /\ Len(S) \in Nat \ {0}
        /\ \A k \in 1..n : T[k] = S[k + 1]
    BY HeadTailProperties, EmptySeq
  <1>2. Head(S) = S[1]
    OBVIOUS
  <1> HIDE DEF T
  <1>3. RowsOf(S) = SumFunctionOnSet(f, 1..Len(S)) /\ \A k \in 1..Len(S) : f[k] \in Nat /\ f[k] = S[k].rows
    BY RowsOfAny
  <1>4. /\ RowsOf(T) = SumFunctionOnSet(g, 1..n) /\ n \in Nat
        /\ \A k \in 1..n : g[k] = T[k].rows
    BY <1>1, RowsOfAny
  <1> HIDE DEF f, g, n
  <1>5. Len(S) = n + 1 /\ 1 \in 1..(n + 1) /\ \A k \in 1..n : k + 1 \in 1..(n + 1)
    BY <1>1, <1>4
  <1>6. \A k \in 1..n : g[k] = f[k + 1]
    BY <1>1, <1>3, <1>4, <1>5
  <1>7. SumFunctionOnSet(f, 1..(n + 1)) = f[1] + SumFunctionOnSet(g, 1..n)
    BY <1>3, <1>4, <1>5, <1>6, SumShift
  <1>8. f[1] = S[1].rows
    BY <1>3, <1>5
  <1>. QED BY <1>1, <1>2, <1>3, <1>4, <1>5, <1>7, <1>8 DEF T, n

-----------------------------------------------------------------------------
(* The cuts: every batch but the last is full, and no row is lost.         *)
LEMMA Division == \A n, b \in Int : b > 0 => n = b * (n \div b) + (n % b)
  BY SMTT(60)

\* Division by the batch size.
LEMMA Quotient ==
  ASSUME NEW n \in Nat, NEW b \in Nat \ {0}
  PROVE  n \div b \in Nat /\ n % b \in Nat /\ n % b < b
  OBVIOUS

\* What a coalescer cuts off and what it keeps back are together what it had.
LEMMA FullAndRest ==
  ASSUME NEW n \in Nat
  PROVE  /\ Full(n) \in Seq(Handed) /\ Rest(n) \in Seq(Handed)
         /\ RowsOf(Full(n)) + RowsOf(Rest(n)) = n
         /\ \A k \in 1..Len(Full(n)) : Full(n)[k].rows = BatchSize
         /\ Len(Rest(n)) \in {0, 1} /\ \A k \in 1..Len(Rest(n)) : Rest(n)[k].rows <= BatchSize
  <1> DEFINE q == n \div BatchSize
             r == n % BatchSize
             b == [rows |-> BatchSize, used |-> 0]
             c == [rows |-> r, used |-> 0]
             F == Full(n)
             R == Rest(n)
  <1>0. BatchSize \in Nat \ {0}
    BY HeldInputAssumption
  <1>1. q \in Nat /\ r \in Nat /\ r < BatchSize
    BY <1>0, Quotient
  <1>2. n = q * BatchSize + r
    <2>1. n = BatchSize * q + r
      BY <1>0, Division
    <2> HIDE DEF q, r
    <2>2. BatchSize * q = q * BatchSize
      BY <1>0, <1>1
    <2>. QED BY <2>1, <2>2
  <1>3. b \in Handed /\ c \in Handed /\ b.rows = BatchSize /\ c.rows = r
    <2> HIDE DEF r
    <2>. QED BY <1>0, <1>1 DEF Handed
  <1>4. F = [k \in 1..q |-> b]
    BY DEF Full
  <1>5. R = IF r = 0 THEN <<>> ELSE <<c>>
    BY DEF Rest
  <1> HIDE DEF F, R, b, c, q, r
  <1>6. F \in Seq(Handed) /\ Len(F) = q /\ \A k \in 1..Len(F) : F[k] = b
    BY <1>1, <1>3, <1>4
  <1>7. \A S \in Seq(Handed) : S \in Seq(Rowed)
    BY SeqMonotonic DEF Rowed
  <1>8. RowsOf(F) = q * BatchSize
    <2> DEFINE f == [k \in DOMAIN F |-> F[k].rows]
    <2>1. RowsOf(F) = SumFunctionOnSet(f, 1..q) /\ \A k \in 1..q : f[k] = F[k].rows
      BY <1>6, <1>7, RowsOfAny
    <2> HIDE DEF f
    <2>2. \A k \in 1..q : f[k] = BatchSize
      BY <2>1, <1>6, <1>3
    <2>3. SumFunctionOnSet(f, 1..q) = q * BatchSize
      BY <1>0, <1>1, <2>2, SumOfEqual
    <2>. QED BY <2>1, <2>3
  <1>9. /\ R \in Seq(Handed) /\ RowsOf(R) = r /\ Len(R) \in {0, 1}
        /\ \A k \in 1..Len(R) : R[k].rows <= BatchSize
    <2>1. CASE r = 0
      <3>1. R = <<>> /\ Len(R) = 0 /\ R \in Seq(Handed)
        BY <2>1, <1>5, EmptySeq
      <3>2. RowsOf(R) = r
        BY <2>1, <3>1, RowsOfNone
      <3>. QED BY <3>1, <3>2
    <2>2. CASE r # 0
      <3>1. R = <<c>> /\ R \in Seq(Handed) /\ Len(R) = 1 /\ R[1] = c
        BY <2>2, <1>3, <1>5
      <3>2. c \in Rowed /\ R = Append(<<>>, c)
        BY <3>1, <1>3 DEF Rowed
      <3>3. RowsOf(R) = 0 + c.rows
        BY <3>2, RowsOfNone, RowsOfAppend
      <3>4. \A k \in 1..Len(R) : k = 1
        BY <3>1
      <3>. QED BY <3>1, <3>3, <3>4, <1>0, <1>1, <1>3
    <2>. QED BY <2>1, <2>2
  <1>10. RowsOf(F) + RowsOf(R) = n
    <2>1. q * BatchSize \in Nat
      BY <1>0, <1>1
    <2>. QED BY <1>2, <1>8, <1>9
  <1>11. \A k \in 1..Len(F) : F[k].rows = BatchSize
    BY <1>3, <1>6
  <1>. QED BY <1>6, <1>9, <1>10, <1>11 DEF F, R

\* The lesser of two numbers is one of them and above neither.
LEMMA LeastOfTwo ==
  ASSUME NEW a \in Int, NEW b \in Int
  PROVE  /\ Min({a, b}) \in {a, b} /\ Min({a, b}) <= a /\ Min({a, b}) <= b
  <1>1. \E m \in {a, b} : \A y \in {a, b} : m <= y
    <2>1. CASE a <= b
      BY <2>1
    <2>2. CASE b <= a
      BY <2>2
    <2>. QED BY <2>1, <2>2
  <1>2. Min({a, b}) \in {a, b} /\ \A y \in {a, b} : Min({a, b}) <= y
    BY <1>1 DEF Min
  <1>. QED BY <1>2

\* What a window hands on is its rows, in full batches but for the last.
LEMMA SlicesCut ==
  ASSUME NEW n \in Nat
  PROVE  LET S == [k \in DOMAIN Slices(n) |-> [rows |-> Slices(n)[k], used |-> 0]] IN
         /\ S \in Seq(Handed) /\ RowsOf(S) = n
         /\ \A k \in 1..Len(S) : S[k].rows <= BatchSize /\ (k < Len(S) => S[k].rows = BatchSize)
  <1> DEFINE e == n + BatchSize - 1
             m == e \div BatchSize
             r == e % BatchSize
             CutAt(k) == Min({BatchSize, n - (k - 1) * BatchSize})
             S == [k \in 1..m |-> [rows |-> CutAt(k), used |-> 0]]
  <1>0. BatchSize \in Nat \ {0} /\ e \in Nat
    BY HeldInputAssumption
  <1>1. m \in Nat /\ r \in Nat /\ r < BatchSize
    <2> HIDE DEF e
    <2>. QED BY <1>0, Quotient
  <1>2. e = BatchSize * m + r
    <2> HIDE DEF e
    <2>. QED BY <1>0, Division
  <1>3. [k \in DOMAIN Slices(n) |-> [rows |-> Slices(n)[k], used |-> 0]] = S
    <2>1. Slices(n) = [k \in 1..m |-> CutAt(k)]
      BY DEF Slices
    <2> HIDE DEF m, CutAt
    <2>. QED BY <2>1
  <1> DEFINE p == m * BatchSize
  <1>4. p \in Nat /\ p + r = n + BatchSize - 1
    <2>1. p = BatchSize * m /\ p \in Nat
      <3> HIDE DEF m
      <3>. QED BY <1>0, <1>1
    <2>2. e = n + BatchSize - 1
      OBVIOUS
    <2> HIDE DEF p, m, r, e
    <2>. QED BY <2>1, <2>2, <1>2
  <1>5. n <= p /\ p < n + BatchSize
    <2> HIDE DEF p, r, m
    <2>. QED BY <1>0, <1>1, <1>4
  <1>6. ASSUME NEW k \in 1..m PROVE /\ CutAt(k) \in Nat /\ CutAt(k) <= BatchSize
                                    /\ k < m => CutAt(k) = BatchSize
                                    /\ k = m => CutAt(k) = n - (m - 1) * BatchSize
    <2> DEFINE j == (k - 1) * BatchSize
               a == n - j
    <2>1. CutAt(k) \in {BatchSize, a} /\ CutAt(k) <= BatchSize /\ CutAt(k) <= a
      <3>1. a \in Int /\ BatchSize \in Int
        <4> HIDE DEF m
        <4>. QED BY <1>0, <1>1
      <3> HIDE DEF a
      <3>2. CutAt(k) = Min({BatchSize, a})
        BY DEF a
      <3>. QED BY <3>1, <3>2, LeastOfTwo
    <2>2. j \in Nat /\ j <= p - BatchSize /\ (k < m => j <= p - 2 * BatchSize) /\ (k = m => j = p - BatchSize)
      <3>1. k - 1 \in Nat /\ m \in Nat /\ k <= m
        <4> HIDE DEF m
        <4>. QED BY <1>1
      <3>2. \A x, y \in Nat : x <= y => x * BatchSize <= y * BatchSize
        BY <1>0
      <3>3. (m - 1) * BatchSize = p - BatchSize /\ (m - 2) * BatchSize = p - 2 * BatchSize
        <4> HIDE DEF m
        <4>. QED BY <1>0, <1>1
      <3>4. m - 1 \in Nat /\ k - 1 <= m - 1
        <4> HIDE DEF m
        <4>. QED BY <3>1
      <3>5. k < m => m - 2 \in Nat /\ k - 1 <= m - 2
        <4> HIDE DEF m
        <4>. QED BY <3>1
      <3>6. j \in Nat
        <4> HIDE DEF m
        <4>. QED BY <1>0, <3>1
      <3>7. j <= p - BatchSize
        <4> HIDE DEF m, p
        <4>. QED BY <3>1, <3>2, <3>3, <3>4
      <3>8. k < m => j <= p - 2 * BatchSize
        <4> HIDE DEF m, p
        <4>. QED BY <3>1, <3>2, <3>3, <3>5
      <3>9. k = m => j = p - BatchSize
        BY <3>3
      <3> HIDE DEF j, p, m
      <3>. QED BY <3>6, <3>7, <3>8, <3>9
    <2>3. a > 0 /\ a \in Int /\ (k < m => a > BatchSize)
      <3> HIDE DEF j, p, m
      <3>. QED BY <1>0, <1>4, <1>5, <2>2
    <2>4. k = m => CutAt(k) = a
      <3>1. k = m => a <= BatchSize
        <4> HIDE DEF j, p, m
        <4>. QED BY <1>0, <1>4, <1>5, <2>2
      <3> HIDE DEF CutAt, a, m
      <3>. QED BY <1>0, <2>1, <2>3, <3>1
    <2>5. k = m => a = n - (m - 1) * BatchSize
      OBVIOUS
    <2>6. CutAt(k) \in Nat /\ (k < m => CutAt(k) = BatchSize)
      <3> HIDE DEF CutAt, a, m
      <3>. QED BY <1>0, <2>1, <2>3
    <2> HIDE DEF CutAt, a, m
    <2>. QED BY <2>1, <2>4, <2>5, <2>6
  <1> HIDE DEF CutAt
  <1>7. S \in Seq(Handed) /\ Len(S) = m /\ \A k \in 1..m : S[k].rows = CutAt(k)
    <2> HIDE DEF m
    <2>1. \A k \in 1..m : [rows |-> CutAt(k), used |-> 0] \in Handed
      BY <1>6 DEF Handed
    <2>. QED BY <1>1, <2>1
  <1>8. RowsOf(S) = n
    <2> DEFINE f == [k \in DOMAIN S |-> S[k].rows]
    <2>1. S \in Seq(Rowed)
      BY <1>7, SeqMonotonic DEF Rowed
    <2>2. RowsOf(S) = SumFunctionOnSet(f, 1..m) /\ \A k \in 1..m : f[k] = CutAt(k) /\ f[k] \in Nat
      BY <1>6, <1>7, <2>1, RowsOfAny
    <2> HIDE DEF f, S
    <2>3. CASE m = 0
      <3>1. n = 0
        <4> HIDE DEF r
        <4>1. p = 0
          BY <2>3, <1>0
        <4> HIDE DEF p
        <4>. QED BY <1>0, <1>5, <4>1
      <3>. QED BY <2>2, <2>3, <3>1, SumOfNone
    <2>4. CASE m # 0
      <3> DEFINE l == m - 1
      <3>1. l \in Nat /\ m = l + 1
        <4> HIDE DEF m
        <4>. QED BY <1>1, <2>4
      <3> HIDE DEF l
      <3>2. \A k \in 1..l : f[k] = BatchSize
        <4> TAKE k \in 1..l
        <4>1. k \in 1..m /\ k < m
          <5> HIDE DEF m
          <5>. QED BY <3>1
        <4>. QED BY <4>1, <1>6, <2>2
      <3>3. SumFunctionOnSet(f, 1..l) = l * BatchSize
        BY <1>0, <3>1, <3>2, SumOfEqual
      <3>4. SumFunctionOnSet(f, 1..(l + 1)) = SumFunctionOnSet(f, 1..l) + f[l + 1]
        <4>1. \A k \in 1..(l + 1) : f[k] \in Nat
          BY <2>2, <3>1
        <4>2. \A k \in 1..l : f[k] = f[k]
          OBVIOUS
        <4>. QED BY <3>1, <4>1, <4>2, SumStep
      <3>5. f[l + 1] = n - l * BatchSize
        <4>1. m \in 1..m /\ m - 1 = l
          <5> HIDE DEF m
          <5>. QED BY <3>1
        <4>. QED BY <4>1, <1>6, <2>2, <3>1
      <3>6. l * BatchSize \in Nat
        BY <1>0, <3>1
      <3> HIDE DEF m
      <3>. QED BY <2>2, <3>1, <3>3, <3>4, <3>5, <3>6
    <2>. QED BY <2>3, <2>4
  <1>9. \A k \in 1..Len(S) : S[k].rows <= BatchSize /\ (k < Len(S) => S[k].rows = BatchSize)
    <2> HIDE DEF S, m
    <2>. QED BY <1>6, <1>7
  <1> HIDE DEF S
  <1>. QED BY <1>3, <1>7, <1>8, <1>9

-----------------------------------------------------------------------------
(* What is true of a stream at every step: its rows are handed on, ready,  *)
(* pending or not taken yet; a window has charged what it took; and what   *)
(* it has cut so far can be followed by more.                              *)
Streams ==
  [kind : Kinds, input : Inputs, taken : Nat, pending : Seq(Rowed), charged : Nat,
   ready : Seq(Handed), out : Seq(Handed), state : {"open", "done", "error"}, dropped : BOOLEAN]

TakenOf(s) == SubSeq(s.input.batches, 1, s.taken)

StreamShape(s) ==
  /\ s \in Streams /\ s.taken <= Len(s.input.batches)
  /\ IF s.kind = "coalesce" THEN s.pending \in Seq(Handed) ELSE s.pending \in Seq(Batch)

RowsKept(s) ==
  /\ ~s.dropped => RowsOf(s.out) + RowsOf(s.ready) + RowsOf(s.pending) = RowsOf(TakenOf(s))
  /\ RowsOf(s.out) <= RowsOf(TakenOf(s))
  /\ s.state = "done" => RowsOf(s.out) = RowsOf(s.input.batches) /\ ~s.input.fails

ChargeKept(s) ==
  /\ s.dropped => s.charged = 0
  /\ s.kind = "window" /\ ~s.dropped => s.charged = 2 * WholeOf(TakenOf(s))

AllFull(S) == \A k \in 1..Len(S) : S[k].rows = BatchSize
CutToSize(S) == \A k \in 1..Len(S) : S[k].rows <= BatchSize /\ (k < Len(S) => S[k].rows = BatchSize)

CutKept(s) ==
  /\ CutToSize(s.out)
  /\ ~s.dropped =>
       /\ CutToSize(s.ready)
       /\ s.ready # <<>> => AllFull(s.out)
       /\ More(s) \/ s.pending # <<>> =>
            IF s.kind = "window" THEN s.out = <<>> /\ s.ready = <<>>
            ELSE AllFull(s.out) /\ AllFull(s.ready)
       /\ s.kind = "coalesce" => CutToSize(s.pending) /\ Len(s.pending) <= 1

Reaches(b) == b.rows >= GatherRows \/ b.used >= GatherBytes
AllReach(S) == \A k \in 1..Len(S) : Reaches(S[k])

GatherKept(s) ==
  /\ \A k \in 1..Len(s.out) : k < Len(s.out) => Reaches(s.out[k])
  /\ ~s.dropped /\ s.state # "done" => AllReach(s.out) /\ AllReach(s.ready)

StreamInv(s) ==
  /\ StreamShape(s) /\ RowsKept(s) /\ ChargeKept(s)
  /\ IF s.kind \in {"window", "coalesce"} THEN CutKept(s) ELSE GatherKept(s)

HeldStrong ==
  /\ held \in [Holders -> Streams] /\ Reserved <= Budget
  /\ \A h \in Holders : StreamInv(held[h])

-----------------------------------------------------------------------------
(* What has been taken, a batch at a time.                                 *)
LEMMA SumsOfHeld ==
  ASSUME NEW S \in Seq(Batch)
  PROVE  /\ S \in Seq(Rowed)
         /\ UsedOf(S) \in Nat /\ WholeOf(S) \in Nat
         /\ WholeOf(S) = SumFunctionOnSet([k \in DOMAIN S |-> S[k].whole], 1..Len(S))
         /\ \A k \in 1..Len(S) : [i \in DOMAIN S |-> S[i].whole][k] = S[k].whole /\ S[k].whole \in Nat
  <1>1. DOMAIN S = 1..Len(S) /\ Len(S) \in Nat /\ \A k \in 1..Len(S) : S[k] \in Batch
    BY LenProperties, ElementOfSeq
  <1>2. \A k \in 1..Len(S) : S[k].used \in Nat /\ S[k].whole \in Nat
    BY <1>1 DEF Batch
  <1>3. IsFiniteSet(1..Len(S))
    <2>1. Len(S) \in Int /\ 1 \in Int
      BY <1>1
    <2>. QED BY <2>1, FS_Interval
  <1>4. /\ UsedOf(S) = SumFunctionOnSet([k \in DOMAIN S |-> S[k].used], 1..Len(S))
        /\ WholeOf(S) = SumFunctionOnSet([k \in DOMAIN S |-> S[k].whole], 1..Len(S))
    BY <1>1 DEF UsedOf, WholeOf, SumFunction
  <1> DEFINE f == [k \in DOMAIN S |-> S[k].used]
             g == [k \in DOMAIN S |-> S[k].whole]
  <1>5. \A k \in 1..Len(S) : f[k] \in Nat /\ g[k] \in Nat /\ g[k] = S[k].whole
    BY <1>1, <1>2
  <1>6. SumFunctionOnSet(f, 1..Len(S)) \in Nat /\ SumFunctionOnSet(g, 1..Len(S)) \in Nat
    <2> HIDE DEF f, g
    <2>. QED BY <1>3, <1>5, SumIsNat
  <1>7. S \in Seq(Rowed)
    BY SeqMonotonic DEF Rowed
  <1>. QED BY <1>2, <1>4, <1>5, <1>6, <1>7

\* A batch appended adds its whole buffers.
LEMMA WholeOfAppend ==
  ASSUME NEW S \in Seq(Batch), NEW b \in Batch
  PROVE  WholeOf(Append(S, b)) = WholeOf(S) + b.whole
  <1> DEFINE T == Append(S, b)
             f == [k \in DOMAIN T |-> T[k].whole]
             g == [k \in DOMAIN S |-> S[k].whole]
  <1>1. /\ T \in Seq(Batch) /\ Len(T) = Len(S) + 1 /\ T[Len(S) + 1] = b
        /\ \A k \in 1..Len(S) : T[k] = S[k]
    BY AppendProperties
  <1> HIDE DEF T
  <1>2. WholeOf(T) = SumFunctionOnSet(f, 1..Len(T)) /\ \A k \in 1..Len(T) : f[k] \in Nat /\ f[k] = T[k].whole
    BY <1>1, SumsOfHeld
  <1>3. /\ WholeOf(S) = SumFunctionOnSet(g, 1..Len(S)) /\ Len(S) \in Nat
        /\ \A k \in 1..Len(S) : g[k] = S[k].whole
    BY SumsOfHeld, LenProperties
  <1>4. Len(S) + 1 \in 1..(Len(S) + 1) /\ \A k \in 1..Len(S) : k \in 1..(Len(S) + 1)
    BY <1>3
  <1> HIDE DEF f, g
  <1>5. \A k \in 1..Len(S) : f[k] = g[k]
    BY <1>1, <1>2, <1>3, <1>4
  <1>6. SumFunctionOnSet(f, 1..(Len(S) + 1)) = SumFunctionOnSet(g, 1..Len(S)) + f[Len(S) + 1]
    BY <1>1, <1>2, <1>3, <1>5, SumStep
  <1>. QED BY <1>1, <1>2, <1>3, <1>4, <1>6 DEF T

\* One batch more of the input, in rows and in whole buffers.
LEMMA OneMoreTaken ==
  ASSUME NEW S \in Seq(Batch), NEW n \in Nat, n < Len(S)
  PROVE  /\ S[n + 1] \in Batch /\ S[n + 1] \in Rowed /\ S[n + 1].rows \in Nat /\ S[n + 1].whole \in Nat
         /\ RowsOf(SubSeq(S, 1, n)) \in Nat /\ WholeOf(SubSeq(S, 1, n)) \in Nat
         /\ RowsOf(SubSeq(S, 1, n + 1)) = RowsOf(SubSeq(S, 1, n)) + S[n + 1].rows
         /\ WholeOf(SubSeq(S, 1, n + 1)) = WholeOf(SubSeq(S, 1, n)) + S[n + 1].whole
  <1> DEFINE P == SubSeq(S, 1, n)
             Q == SubSeq(S, 1, n + 1)
             b == S[n + 1]
  <1>0. Len(S) \in Nat /\ n + 1 \in Nat /\ n + 1 \in 1..Len(S) /\ \A k \in 1..Len(S) : S[k] \in Batch
    BY LenProperties, ElementOfSeq
  <1>1. b \in Batch /\ b \in Rowed /\ b.rows \in Nat /\ b.whole \in Nat
    BY <1>0 DEF Rowed, Batch
  <1>2. /\ P \in Seq(Batch) /\ Len(P) = n
        /\ \A k \in 1..n : P[k] = S[k]
    <2>1. \A i \in 1..n : S[i] \in Batch
      BY <1>0
    <2>2. /\ SubSeq(S, 1, n) \in Seq(Batch) /\ Len(SubSeq(S, 1, n)) = IF 1 <= n THEN n - 1 + 1 ELSE 0
          /\ \A i \in 1..(n - 1 + 1) : SubSeq(S, 1, n)[i] = S[1 + i - 1]
      BY <2>1, SubSeqProperties
    <2>3. \A i \in 1..n : 1 + i - 1 = i /\ i \in 1..(n - 1 + 1)
      OBVIOUS
    <2>. QED BY <2>2, <2>3
  <1>3. /\ Q \in Seq(Batch) /\ Len(Q) = n + 1
        /\ \A k \in 1..(n + 1) : Q[k] = S[k]
    <2>1. \A i \in 1..(n + 1) : S[i] \in Batch
      BY <1>0
    <2>2. /\ Q \in Seq(Batch) /\ Len(Q) = IF 1 <= n + 1 THEN n + 1 - 1 + 1 ELSE 0
          /\ \A i \in 1..(n + 1 - 1 + 1) : Q[i] = S[1 + i - 1]
      BY <1>0, <2>1, SubSeqProperties
    <2>3. \A i \in 1..(n + 1) : 1 + i - 1 = i /\ i \in 1..(n + 1 - 1 + 1)
      OBVIOUS
    <2> HIDE DEF Q
    <2>. QED BY <2>2, <2>3
  <1> HIDE DEF P, Q, b
  <1>4. /\ Append(P, b) \in Seq(Batch) /\ Len(Append(P, b)) = n + 1
        /\ \A k \in 1..n : Append(P, b)[k] = P[k]
        /\ Append(P, b)[n + 1] = b
    BY <1>1, <1>2, AppendProperties
  <1>5. \A k \in 1..(n + 1) : Append(P, b)[k] = Q[k]
    <2>1. \A k \in 1..(n + 1) : k \in 1..n \/ k = n + 1
      OBVIOUS
    <2>. QED BY <2>1, <1>2, <1>3, <1>4 DEF b
  <1>6. Q = Append(P, b)
    BY <1>3, <1>4, <1>5, SeqEqual
  <1>7. P \in Seq(Rowed) /\ RowsOf(Q) = RowsOf(P) + b.rows /\ RowsOf(P) \in Nat
    BY <1>1, <1>2, <1>6, SumsOfHeld, RowsOfAppend
  <1>8. WholeOf(Q) = WholeOf(P) + b.whole /\ WholeOf(P) \in Nat
    BY <1>1, <1>2, <1>6, SumsOfHeld, WholeOfAppend
  <1>. QED BY <1>1, <1>7, <1>8 DEF P, Q, b

-----------------------------------------------------------------------------
(* A stream, whichever of its steps it takes.                              *)
LEMMA StreamTypes ==
  ASSUME NEW s \in Streams
  PROVE  /\ s.kind \in Kinds /\ s.input \in Inputs /\ s.taken \in Nat /\ s.pending \in Seq(Rowed)
         /\ s.charged \in Nat /\ s.ready \in Seq(Handed) /\ s.out \in Seq(Handed)
         /\ s.state \in {"open", "done", "error"} /\ s.dropped \in BOOLEAN
         /\ s.input.batches \in Seq(Batch) /\ s.input.fails \in BOOLEAN /\ Len(s.input.batches) \in Nat
         /\ s.ready \in Seq(Rowed) /\ s.out \in Seq(Rowed)
  <1>1. /\ s.kind \in Kinds /\ s.input \in Inputs /\ s.taken \in Nat /\ s.pending \in Seq(Rowed)
        /\ s.charged \in Nat /\ s.ready \in Seq(Handed) /\ s.out \in Seq(Handed)
        /\ s.state \in {"open", "done", "error"} /\ s.dropped \in BOOLEAN
    BY DEF Streams
  <1>2. s.input.batches \in Seq(Batch) /\ s.input.fails \in BOOLEAN
    BY <1>1, HeldInputAssumption
  <1>3. Len(s.input.batches) \in Nat
    BY <1>2, LenProperties
  <1>4. s.ready \in Seq(Rowed) /\ s.out \in Seq(Rowed)
    BY <1>1, SeqMonotonic DEF Rowed
  <1>. QED BY <1>1, <1>2, <1>3, <1>4

\* The counts of rows of a stream are natural numbers; at its end the input is taken entirely.
LEMMA RowsTyped ==
  ASSUME NEW s \in Streams, s.taken <= Len(s.input.batches)
  PROVE  /\ RowsOf(s.out) \in Nat /\ RowsOf(s.ready) \in Nat /\ RowsOf(s.pending) \in Nat
         /\ RowsOf(TakenOf(s)) \in Nat /\ RowsOf(s.input.batches) \in Nat
         /\ ~More(s) => TakenOf(s) = s.input.batches
  <1>1. RowsOf(s.out) \in Nat /\ RowsOf(s.ready) \in Nat /\ RowsOf(s.pending) \in Nat
    BY StreamTypes, RowsOfAny
  <1>2. s.input.batches \in Seq(Batch) /\ s.taken \in Nat /\ Len(s.input.batches) \in Nat
    BY StreamTypes
  <1>3. RowsOf(s.input.batches) \in Nat
    BY <1>2, SumsOfHeld, RowsOfAny
  <1>4. ~More(s) => TakenOf(s) = s.input.batches
    <2> HAVE ~More(s)
    <2>1. s.taken = Len(s.input.batches)
      BY <1>2 DEF More
    <2>. QED BY <1>2, <2>1, SubSeqFull DEF TakenOf
  <1>5. RowsOf(TakenOf(s)) \in Nat
    <2>1. CASE More(s)
      BY <1>2, <2>1, OneMoreTaken DEF More, TakenOf
    <2>2. CASE ~More(s)
      BY <1>3, <1>4, <2>2
    <2>. QED BY <2>1, <2>2
  <1>. QED BY <1>1, <1>3, <1>4, <1>5

(* The batch a step takes from the input.                                  *)
LEMMA Takes ==
  ASSUME NEW s, StreamShape(s), More(s), NEW t, t.input = s.input, t.taken = s.taken + 1
  PROVE  /\ NextBatch(s) \in Batch /\ NextBatch(s) \in Rowed /\ t.taken \in Nat
         /\ NextBatch(s).rows \in Nat /\ NextBatch(s).whole \in Nat
         /\ t.taken <= Len(t.input.batches) /\ WholeOf(TakenOf(s)) \in Nat
         /\ RowsOf(TakenOf(t)) = RowsOf(TakenOf(s)) + NextBatch(s).rows
         /\ WholeOf(TakenOf(t)) = WholeOf(TakenOf(s)) + NextBatch(s).whole
  <1> DEFINE S == s.input.batches
             n == s.taken
  <1>1. S \in Seq(Batch) /\ n \in Nat /\ Len(S) \in Nat /\ n < Len(S)
    BY StreamTypes DEF StreamShape, More
  <1>2. /\ NextBatch(s) = S[n + 1] /\ TakenOf(s) = SubSeq(S, 1, n) /\ TakenOf(t) = SubSeq(S, 1, n + 1)
        /\ t.input.batches = S /\ t.taken = n + 1
    BY DEF NextBatch, TakenOf
  <1> HIDE DEF S, n
  <1>3. n + 1 \in Nat /\ n + 1 <= Len(S)
    BY <1>1
  <1>. QED BY <1>1, <1>2, <1>3, OneMoreTaken

\* HeldPolls, a window: a batch is charged and kept.
LEMMA WindowTakesKeeps ==
  ASSUME NEW s, StreamInv(s), ~s.dropped, s.state = "open", s.kind = "window", Idle(s), More(s), NEW t,
         t = [s EXCEPT !.taken = @ + 1, !.pending = Append(@, NextBatch(s)),
                       !.charged = @ + Charge(NextBatch(s))]
  PROVE  StreamInv(t)
  <1> DEFINE b == NextBatch(s)
  <1>0. s \in Streams /\ StreamShape(s) /\ RowsKept(s) /\ ChargeKept(s) /\ CutKept(s)
    BY DEF StreamInv, StreamShape
  <1>1. /\ t.kind = "window" /\ t.input = s.input /\ t.taken = s.taken + 1 /\ t.ready = s.ready
        /\ t.pending = Append(s.pending, b) /\ t.charged = s.charged + Charge(b)
        /\ t.out = s.out /\ t.state = "open" /\ t.dropped = s.dropped
        /\ t = [kind |-> s.kind, input |-> s.input, taken |-> s.taken + 1, pending |-> Append(s.pending, b),
                charged |-> s.charged + Charge(b), ready |-> s.ready, out |-> s.out,
                state |-> s.state, dropped |-> s.dropped]
    BY <1>0 DEF Streams
  <1>2. /\ b \in Batch /\ b \in Rowed /\ t.taken \in Nat /\ b.rows \in Nat /\ b.whole \in Nat
        /\ t.taken <= Len(t.input.batches) /\ WholeOf(TakenOf(s)) \in Nat
        /\ RowsOf(TakenOf(t)) = RowsOf(TakenOf(s)) + b.rows
        /\ WholeOf(TakenOf(t)) = WholeOf(TakenOf(s)) + b.whole
    <2>1. StreamShape(s) /\ t.input = s.input /\ t.taken = s.taken + 1
      BY <1>0, <1>1
    <2>. QED BY <2>1, Takes
  <1>3. s.pending \in Seq(Batch) /\ s.pending \in Seq(Rowed)
    BY <1>0, StreamTypes DEF StreamShape
  <1> HIDE DEF b
  <1>4. /\ t.pending \in Seq(Batch) /\ t.pending \in Seq(Rowed) /\ t.pending # <<>>
        /\ RowsOf(t.pending) = RowsOf(s.pending) + b.rows
    <2>1. Append(s.pending, b) \in Seq(Batch) /\ Append(s.pending, b) # <<>>
      BY <1>2, <1>3, AppendProperties
    <2>2. Append(s.pending, b) \in Seq(Rowed) /\ RowsOf(Append(s.pending, b)) = RowsOf(s.pending) + b.rows
      BY <1>2, <1>3, RowsOfAppend
    <2>. QED BY <1>1, <2>1, <2>2
  <1>5. s.charged \in Nat /\ Charge(b) \in Nat /\ Charge(b) = 2 * b.whole /\ t.charged \in Nat
    <2>1. s.charged \in Nat
      BY <1>0, StreamTypes
    <2>2. Charge(b) = 2 * b.whole /\ Charge(b) \in Nat
      BY <1>2 DEF Charge
    <2>3. t.charged = s.charged + Charge(b)
      BY <1>1
    <2>. QED BY <2>1, <2>2, <2>3
  <1>6. StreamShape(t)
    <2>1. t \in Streams
      <3>1. /\ s.kind \in Kinds /\ s.input \in Inputs /\ s.ready \in Seq(Handed) /\ s.out \in Seq(Handed)
            /\ s.state \in {"open", "done", "error"} /\ s.dropped \in BOOLEAN
        BY <1>0, StreamTypes
      <3>2. s.taken + 1 \in Nat /\ Append(s.pending, b) \in Seq(Rowed) /\ s.charged + Charge(b) \in Nat
        BY <1>1, <1>2, <1>4, <1>5
      <3>. QED BY <1>1, <3>1, <3>2 DEF Streams
    <2>. QED BY <2>1, <1>1, <1>2, <1>4 DEF StreamShape
  <1>7. RowsKept(t)
    <2>1. /\ RowsOf(s.out) \in Nat /\ RowsOf(s.ready) \in Nat /\ RowsOf(s.pending) \in Nat
          /\ RowsOf(TakenOf(s)) \in Nat
      BY <1>0, RowsTyped DEF StreamShape
    <2>2. /\ RowsOf(s.out) + RowsOf(s.ready) + RowsOf(s.pending) = RowsOf(TakenOf(s))
          /\ RowsOf(s.out) <= RowsOf(TakenOf(s))
      BY <1>0 DEF RowsKept
    <2>3. /\ RowsOf(s.out) + RowsOf(s.ready) + (RowsOf(s.pending) + b.rows) = RowsOf(TakenOf(s)) + b.rows
          /\ RowsOf(s.out) <= RowsOf(TakenOf(s)) + b.rows
      BY <1>2, <2>1, <2>2
    <2>4. /\ RowsOf(t.out) = RowsOf(s.out) /\ RowsOf(t.ready) = RowsOf(s.ready)
          /\ RowsOf(t.pending) = RowsOf(s.pending) + b.rows /\ t.state # "done"
      BY <1>1, <1>4
    <2>. QED BY <2>3, <2>4, <1>2 DEF RowsKept
  <1>8. ChargeKept(t)
    BY <1>0, <1>1, <1>2, <1>5 DEF ChargeKept
  <1>9. CutKept(t)
    <2>1. s.out = <<>> /\ s.ready = <<>>
      BY <1>0 DEF CutKept
    <2>. QED BY <2>1, <1>0, <1>1 DEF CutKept
  <1>. QED BY <1>1, <1>6, <1>7, <1>8, <1>9 DEF StreamInv

\* The input fails, or a charge does.
LEMMA FailsKeeps ==
  ASSUME NEW s, StreamInv(s), s.state = "open", NEW t, t = [s EXCEPT !.state = "error"]
  PROVE  StreamInv(t)
  <1>0. s \in Streams
    BY DEF StreamInv, StreamShape
  <1>1. /\ t.kind = s.kind /\ t.input = s.input /\ t.taken = s.taken /\ t.ready = s.ready
        /\ t.pending = s.pending /\ t.charged = s.charged
        /\ t.out = s.out /\ t.state = "error" /\ t.dropped = s.dropped /\ t \in Streams
    BY <1>0 DEF Streams
  <1>2. TakenOf(t) = TakenOf(s) /\ (More(t) <=> More(s))
    BY <1>1 DEF TakenOf, More
  <1>3. StreamShape(t) /\ RowsKept(t) /\ ChargeKept(t)
    BY <1>1, <1>2 DEF StreamInv, StreamShape, RowsKept, ChargeKept
  <1>4. CutKept(s) => CutKept(t)
    BY <1>1, <1>2 DEF CutKept
  <1>5. GatherKept(s) => GatherKept(t)
    BY <1>1 DEF GatherKept
  <1>. QED BY <1>1, <1>3, <1>4, <1>5 DEF StreamInv

\* Drop: whatever the stream held is given back.
LEMMA DropKeeps ==
  ASSUME NEW s, StreamInv(s), NEW t,
         t = [s EXCEPT !.dropped = TRUE, !.charged = 0, !.pending = <<>>, !.ready = <<>>]
  PROVE  StreamInv(t)
  <1>0. s \in Streams
    BY DEF StreamInv, StreamShape
  <1>e. <<>> \in Seq(Rowed) /\ <<>> \in Seq(Handed) /\ <<>> \in Seq(Batch)
    BY EmptySeq
  <1>1. /\ t.kind = s.kind /\ t.input = s.input /\ t.taken = s.taken /\ t.ready = <<>>
        /\ t.pending = <<>> /\ t.charged = 0
        /\ t.out = s.out /\ t.state = s.state /\ t.dropped = TRUE /\ t \in Streams
    BY <1>0, <1>e DEF Streams
  <1>2. TakenOf(t) = TakenOf(s)
    BY <1>1 DEF TakenOf
  <1>3. StreamShape(t) /\ RowsKept(t) /\ ChargeKept(t)
    BY <1>1, <1>2, <1>e DEF StreamInv, StreamShape, RowsKept, ChargeKept
  <1>4. CutKept(s) => CutKept(t)
    BY <1>1 DEF CutKept
  <1>5. GatherKept(s) => GatherKept(t)
    BY <1>1 DEF GatherKept
  <1>. QED BY <1>1, <1>3, <1>4, <1>5 DEF StreamInv

\* The input ends and nothing is kept.
LEMMA EndsEmpty ==
  ASSUME NEW s, StreamInv(s), ~s.dropped, s.state = "open", s.kind \in {"window", "coalesce"}, Idle(s), ~More(s),
         ~s.input.fails, s.pending = <<>>, NEW t, t = [s EXCEPT !.state = "done"]
  PROVE  StreamInv(t)
  <1>0. s \in Streams /\ StreamShape(s)
    BY DEF StreamInv, StreamShape
  <1>1. /\ t.kind = s.kind /\ t.input = s.input /\ t.taken = s.taken /\ t.ready = s.ready
        /\ t.pending = s.pending /\ t.charged = s.charged
        /\ t.out = s.out /\ t.state = "done" /\ t.dropped = s.dropped /\ t \in Streams
    BY <1>0 DEF Streams
  <1>2. TakenOf(t) = TakenOf(s) /\ (More(t) <=> More(s))
    BY <1>1 DEF TakenOf, More
  <1>3. StreamShape(t) /\ ChargeKept(t)
    BY <1>1, <1>2 DEF StreamInv, StreamShape, ChargeKept
  <1>4. CutKept(t)
    BY <1>1, <1>2 DEF StreamInv, CutKept
  <1>5. RowsOf(s.out) = RowsOf(s.input.batches)
    <2>1. RowsOf(s.out) + RowsOf(s.ready) + RowsOf(s.pending) = RowsOf(TakenOf(s))
      BY DEF StreamInv, RowsKept
    <2>2. RowsOf(s.ready) = 0 /\ RowsOf(s.pending) = 0
      BY RowsOfNone DEF Idle
    <2>3. RowsOf(s.out) \in Nat /\ TakenOf(s) = s.input.batches
      BY <1>0, RowsTyped DEF StreamShape
    <2>. QED BY <2>1, <2>2, <2>3
  <1>6. RowsKept(t)
    BY <1>1, <1>2, <1>5 DEF StreamInv, RowsKept
  <1>. QED BY <1>1, <1>3, <1>4, <1>6 DEF StreamInv

\* HeldPolls, a window at the end of its input: what it kept is cut into batches.
LEMMA WindowComputesKeeps ==
  ASSUME NEW s, StreamInv(s), ~s.dropped, s.state = "open", s.kind = "window", Idle(s), ~More(s),
         s.pending # <<>>, NEW cut, NEW t,
         cut = [k \in DOMAIN Slices(RowsOf(s.pending)) |-> [rows |-> Slices(RowsOf(s.pending))[k], used |-> 0]],
         t = [s EXCEPT !.pending = <<>>, !.ready = cut]
  PROVE  StreamInv(t)
  <1>0. s \in Streams /\ StreamShape(s)
    BY DEF StreamInv, StreamShape
  <1>e. <<>> \in Seq(Rowed) /\ <<>> \in Seq(Batch)
    BY EmptySeq
  <1>2. RowsOf(s.out) \in Nat /\ RowsOf(s.ready) \in Nat /\ RowsOf(s.pending) \in Nat
        /\ RowsOf(TakenOf(s)) \in Nat
    BY <1>0, RowsTyped DEF StreamShape
  <1>3. cut \in Seq(Handed) /\ RowsOf(cut) = RowsOf(s.pending) /\ CutToSize(cut)
    BY <1>2, SlicesCut DEF CutToSize
  <1>1. /\ t.kind = s.kind /\ t.input = s.input /\ t.taken = s.taken /\ t.ready = cut
        /\ t.pending = <<>> /\ t.charged = s.charged
        /\ t.out = s.out /\ t.state = "open" /\ t.dropped = s.dropped /\ t \in Streams
    BY <1>0, <1>3, <1>e DEF Streams
  <1>4. TakenOf(t) = TakenOf(s) /\ (More(t) <=> More(s))
    BY <1>1 DEF TakenOf, More
  <1>5. StreamShape(t) /\ ChargeKept(t)
    BY <1>1, <1>4, <1>e DEF StreamInv, StreamShape, ChargeKept
  <1>6. s.out = <<>>
    BY DEF StreamInv, CutKept
  <1>7. CutKept(t)
    <2>1. AllFull(t.out)
      BY <1>1, <1>6 DEF AllFull
    <2>. QED BY <2>1, <1>1, <1>3, <1>4 DEF StreamInv, CutKept
  <1>8. RowsKept(t)
    <2>1. /\ RowsOf(s.out) + RowsOf(s.ready) + RowsOf(s.pending) = RowsOf(TakenOf(s))
          /\ RowsOf(s.out) <= RowsOf(TakenOf(s))
      BY DEF StreamInv, RowsKept
    <2>2. RowsOf(s.ready) = 0 /\ RowsOf(<<>>) = 0
      BY RowsOfNone DEF Idle
    <2>3. RowsOf(t.out) + RowsOf(t.ready) + RowsOf(t.pending) = RowsOf(TakenOf(t))
      BY <2>1, <2>2, <1>1, <1>2, <1>3, <1>4
    <2>. QED BY <2>1, <2>3, <1>1, <1>4 DEF RowsKept
  <1>. QED BY <1>1, <1>5, <1>7, <1>8 DEF StreamInv

\* HeldPolls, a coalescer: full batches are ready, the rest is kept back.
LEMMA CoalesceTakesKeeps ==
  ASSUME NEW s, StreamInv(s), ~s.dropped, s.state = "open", s.kind = "coalesce", Idle(s), More(s),
         NEW n, n = RowsOf(s.pending) + NextBatch(s).rows, NEW t,
         t = [s EXCEPT !.taken = @ + 1, !.ready = Full(n), !.pending = Rest(n)]
  PROVE  StreamInv(t)
  <1> DEFINE b == NextBatch(s)
             F == Full(n)
             R == Rest(n)
  <1>0. s \in Streams /\ StreamShape(s) /\ s.taken \in Nat
    BY StreamTypes DEF StreamInv, StreamShape
  <1>2. /\ RowsOf(s.out) \in Nat /\ RowsOf(s.ready) \in Nat /\ RowsOf(s.pending) \in Nat
        /\ RowsOf(TakenOf(s)) \in Nat
    BY <1>0, RowsTyped DEF StreamShape
  <1>a. \A u : u.input = s.input /\ u.taken = s.taken + 1 =>
          /\ u.taken \in Nat /\ b.rows \in Nat
          /\ u.taken <= Len(u.input.batches)
          /\ RowsOf(TakenOf(u)) = RowsOf(TakenOf(s)) + b.rows
    BY <1>0, Takes
  <1>r. s.taken + 1 \in Nat /\ b.rows \in Nat /\ n \in Nat /\ n = RowsOf(s.pending) + b.rows
    <2>1. b.rows \in Nat
      <3> DEFINE u == [input |-> s.input, taken |-> s.taken + 1]
      <3>1. u.input = s.input /\ u.taken = s.taken + 1
        OBVIOUS
      <3> HIDE DEF u
      <3>2. b.rows \in Nat
        BY <1>0, <3>1, Takes
      <3>. QED BY <3>2
    <2> HIDE DEF b
    <2>2. n = RowsOf(s.pending) + b.rows
      BY DEF b
    <2>. QED BY <2>1, <2>2, <1>0, <1>2
  <1> HIDE DEF b
  <1>3. /\ F \in Seq(Handed) /\ R \in Seq(Handed) /\ R \in Seq(Rowed)
        /\ RowsOf(F) + RowsOf(R) = n /\ AllFull(F) /\ Len(R) \in {0, 1} /\ Len(F) \in Nat
        /\ \A k \in 1..Len(R) : R[k].rows <= BatchSize
    <2>1. R \in Seq(Handed) => R \in Seq(Rowed)
      <3> HIDE DEF R
      <3>. QED BY SeqMonotonic DEF Rowed
    <2>2. F \in Seq(Handed) => Len(F) \in Nat
      <3> HIDE DEF F
      <3>. QED BY LenProperties
    <2>. QED BY <1>r, <2>1, <2>2, FullAndRest DEF AllFull
  <1> HIDE DEF F, R
  <1>1. /\ t.kind = s.kind /\ t.input = s.input /\ t.taken = s.taken + 1 /\ t.ready = F
        /\ t.pending = R /\ t.charged = s.charged
        /\ t.out = s.out /\ t.state = "open" /\ t.dropped = s.dropped /\ t \in Streams
    <2>1. t = [s EXCEPT !.taken = @ + 1, !.ready = F, !.pending = R]
      BY DEF F, R
    <2>. QED BY <2>1, <1>0, <1>3, <1>r DEF Streams
  <1>4. t.taken <= Len(t.input.batches) /\ RowsOf(TakenOf(t)) = RowsOf(TakenOf(s)) + b.rows
    BY <1>1, <1>a
  <1>5. StreamShape(t)
    BY <1>1, <1>3, <1>4 DEF StreamShape
  <1>6. ChargeKept(t)
    BY <1>1 DEF ChargeKept
  <1>7. CutKept(t)
    <2>1. CutToSize(s.out) /\ AllFull(s.out)
      BY DEF StreamInv, CutKept
    <2>2. CutToSize(F)
      BY <1>3, HeldInputAssumption DEF AllFull, CutToSize
    <2>3. CutToSize(R) /\ Len(R) <= 1
      <3>1. \A k \in 1..Len(R) : ~(k < Len(R))
        BY <1>3
      <3>2. Len(R) <= 1
        BY <1>3
      <3>. QED BY <1>3, <3>1, <3>2 DEF CutToSize
    <2>. QED BY <2>1, <2>2, <2>3, <1>1, <1>3 DEF CutKept
  <1>8. RowsKept(t)
    <2>1. /\ RowsOf(s.out) + RowsOf(s.ready) + RowsOf(s.pending) = RowsOf(TakenOf(s))
          /\ RowsOf(s.out) <= RowsOf(TakenOf(s))
      BY DEF StreamInv, RowsKept
    <2>2. RowsOf(s.ready) = 0
      BY RowsOfNone DEF Idle
    <2>3. RowsOf(F) \in Nat /\ RowsOf(R) \in Nat
      <3>1. F \in Seq(Rowed)
        BY <1>3, SeqMonotonic DEF Rowed
      <3>2. R \in Seq(Rowed)
        BY <1>3
      <3>3. RowsOf(F) \in Nat
        BY <3>1, RowsOfAny
      <3>4. RowsOf(R) \in Nat
        BY <3>2, RowsOfAny
      <3>. QED BY <3>3, <3>4
    <2>4. /\ RowsOf(s.out) + RowsOf(F) + RowsOf(R) = RowsOf(TakenOf(s)) + b.rows
          /\ RowsOf(s.out) <= RowsOf(TakenOf(s)) + b.rows
      <3>1. RowsOf(F) + RowsOf(R) = RowsOf(s.pending) + b.rows
        BY <1>3, <1>r
      <3>2. b.rows \in Nat
        BY <1>r
      <3>. QED BY <2>1, <2>2, <2>3, <1>2, <3>1, <3>2
    <2>. QED BY <2>4, <1>1, <1>4 DEF RowsKept
  <1>. QED BY <1>1, <1>5, <1>6, <1>7, <1>8 DEF StreamInv

\* HeldPolls, a coalescer at the end of its input: the rest is ready.
LEMMA CoalesceEndsKeeps ==
  ASSUME NEW s, StreamInv(s), ~s.dropped, s.state = "open", s.kind = "coalesce", Idle(s), ~More(s),
         NEW t, t = [s EXCEPT !.pending = <<>>, !.ready = s.pending]
  PROVE  StreamInv(t)
  <1>0. s \in Streams /\ StreamShape(s) /\ s.pending \in Seq(Handed)
    BY DEF StreamInv, StreamShape
  <1>e. <<>> \in Seq(Rowed) /\ <<>> \in Seq(Handed)
    BY EmptySeq
  <1>2. RowsOf(s.out) \in Nat /\ RowsOf(s.ready) \in Nat /\ RowsOf(s.pending) \in Nat
        /\ RowsOf(TakenOf(s)) \in Nat
    BY <1>0, RowsTyped DEF StreamShape
  <1>1. /\ t.kind = s.kind /\ t.input = s.input /\ t.taken = s.taken /\ t.ready = s.pending
        /\ t.pending = <<>> /\ t.charged = s.charged
        /\ t.out = s.out /\ t.state = "open" /\ t.dropped = s.dropped /\ t \in Streams
    BY <1>0, <1>e DEF Streams
  <1>4. TakenOf(t) = TakenOf(s) /\ (More(t) <=> More(s))
    BY <1>1 DEF TakenOf, More
  <1>5. StreamShape(t) /\ ChargeKept(t)
    BY <1>1, <1>4, <1>e DEF StreamInv, StreamShape, ChargeKept
  <1>7. CutKept(t)
    <2>1. CutToSize(s.out) /\ CutToSize(s.pending) /\ (s.pending # <<>> => AllFull(s.out))
      BY DEF StreamInv, CutKept
    <2>2. CutToSize(<<>>) /\ Len(<<>>) <= 1
      BY DEF CutToSize
    <2>. QED BY <2>1, <2>2, <1>1, <1>4 DEF CutKept
  <1>8. RowsKept(t)
    <2>1. /\ RowsOf(s.out) + RowsOf(s.ready) + RowsOf(s.pending) = RowsOf(TakenOf(s))
          /\ RowsOf(s.out) <= RowsOf(TakenOf(s))
      BY DEF StreamInv, RowsKept
    <2>2. RowsOf(s.ready) = 0 /\ RowsOf(<<>>) = 0
      BY RowsOfNone DEF Idle
    <2>3. RowsOf(t.out) + RowsOf(t.ready) + RowsOf(t.pending) = RowsOf(TakenOf(t))
      BY <2>1, <2>2, <1>1, <1>2, <1>4
    <2>. QED BY <2>1, <2>3, <1>1, <1>4 DEF RowsKept
  <1>. QED BY <1>1, <1>5, <1>7, <1>8 DEF StreamInv

\* HeldPolls with a batch ready: it is handed on.
LEMMA EmitKeeps ==
  ASSUME NEW s, StreamInv(s), ~s.dropped, s.state = "open", ~Idle(s), NEW t,
         t = [s EXCEPT !.ready = Tail(@), !.out = Append(@, Head(s.ready))]
  PROVE  StreamInv(t)
  <1> DEFINE S == s.ready
             T == Tail(s.ready)
             b == Head(s.ready)
             O == Append(s.out, b)
  <1>0. s \in Streams /\ StreamShape(s) /\ S \in Seq(Handed) /\ S \in Seq(Rowed)
        /\ s.out \in Seq(Handed) /\ s.out \in Seq(Rowed) /\ S # <<>>
    BY StreamTypes DEF StreamInv, StreamShape, Idle
  <1>2. /\ RowsOf(s.out) \in Nat /\ RowsOf(S) \in Nat /\ RowsOf(s.pending) \in Nat
        /\ RowsOf(TakenOf(s)) \in Nat
    BY <1>0, RowsTyped DEF StreamShape
  <1> HIDE DEF S
  <1>3. /\ Tail(S) \in Seq(Handed) /\ Head(S) \in Handed
    BY <1>0, HeadTailProperties
  <1>4. /\ RowsOf(S) = Head(S).rows + RowsOf(Tail(S)) /\ Tail(S) \in Seq(Rowed)
        /\ Head(S) = S[1] /\ Len(Tail(S)) = Len(S) - 1 /\ Len(S) \in Nat \ {0}
        /\ \A k \in 1..Len(Tail(S)) : Tail(S)[k] = S[k + 1]
    BY <1>0, RowsOfFirst
  <1>5. T = Tail(S) /\ b = Head(S)
    BY DEF S
  <1> HIDE DEF T, b
  <1>6. b \in Handed /\ b \in Rowed /\ T \in Seq(Handed) /\ T \in Seq(Rowed)
    BY <1>3, <1>4, <1>5 DEF Rowed
  <1>7. /\ O \in Seq(Handed) /\ Len(O) = Len(s.out) + 1 /\ O[Len(s.out) + 1] = b
        /\ \A k \in 1..Len(s.out) : O[k] = s.out[k]
    BY <1>0, <1>6, AppendProperties
  <1>8. RowsOf(O) = RowsOf(s.out) + b.rows /\ b.rows \in Nat /\ Len(s.out) \in Nat
    BY <1>0, <1>6, RowsOfAppend, LenProperties
  <1> HIDE DEF O
  <1>1. /\ t.kind = s.kind /\ t.input = s.input /\ t.taken = s.taken /\ t.ready = T
        /\ t.pending = s.pending /\ t.charged = s.charged
        /\ t.out = O /\ t.state = "open" /\ t.dropped = s.dropped /\ t \in Streams
    <2>1. t = [s EXCEPT !.ready = T, !.out = O]
      BY <1>0 DEF T, O, b, S, Streams
    <2>. QED BY <2>1, <1>0, <1>6, <1>7 DEF Streams
  <1>9. TakenOf(t) = TakenOf(s) /\ (More(t) <=> More(s))
    BY <1>1 DEF TakenOf, More
  <1>10. StreamShape(t) /\ ChargeKept(t)
    BY <1>1, <1>9 DEF StreamInv, StreamShape, ChargeKept
  <1>11. RowsKept(t)
    <2>1. RowsOf(s.out) + RowsOf(S) + RowsOf(s.pending) = RowsOf(TakenOf(s))
      BY DEF StreamInv, RowsKept, S
    <2>2. RowsOf(T) \in Nat /\ RowsOf(S) = b.rows + RowsOf(T)
      BY <1>4, <1>5, <1>6, RowsOfAny
    <2>3. /\ RowsOf(O) + RowsOf(T) + RowsOf(s.pending) = RowsOf(TakenOf(s))
          /\ RowsOf(O) <= RowsOf(TakenOf(s))
      BY <2>1, <2>2, <1>2, <1>8
    <2>. QED BY <2>3, <1>1, <1>9 DEF RowsKept
  <1>12. /\ \A k \in 1..Len(O) : k \in 1..Len(s.out) \/ k = Len(s.out) + 1
         /\ \A k \in 1..Len(s.out) : k \in 1..Len(O) /\ k < Len(O)
         /\ 1 \in 1..Len(S) /\ Len(T) \in Nat /\ Len(T) = Len(S) - 1
         /\ \A k \in 1..Len(T) : k + 1 \in 1..Len(S) /\ T[k] = S[k + 1]
    <2>1. Len(O) = Len(s.out) + 1 /\ Len(s.out) \in Nat /\ Len(S) \in Nat \ {0} /\ Len(T) = Len(S) - 1
      BY <1>4, <1>5, <1>7, <1>8
    <2>2. \A k \in 1..Len(T) : T[k] = S[k + 1]
      BY <1>4, <1>5
    <2>. QED BY <2>1, <2>2
  <1>13. b = S[1]
    BY <1>4, <1>5
  <1>14. ASSUME s.kind \in {"window", "coalesce"} PROVE CutKept(t)
    <2>0. CutKept(s)
      BY <1>14 DEF StreamInv
    <2>1. CutToSize(S) /\ AllFull(s.out)
      BY <2>0, <1>0 DEF CutKept, S
    <2>2. CutToSize(T)
      <3>1. ASSUME NEW k \in 1..Len(T) PROVE T[k].rows <= BatchSize /\ (k < Len(T) => T[k].rows = BatchSize)
        <4>1. T[k] = S[k + 1] /\ k + 1 \in 1..Len(S) /\ (k < Len(T) => k + 1 < Len(S))
          BY <1>12, <1>4
        <4>. QED BY <4>1, <2>1 DEF CutToSize
      <3>. QED BY <3>1 DEF CutToSize
    <2>3. b.rows <= BatchSize /\ (Len(S) # 1 => b.rows = BatchSize)
      <3>1. Len(S) # 1 => 1 < Len(S)
        BY <1>4
      <3>. QED BY <3>1, <2>1, <1>12, <1>13 DEF CutToSize
    <2>4. CutToSize(O)
      <3>1. \A k \in 1..Len(s.out) : O[k].rows = BatchSize /\ O[k].rows <= BatchSize
        <4>1. BatchSize <= BatchSize
          BY HeldInputAssumption
        <4>2. \A k \in 1..Len(s.out) : O[k] = s.out[k] /\ s.out[k].rows = BatchSize
          BY <2>1, <1>7 DEF AllFull
        <4>. QED BY <4>1, <4>2
      <3>2. ~(Len(s.out) + 1 < Len(O))
        BY <1>7, <1>8
      <3>. QED BY <3>1, <3>2, <2>3, <1>7, <1>12 DEF CutToSize
    <2>5. ASSUME b.rows = BatchSize PROVE AllFull(O)
      BY <2>1, <2>5, <1>7, <1>12 DEF AllFull
    <2>6. T # <<>> => Len(S) # 1
      <3>1. Len(T) = 0 => T = <<>>
        BY <1>6, EmptySeq
      <3>. QED BY <3>1, <1>12
    <2>7. ASSUME More(s) \/ s.pending # <<>> PROVE s.kind = "coalesce" /\ AllFull(S)
      BY <2>7, <2>0, <1>0, <1>14 DEF CutKept, S
    <2>8. ASSUME AllFull(S) PROVE b.rows = BatchSize /\ AllFull(T)
      <3>1. b.rows = BatchSize
        BY <2>8, <1>12, <1>13 DEF AllFull
      <3>2. \A k \in 1..Len(T) : T[k].rows = BatchSize
        BY <2>8, <1>12 DEF AllFull
      <3>. QED BY <3>1, <3>2 DEF AllFull
    <2>9. s.kind = "coalesce" => CutToSize(s.pending) /\ Len(s.pending) <= 1
      BY <2>0 DEF CutKept
    <2>10. T # <<>> => AllFull(O)
      BY <2>3, <2>5, <2>6
    <2>11. More(s) \/ s.pending # <<>> => s.kind = "coalesce" /\ AllFull(O) /\ AllFull(T)
      BY <2>5, <2>7, <2>8
    <2>. QED BY <1>1, <1>9, <2>2, <2>4, <2>9, <2>10, <2>11 DEF CutKept
  <1>15. ASSUME s.kind \notin {"window", "coalesce"} PROVE GatherKept(t)
    <2>1. AllReach(s.out) /\ AllReach(S)
      BY <1>15 DEF StreamInv, GatherKept, S
    <2>2. AllReach(O)
      <3>1. Reaches(b)
        BY <2>1, <1>12, <1>13 DEF AllReach
      <3>2. \A k \in 1..Len(s.out) : Reaches(O[k])
        <4> TAKE k \in 1..Len(s.out)
        <4>1. O[k] = s.out[k] /\ Reaches(s.out[k])
          BY <2>1, <1>7 DEF AllReach
        <4>. QED BY <4>1
      <3>3. Reaches(O[Len(s.out) + 1])
        BY <3>1, <1>7
      <3>. QED BY <3>2, <3>3, <1>12 DEF AllReach
    <2>3. AllReach(T)
      <3> SUFFICES ASSUME NEW k \in 1..Len(T) PROVE Reaches(T[k])
        BY DEF AllReach
      <3>1. T[k] = S[k + 1] /\ Reaches(S[k + 1])
        BY <2>1, <1>12 DEF AllReach
      <3>. QED BY <3>1
    <2>4. \A k \in 1..Len(O) : Reaches(O[k])
      BY <2>2 DEF AllReach
    <2>. QED BY <2>2, <2>3, <2>4, <1>1 DEF GatherKept
  <1>. QED BY <1>1, <1>10, <1>11, <1>14, <1>15 DEF StreamInv

(* What a stream gathers: its batch reaches a bound, or ends its input.    *)
LEMMA GatheredRows ==
  ASSUME NEW s \in Streams, s.pending \in Seq(Batch)
  PROVE  /\ Gathered(s) \in Seq(Handed) /\ Gathered(s) \in Seq(Rowed) /\ RowsOf(Gathered(s)) = RowsOf(s.pending)
         /\ Len(Gathered(s)) <= 1 /\ Len(Gathered(s)) \in Nat
         /\ Bound(s) => AllReach(Gathered(s))
  <1> DEFINE b == [rows |-> RowsOf(s.pending), used |-> HeldBytes(s.kind, s.pending)]
  <1>e. <<>> \in Seq(Rowed) /\ <<>> \in Seq(Handed) /\ Len(<<>>) = 0
    BY EmptySeq
  <1>0. RowsOf(s.pending) \in Nat
    BY SumsOfHeld, RowsOfAny
  <1>1. HeldBytes(s.kind, s.pending) \in Nat
    BY SumsOfHeld DEF HeldBytes
  <1>2. b \in Handed /\ b.rows = RowsOf(s.pending) /\ b.used = HeldBytes(s.kind, s.pending)
    BY <1>0, <1>1 DEF Handed
  <1>3. CASE s.pending = <<>>
    <2>1. Gathered(s) = <<>>
      BY <1>3 DEF Gathered
    <2>. QED BY <2>1, <1>3, <1>e DEF AllReach
  <1>4. CASE s.pending # <<>>
    <2>1. Gathered(s) = <<b>>
      BY <1>4 DEF Gathered
    <2> HIDE DEF b
    <2>2. <<b>> \in Seq(Handed) /\ Len(<<b>>) = 1 /\ <<b>>[1] = b /\ b \in Rowed /\ <<b>> = Append(<<>>, b)
      BY <1>2 DEF Rowed
    <2>3. RowsOf(<<b>>) = 0 + b.rows /\ <<b>> \in Seq(Rowed)
      BY <2>2, RowsOfNone, RowsOfAppend
    <2>4. Bound(s) => Reaches(b)
      BY <1>2 DEF Bound, Reaches
    <2>5. \A k \in 1..Len(<<b>>) : <<b>>[k] = b
      BY <2>2
    <2>. QED BY <2>1, <2>2, <2>3, <2>4, <2>5, <1>0, <1>2 DEF AllReach
  <1>. QED BY <1>3, <1>4

\* HeldPolls, a gatherer below its bounds: a batch is kept.
LEMMA GatherTakesKeeps ==
  ASSUME NEW s, StreamInv(s), ~s.dropped, s.state = "open", s.kind \in {"gather", "compact"}, Idle(s), More(s),
         NEW t, t = [s EXCEPT !.taken = @ + 1, !.pending = Append(@, NextBatch(s))]
  PROVE  StreamInv(t)
  <1> DEFINE b == NextBatch(s)
  <1>0. s \in Streams /\ StreamShape(s) /\ RowsKept(s) /\ ChargeKept(s) /\ GatherKept(s)
    BY DEF StreamInv, StreamShape
  <1>1. /\ t.kind = s.kind /\ t.input = s.input /\ t.taken = s.taken + 1 /\ t.ready = s.ready
        /\ t.pending = Append(s.pending, b) /\ t.charged = s.charged
        /\ t.out = s.out /\ t.state = "open" /\ t.dropped = s.dropped
    BY <1>0 DEF Streams
  <1>2. /\ b \in Batch /\ b \in Rowed /\ t.taken \in Nat /\ b.rows \in Nat
        /\ t.taken <= Len(t.input.batches)
        /\ RowsOf(TakenOf(t)) = RowsOf(TakenOf(s)) + b.rows
    <2>1. StreamShape(s) /\ t.input = s.input /\ t.taken = s.taken + 1
      BY <1>0, <1>1
    <2>. QED BY <2>1, Takes
  <1>3. s.pending \in Seq(Batch) /\ s.pending \in Seq(Rowed)
    BY <1>0, StreamTypes DEF StreamShape
  <1> HIDE DEF b
  <1>4. /\ t.pending \in Seq(Batch) /\ t.pending \in Seq(Rowed)
        /\ RowsOf(t.pending) = RowsOf(s.pending) + b.rows
    <2>1. Append(s.pending, b) \in Seq(Batch)
      BY <1>2, <1>3, AppendProperties
    <2>2. Append(s.pending, b) \in Seq(Rowed) /\ RowsOf(Append(s.pending, b)) = RowsOf(s.pending) + b.rows
      BY <1>2, <1>3, RowsOfAppend
    <2>. QED BY <1>1, <2>1, <2>2
  <1>5. StreamShape(t)
    <2>1. t \in Streams
      <3>1. t = [s EXCEPT !.taken = t.taken, !.pending = t.pending]
        BY <1>0, <1>1 DEF Streams, b
      <3>. QED BY <3>1, <1>0, <1>2, <1>4 DEF Streams
    <2>. QED BY <2>1, <1>1, <1>2, <1>4 DEF StreamShape
  <1>6. RowsKept(t)
    <2>1. /\ RowsOf(s.out) \in Nat /\ RowsOf(s.ready) \in Nat /\ RowsOf(s.pending) \in Nat
          /\ RowsOf(TakenOf(s)) \in Nat
      BY <1>0, RowsTyped DEF StreamShape
    <2>2. /\ RowsOf(s.out) + RowsOf(s.ready) + RowsOf(s.pending) = RowsOf(TakenOf(s))
          /\ RowsOf(s.out) <= RowsOf(TakenOf(s))
      BY <1>0 DEF RowsKept
    <2>3. /\ RowsOf(s.out) + RowsOf(s.ready) + (RowsOf(s.pending) + b.rows) = RowsOf(TakenOf(s)) + b.rows
          /\ RowsOf(s.out) <= RowsOf(TakenOf(s)) + b.rows
      BY <1>2, <2>1, <2>2
    <2>4. /\ RowsOf(t.out) = RowsOf(s.out) /\ RowsOf(t.ready) = RowsOf(s.ready)
          /\ RowsOf(t.pending) = RowsOf(s.pending) + b.rows /\ t.state # "done"
      BY <1>1, <1>4
    <2>. QED BY <2>3, <2>4, <1>2 DEF RowsKept
  <1>7. ChargeKept(t)
    BY <1>1 DEF ChargeKept
  <1>8. GatherKept(t)
    BY <1>0, <1>1 DEF GatherKept
  <1>. QED BY <1>1, <1>5, <1>6, <1>7, <1>8 DEF StreamInv

\* HeldPolls, a gatherer at a bound: what it kept is one batch.
LEMMA BoundKeeps ==
  ASSUME NEW s, StreamInv(s), ~s.dropped, s.state = "open", s.kind \in {"gather", "compact"}, Idle(s), Bound(s),
         NEW t, t = [s EXCEPT !.pending = <<>>, !.ready = Gathered(s)]
  PROVE  StreamInv(t)
  <1> DEFINE G == Gathered(s)
  <1>0. s \in Streams /\ StreamShape(s) /\ GatherKept(s) /\ s.pending \in Seq(Batch)
    BY DEF StreamInv, StreamShape
  <1>e. <<>> \in Seq(Rowed) /\ <<>> \in Seq(Batch)
    BY EmptySeq
  <1>2. G \in Seq(Handed) /\ RowsOf(G) = RowsOf(s.pending) /\ AllReach(G)
    BY <1>0, GatheredRows
  <1>3. RowsOf(s.out) \in Nat /\ RowsOf(s.ready) \in Nat /\ RowsOf(s.pending) \in Nat
        /\ RowsOf(TakenOf(s)) \in Nat
    BY <1>0, RowsTyped DEF StreamShape
  <1> HIDE DEF G
  <1>1. /\ t.kind = s.kind /\ t.input = s.input /\ t.taken = s.taken /\ t.ready = G
        /\ t.pending = <<>> /\ t.charged = s.charged
        /\ t.out = s.out /\ t.state = "open" /\ t.dropped = s.dropped /\ t \in Streams
    <2>1. t = [s EXCEPT !.pending = <<>>, !.ready = G]
      BY DEF G
    <2>. QED BY <2>1, <1>0, <1>2, <1>e DEF Streams
  <1>4. TakenOf(t) = TakenOf(s)
    BY <1>1 DEF TakenOf
  <1>5. StreamShape(t) /\ ChargeKept(t)
    BY <1>1, <1>4, <1>e DEF StreamInv, StreamShape, ChargeKept
  <1>6. RowsKept(t)
    <2>1. /\ RowsOf(s.out) + RowsOf(s.ready) + RowsOf(s.pending) = RowsOf(TakenOf(s))
          /\ RowsOf(s.out) <= RowsOf(TakenOf(s))
      BY DEF StreamInv, RowsKept
    <2>2. RowsOf(s.ready) = 0 /\ RowsOf(<<>>) = 0
      BY RowsOfNone DEF Idle
    <2>3. RowsOf(t.out) + RowsOf(t.ready) + RowsOf(t.pending) = RowsOf(TakenOf(t))
      BY <2>1, <2>2, <1>1, <1>2, <1>3, <1>4
    <2>. QED BY <2>1, <2>3, <1>1, <1>4 DEF RowsKept
  <1>7. GatherKept(t)
    BY <1>0, <1>1, <1>2 DEF GatherKept
  <1>. QED BY <1>1, <1>5, <1>6, <1>7 DEF StreamInv

\* HeldPolls, a gatherer at the end of its input: the last batch.
LEMMA GatherEndsKeeps ==
  ASSUME NEW s, StreamInv(s), ~s.dropped, s.state = "open", s.kind \in {"gather", "compact"}, Idle(s), ~More(s),
         ~s.input.fails, NEW t,
         t = [s EXCEPT !.pending = <<>>, !.out = @ \o Gathered(s), !.state = "done"]
  PROVE  StreamInv(t)
  <1> DEFINE G == Gathered(s)
             O == s.out \o G
  <1>0. /\ s \in Streams /\ StreamShape(s) /\ GatherKept(s) /\ s.pending \in Seq(Batch)
        /\ s.out \in Seq(Handed) /\ s.out \in Seq(Rowed)
    BY StreamTypes DEF StreamInv, StreamShape
  <1>e. <<>> \in Seq(Rowed) /\ <<>> \in Seq(Batch) /\ <<>> \in Seq(Handed)
    BY EmptySeq
  <1>2. G \in Seq(Handed) /\ RowsOf(G) = RowsOf(s.pending) /\ Len(G) <= 1 /\ Len(G) \in Nat
    BY <1>0, GatheredRows
  <1>3. RowsOf(s.out) \in Nat /\ RowsOf(s.ready) \in Nat /\ RowsOf(s.pending) \in Nat
        /\ RowsOf(TakenOf(s)) \in Nat /\ TakenOf(s) = s.input.batches
    BY <1>0, RowsTyped DEF StreamShape
  <1> HIDE DEF G
  <1>4. /\ O \in Seq(Handed) /\ Len(O) = Len(s.out) + Len(G) /\ Len(s.out) \in Nat
        /\ \A k \in 1..(Len(s.out) + Len(G)) : O[k] = IF k <= Len(s.out) THEN s.out[k] ELSE G[k - Len(s.out)]
    BY <1>0, <1>2, ConcatProperties, LenProperties
  <1>5. RowsOf(O) = RowsOf(s.out) + RowsOf(G)
    <2>1. CASE Len(G) = 0
      <3>1. G = <<>>
        BY <2>1, <1>2, EmptySeq
      <3>2. O = s.out
        BY <3>1, <1>0, ConcatEmptySeq
      <3>. QED BY <3>1, <3>2, <1>3, RowsOfNone
    <2>2. CASE Len(G) = 1
      <3> DEFINE b == G[1]
                 A == Append(s.out, b)
      <3>1. b \in Handed /\ b \in Rowed
        <4>1. 1 \in 1..Len(G)
          BY <2>2
        <4> HIDE DEF A, O
        <4>2. b \in Handed
          BY <1>2, <4>1, ElementOfSeq
        <4>. QED BY <4>2 DEF Rowed
      <3>2. G = Append(<<>>, b)
        <4>1. /\ Append(<<>>, b) \in Seq(Handed) /\ Len(Append(<<>>, b)) = 1 /\ Append(<<>>, b)[1] = b
          BY <3>1
        <4>2. \A k \in 1..Len(G) : G[k] = Append(<<>>, b)[k]
          BY <4>1, <2>2
        <4>. QED BY <4>1, <4>2, <1>2, <2>2, SeqEqual
      <3>3. O = A
        <4>1. /\ A \in Seq(Handed) /\ Len(A) = Len(s.out) + 1 /\ A[Len(s.out) + 1] = b
              /\ \A k \in 1..Len(s.out) : A[k] = s.out[k]
          BY <1>0, <3>1, AppendProperties
        <4> HIDE DEF O, A
        <4>2. \A k \in 1..Len(O) : O[k] = A[k]
          <5> TAKE k \in 1..Len(O)
          <5>1. CASE k <= Len(s.out)
            <6>1. O[k] = s.out[k] /\ A[k] = s.out[k]
              BY <5>1, <4>1, <1>4, <2>2
            <6>. QED BY <6>1
          <5>2. CASE k = Len(s.out) + 1
            <6>1. k - Len(s.out) = 1 /\ ~(k <= Len(s.out)) /\ k \in 1..(Len(s.out) + Len(G))
              BY <5>2, <1>4, <2>2
            <6>2. O[k] = G[1]
              BY <6>1, <1>4
            <6>. QED BY <6>2, <5>2, <4>1
          <5>3. k <= Len(s.out) \/ k = Len(s.out) + 1
            BY <1>4, <2>2
          <5>. QED BY <5>1, <5>2, <5>3
        <4>. QED BY <4>1, <4>2, <1>4, <2>2, SeqEqual
      <3> HIDE DEF b, O, A
      <3>4. RowsOf(A) = RowsOf(s.out) + b.rows
        BY <1>0, <3>1, RowsOfAppend DEF A
      <3>5. RowsOf(G) = 0 + b.rows /\ b.rows \in Nat
        <4>1. RowsOf(Append(<<>>, b)) = RowsOf(<<>>) + b.rows /\ b.rows \in Nat
          BY <3>1, <1>e, RowsOfAppend
        <4>. QED BY <4>1, <3>2, RowsOfNone
      <3>. QED BY <3>3, <3>4, <3>5
    <2>3. Len(G) = 0 \/ Len(G) = 1
      <3>1. Len(G) <= 1 /\ Len(G) \in Nat
        BY <1>2
      <3>2. \A l \in Nat : l <= 1 => l = 0 \/ l = 1
        OBVIOUS
      <3>. QED BY <3>1, <3>2
    <2>. QED BY <2>1, <2>2, <2>3
  <1>6. \A k \in 1..Len(O) : k < Len(O) => k \in 1..Len(s.out) /\ O[k] = s.out[k]
    <2> TAKE k \in 1..Len(O)
    <2> HAVE k < Len(O)
    <2> HIDE DEF O
    <2>1. k \in 1..Len(s.out) /\ k <= Len(s.out) /\ k \in 1..(Len(s.out) + Len(G))
      BY <1>2, <1>4
    <2>. QED BY <2>1, <1>4
  <1> HIDE DEF O
  <1>1. /\ t.kind = s.kind /\ t.input = s.input /\ t.taken = s.taken /\ t.ready = s.ready
        /\ t.pending = <<>> /\ t.charged = s.charged
        /\ t.out = O /\ t.state = "done" /\ t.dropped = s.dropped /\ t \in Streams
    <2>1. t = [s EXCEPT !.pending = <<>>, !.out = O, !.state = "done"]
      BY <1>0 DEF G, O, Streams
    <2>. QED BY <2>1, <1>0, <1>4, <1>e DEF Streams
  <1>7. TakenOf(t) = TakenOf(s)
    BY <1>1 DEF TakenOf
  <1>8. StreamShape(t) /\ ChargeKept(t)
    BY <1>1, <1>7, <1>e DEF StreamInv, StreamShape, ChargeKept
  <1>9. RowsKept(t)
    <2>1. RowsOf(s.out) + RowsOf(s.ready) + RowsOf(s.pending) = RowsOf(TakenOf(s))
      BY DEF StreamInv, RowsKept
    <2>2. RowsOf(s.ready) = 0 /\ RowsOf(<<>>) = 0
      BY RowsOfNone DEF Idle
    <2>3. RowsOf(O) = RowsOf(TakenOf(s))
      BY <2>1, <2>2, <1>2, <1>3, <1>5
    <2>4. RowsOf(O) + RowsOf(s.ready) + RowsOf(<<>>) = RowsOf(TakenOf(s)) /\ RowsOf(O) <= RowsOf(TakenOf(s))
      BY <2>2, <2>3, <1>3
    <2>. QED BY <2>3, <2>4, <1>1, <1>3, <1>7 DEF RowsKept
  <1>10. GatherKept(t)
    <2>1. \A k \in 1..Len(s.out) : Reaches(s.out[k])
      BY <1>0 DEF GatherKept, AllReach
    <2>2. \A k \in 1..Len(O) : k < Len(O) => Reaches(O[k])
      <3> TAKE k \in 1..Len(O)
      <3> HAVE k < Len(O)
      <3>1. O[k] = s.out[k] /\ Reaches(s.out[k])
        BY <1>6, <2>1
      <3>. QED BY <3>1
    <2>. QED BY <2>2, <1>1 DEF GatherKept
  <1>. QED BY <1>1, <1>8, <1>9, <1>10 DEF StreamInv

-----------------------------------------------------------------------------
(* The streams together.                                                   *)
LEMMA SumOfZeros ==
  ASSUME NEW S, IsFiniteSet(S), NEW f, \A x \in S : f[x] = 0
  PROVE  SumFunctionOnSet(f, S) = 0
  <1> DEFINE F == Adder(f, S)
             I == {n \in Nat : \A s \in SUBSET S : Cardinality(s) <= n => F[s] = 0}
  <1>0. \A s \in SUBSET S : Cardinality(s) \in Nat /\ IsFiniteSet(s)
    BY FS_Subset, FS_CardinalityType
  <1>1. \A s \in SUBSET S : F[s] = IF s = {} THEN 0 ELSE f[One(s)] + F[s \ {One(s)}]
    <2>1. Adding(f, S, F)
      BY AdderAdds
    <2> HIDE DEF F
    <2>. QED BY <2>1 DEF Adding
  <1> HIDE DEF F
  <1>e. F[{}] = 0
    BY <1>1
  <1>2. 0 \in I
    <2> SUFFICES ASSUME NEW s \in SUBSET S, Cardinality(s) <= 0 PROVE s = {}
      BY <1>e
    <2>1. Cardinality(s) = 0
      BY <1>0
    <2>. QED BY <2>1, <1>0, FS_EmptySet
  <1>3. ASSUME NEW n \in Nat, n \in I PROVE n + 1 \in I
    <2>0. n + 1 \in Nat
      OBVIOUS
    <2> SUFFICES ASSUME NEW s \in SUBSET S, Cardinality(s) <= n + 1, s # {} PROVE F[s] = 0
      BY <1>e, <2>0
    <2> DEFINE z == One(s)
    <2>1. z \in s /\ s \ {z} \in SUBSET S /\ f[z] = 0
      BY DEF One
    <2>2. Cardinality(s \ {z}) <= n
      <3>1. Cardinality(s \ {z}) = Cardinality(s) - 1
        BY <1>0, <2>1, FS_RemoveElement
      <3>2. Cardinality(s) \in Nat
        BY <1>0
      <3> HIDE DEF I, z
      <3>. QED BY <3>1, <3>2
    <2>3. F[s \ {z}] = 0
      BY <1>3, <2>1, <2>2
    <2>4. F[s] = f[z] + F[s \ {z}]
      BY <1>1
    <2> HIDE DEF z, I
    <2>. QED BY <2>1, <2>3, <2>4
  <1>4. Cardinality(S) \in I
    <2> HIDE DEF I
    <2>. QED BY <1>0, <1>2, <1>3, ByInduction
  <1>5. Cardinality(S) <= Cardinality(S)
    BY <1>0
  <1>6. F[S] = 0
    BY <1>4, <1>5
  <1>. QED BY <1>6, SumIs DEF F

\* A stream that has just been opened.
LEMMA OpenedKeeps ==
  ASSUME NEW kind \in Kinds, NEW input \in Inputs
  PROVE  StreamInv(Open(kind, input)) /\ Open(kind, input) \in Streams /\ Open(kind, input).charged = 0
  <1>e. <<>> \in Seq(Rowed) /\ <<>> \in Seq(Handed) /\ <<>> \in Seq(Batch) /\ Len(<<>>) = 0
    BY EmptySeq
  <1>0. Open(kind, input) \in Streams
    BY <1>e DEF Open, Streams
  <1>1. PICK s : s = Open(kind, input)
    OBVIOUS
  <1>2. /\ s.kind = kind /\ s.input = input /\ s.taken = 0 /\ s.pending = <<>> /\ s.charged = 0
        /\ s.ready = <<>> /\ s.out = <<>> /\ s.state = "open" /\ s.dropped = FALSE
    BY <1>1 DEF Open
  <1>3. s \in Streams
    BY <1>0, <1>1
  <1>4. Len(s.input.batches) \in Nat /\ s.input.batches \in Seq(Batch)
    BY <1>3, StreamTypes
  <1>5. TakenOf(s) = <<>>
    <2>1. SubSeq(s.input.batches, 1, 0) = <<>>
      BY SubSeqEmpty
    <2>. QED BY <1>2, <2>1 DEF TakenOf
  <1>6. StreamShape(s)
    BY <1>2, <1>3, <1>4, <1>e DEF StreamShape
  <1>7. RowsOf(<<>>) = 0 /\ WholeOf(<<>>) = 0
    <2>1. WholeOf(<<>>) = SumFunctionOnSet([k \in DOMAIN <<>> |-> <<>>[k].whole], 1..Len(<<>>))
      BY <1>e, SumsOfHeld
    <2>. QED BY <2>1, <1>e, SumOfNone, RowsOfNone
  <1>8. RowsKept(s)
    BY <1>2, <1>5, <1>7 DEF RowsKept
  <1>9. ChargeKept(s)
    BY <1>2, <1>5, <1>7 DEF ChargeKept
  <1>10. CutToSize(<<>>) /\ AllFull(<<>>) /\ AllReach(<<>>)
    BY <1>e DEF CutToSize, AllFull, AllReach
  <1>11. CutKept(s)
    BY <1>2, <1>10, <1>e DEF CutKept
  <1>12. GatherKept(s)
    BY <1>2, <1>10, <1>e DEF GatherKept
  <1>. QED BY <1>1, <1>2, <1>3, <1>6, <1>8, <1>9, <1>11, <1>12 DEF StreamInv

\* The streams at the start, as one function.
LEMMA HeldOpens ==
  ASSUME HeldInit
  PROVE  \E n \in [Holders -> Kinds], i \in [Holders -> Inputs] : held = [h \in Holders |-> Open(n[h], i[h])]
  <1> DEFINE kinds == {RuleFor(x).kind : x \in {"WindowAggExec", "HashJoinExec",
                                                "CrossJoinExec", "SortExec without fetch"}}
  <1>1. /\ RuleFor("WindowAggExec").kind \in Kinds /\ RuleFor("HashJoinExec").kind \in Kinds
        /\ RuleFor("CrossJoinExec").kind \in Kinds /\ RuleFor("SortExec without fetch").kind \in Kinds
    <2>1. RuleFor("WindowAggExec").kind \in Kinds
      BY DEF RuleFor, Kinds
    <2>2. RuleFor("HashJoinExec").kind \in Kinds
      BY DEF RuleFor, Kinds
    <2>3. RuleFor("CrossJoinExec").kind \in Kinds
      BY DEF RuleFor, Kinds
    <2>4. RuleFor("SortExec without fetch").kind \in Kinds
      BY DEF RuleFor, Kinds
    <2>. QED BY <2>1, <2>2, <2>3, <2>4
  <1>2. kinds \subseteq Kinds
    BY <1>1
  <1>3. \E n \in [Holders -> kinds], i \in [Holders -> Inputs] : held = [h \in Holders |-> Open(n[h], i[h])]
    BY DEF HeldInit
  <1> HIDE DEF kinds
  <1>4. [Holders -> kinds] \subseteq [Holders -> Kinds]
    BY <1>2
  <1>. QED BY <1>3, <1>4

\* It holds at the start.
LEMMA HeldStarts == HeldInit => HeldStrong
  <1> SUFFICES ASSUME HeldInit PROVE HeldStrong
    OBVIOUS
  <1>1. PICK n \in [Holders -> Kinds], i \in [Holders -> Inputs] :
          held = [h \in Holders |-> Open(n[h], i[h])]
    BY HeldOpens
  <1>3. \A h \in Holders : n[h] \in Kinds /\ i[h] \in Inputs /\ held[h] = Open(n[h], i[h])
    BY <1>1
  <1>4. \A kind \in Kinds, input \in Inputs :
          StreamInv(Open(kind, input)) /\ Open(kind, input) \in Streams /\ Open(kind, input).charged = 0
    BY OpenedKeeps
  <1>5. \A h \in Holders : held[h] \in Streams /\ StreamInv(held[h]) /\ held[h].charged = 0
    BY <1>3, <1>4
  <1>6. held \in [Holders -> Streams]
    BY <1>1, <1>5
  <1>7. Reserved = 0
    <2> DEFINE f == [h \in Holders |-> held[h].charged]
    <2>1. \A h \in Holders : f[h] = 0
      BY <1>5
    <2> HIDE DEF f
    <2>2. SumFunctionOnSet(f, Holders) = 0
      BY <2>1, SumOfZeros, HeldInputAssumption
    <2>. QED BY <2>2 DEF Reserved, f
  <1>8. Reserved <= Budget
    BY <1>7, HeldInputAssumption
  <1>. QED BY <1>5, <1>6, <1>8 DEF HeldStrong

(* A stream that charges no more than fits leaves the others as they are.  *)
LEMMA OneStreamMoves ==
  ASSUME HeldStrong, NEW h \in Holders, NEW t, StreamInv(t), held' = [held EXCEPT ![h] = t],
         Reserved \in Int => Reserved + (t.charged - held[h].charged) <= Budget
  PROVE  HeldStrong'
  <1>1. /\ held \in [Holders -> Streams] /\ t \in Streams
        /\ \A k \in Holders : StreamInv(held[k])
    BY DEF HeldStrong, StreamInv, StreamShape
  <1>2. /\ held' \in [Holders -> Streams] /\ held'[h] = t
        /\ \A k \in Holders : k # h => held'[k] = held[k]
    BY <1>1
  <1>3. \A k \in Holders : StreamInv(held'[k])
    BY <1>1, <1>2
  <1>4. Reserved \in Int /\ Reserved' = Reserved + (t.charged - held[h].charged)
    <2> DEFINE f == [k \in Holders |-> held[k].charged]
               g == [k \in Holders |-> held'[k].charged]
    <2>1. \A k \in Holders : held[k].charged \in Int /\ held'[k].charged \in Int
      BY <1>1, <1>2, StreamTypes
    <2>2. \A k \in Holders : f[k] = held[k].charged /\ g[k] = held'[k].charged
      OBVIOUS
    <2>3. SumFunctionOnSet(f, Holders) = Reserved /\ SumFunctionOnSet(g, Holders) = Reserved'
      BY DEF Reserved
    <2> HIDE DEF f, g
    <2>4. /\ \A k \in Holders : f[k] \in Int /\ g[k] \in Int
          /\ \A k \in Holders \ {h} : f[k] = g[k]
      BY <2>1, <2>2, <1>2
    <2>5. /\ SumFunctionOnSet(f, Holders) \in Int
          /\ SumFunctionOnSet(g, Holders) = SumFunctionOnSet(f, Holders) + (g[h] - f[h])
      BY <2>4, SumChange, HeldInputAssumption
    <2>. QED BY <2>2, <2>3, <2>5, <1>2
  <1>5. Reserved' <= Budget
    BY <1>4
  <1>6. \A k \in Holders : StreamInv(held[k])'
    BY <1>3 DEF StreamInv, StreamShape, RowsKept, ChargeKept, CutKept, GatherKept, TakenOf, More, AllFull,
                CutToSize, AllReach, Reaches
  <1>. QED BY <1>2, <1>5, <1>6 DEF HeldStrong

\* Every poll and every drop keeps it, of whatever stream.
LEMMA HeldSteps == HeldStrong /\ [HeldNext]_held => HeldStrong'
  <1> SUFFICES ASSUME HeldStrong, [HeldNext]_held PROVE HeldStrong'
    OBVIOUS
  <1>0. /\ held \in [Holders -> Streams] /\ Reserved <= Budget
        /\ \A h \in Holders : StreamInv(held[h]) /\ held[h] \in Streams
    BY DEF HeldStrong
  \* A step that leaves the charge of its stream as it is.
  <1>a. ASSUME NEW h \in Holders, NEW t, StreamInv(t), held' = [held EXCEPT ![h] = t],
               t.charged = held[h].charged
        PROVE  HeldStrong'
    <2>1. held[h].charged \in Nat
      BY <1>0, StreamTypes
    <2>2. Reserved \in Int => Reserved + (t.charged - held[h].charged) <= Budget
      BY <2>1, <1>0, <1>a, HeldInputAssumption
    <2>. QED BY <2>2, <1>a, OneStreamMoves
  <1>1. ASSUME NEW h \in Holders, WindowTakes(h) PROVE HeldStrong'
    <2> DEFINE s == held[h]
               b == NextBatch(s)
               e == [s EXCEPT !.state = "error"]
               t == [s EXCEPT !.taken = @ + 1, !.pending = Append(@, b), !.charged = @ + Charge(b)]
    <2>1. /\ StreamInv(s) /\ s \in Streams /\ ~s.dropped /\ s.state = "open" /\ s.kind = "window"
          /\ Idle(s) /\ More(s)
          /\ held' = [held EXCEPT ![h] = IF Reserved + Charge(b) > Budget THEN e ELSE t]
      BY <1>0, <1>1 DEF WindowTakes, Live
    <2>2. CASE Reserved + Charge(b) > Budget
      <3>1. StreamInv(e)
        BY <2>1, FailsKeeps
      <3>2. held' = [held EXCEPT ![h] = e] /\ e.charged = held[h].charged
        BY <2>1, <2>2 DEF Streams
      <3> HIDE DEF e
      <3>. QED BY <3>1, <3>2, <1>a
    <2>3. CASE ~(Reserved + Charge(b) > Budget)
      <3>1. StreamInv(t)
        BY <2>1, WindowTakesKeeps
      <3>2. held' = [held EXCEPT ![h] = t] /\ t.charged = held[h].charged + Charge(b)
        BY <2>1, <2>3 DEF Streams
      <3>3. held[h].charged \in Nat /\ Charge(b) \in Nat
        <4>1. b.whole \in Nat
          <5> DEFINE u == [input |-> s.input, taken |-> s.taken + 1]
          <5>1. StreamShape(s) /\ u.input = s.input /\ u.taken = s.taken + 1
            BY <2>1 DEF StreamInv
          <5> HIDE DEF u
          <5>. QED BY <2>1, <5>1, Takes
        <4> HIDE DEF b
        <4>. QED BY <4>1, <1>0, StreamTypes DEF Charge
      <3> HIDE DEF t, b
      <3>4. Reserved \in Int => Reserved + (t.charged - held[h].charged) <= Budget
        BY <3>2, <3>3, <2>3, HeldInputAssumption
      <3>. QED BY <3>1, <3>2, <3>4, OneStreamMoves
    <2>. QED BY <2>2, <2>3
  <1>2. ASSUME NEW h \in Holders, WindowComputes(h) PROVE HeldStrong'
    <2> DEFINE s == held[h]
               cut == [k \in DOMAIN Slices(RowsOf(s.pending)) |->
                         [rows |-> Slices(RowsOf(s.pending))[k], used |-> 0]]
               e == [s EXCEPT !.state = "error"]
               d == [s EXCEPT !.state = "done"]
               t == [s EXCEPT !.pending = <<>>, !.ready = cut]
    <2>1. /\ StreamInv(s) /\ s \in Streams /\ ~s.dropped /\ s.state = "open" /\ s.kind = "window"
          /\ Idle(s) /\ ~More(s)
          /\ held' = [held EXCEPT ![h] = IF s.input.fails THEN e ELSE IF s.pending = <<>> THEN d ELSE t]
      BY <1>0, <1>2 DEF WindowComputes, Live
    <2>2. e.charged = s.charged /\ d.charged = s.charged /\ t.charged = s.charged
      BY <2>1 DEF Streams
    <2>3. CASE s.input.fails
      <3>1. StreamInv(e)
        BY <2>1, FailsKeeps
      <3>2. held' = [held EXCEPT ![h] = e]
        BY <2>1, <2>3
      <3> HIDE DEF e
      <3>. QED BY <3>1, <3>2, <2>2, <1>a
    <2>4. CASE ~s.input.fails /\ s.pending = <<>>
      <3>1. StreamInv(d)
        BY <2>1, <2>4, EndsEmpty
      <3>2. held' = [held EXCEPT ![h] = d]
        BY <2>1, <2>4
      <3> HIDE DEF d
      <3>. QED BY <3>1, <3>2, <2>2, <1>a
    <2>5. CASE ~s.input.fails /\ s.pending # <<>>
      <3>1. StreamInv(t)
        BY <2>1, <2>5, WindowComputesKeeps
      <3>2. held' = [held EXCEPT ![h] = t]
        BY <2>1, <2>5
      <3> HIDE DEF t
      <3>. QED BY <3>1, <3>2, <2>2, <1>a
    <2>. QED BY <2>3, <2>4, <2>5
  <1>3. ASSUME NEW h \in Holders, CoalesceTakes(h) PROVE HeldStrong'
    <2> DEFINE s == held[h]
               n == RowsOf(s.pending) + NextBatch(s).rows
               t == [s EXCEPT !.taken = @ + 1, !.ready = Full(n), !.pending = Rest(n)]
    <2>1. /\ StreamInv(s) /\ s \in Streams /\ ~s.dropped /\ s.state = "open" /\ s.kind = "coalesce"
          /\ Idle(s) /\ More(s) /\ held' = [held EXCEPT ![h] = t]
      BY <1>0, <1>3 DEF CoalesceTakes, Live
    <2>2. StreamInv(t)
      BY <2>1, CoalesceTakesKeeps
    <2>3. t.charged = s.charged
      BY <2>1 DEF Streams
    <2> HIDE DEF t
    <2>. QED BY <2>1, <2>2, <2>3, <1>a
  <1>4. ASSUME NEW h \in Holders, CoalesceEnds(h) PROVE HeldStrong'
    <2> DEFINE s == held[h]
               e == [s EXCEPT !.state = "error"]
               d == [s EXCEPT !.state = "done"]
               t == [s EXCEPT !.pending = <<>>, !.ready = s.pending]
    <2>1. /\ StreamInv(s) /\ s \in Streams /\ ~s.dropped /\ s.state = "open" /\ s.kind = "coalesce"
          /\ Idle(s) /\ ~More(s)
          /\ held' = [held EXCEPT ![h] = IF s.input.fails THEN e ELSE IF s.pending = <<>> THEN d ELSE t]
      BY <1>0, <1>4 DEF CoalesceEnds, Live
    <2>2. e.charged = s.charged /\ d.charged = s.charged /\ t.charged = s.charged
      BY <2>1 DEF Streams
    <2>3. CASE s.input.fails
      <3>1. StreamInv(e)
        BY <2>1, FailsKeeps
      <3>2. held' = [held EXCEPT ![h] = e]
        BY <2>1, <2>3
      <3> HIDE DEF e
      <3>. QED BY <3>1, <3>2, <2>2, <1>a
    <2>4. CASE ~s.input.fails /\ s.pending = <<>>
      <3>1. StreamInv(d)
        BY <2>1, <2>4, EndsEmpty
      <3>2. held' = [held EXCEPT ![h] = d]
        BY <2>1, <2>4
      <3> HIDE DEF d
      <3>. QED BY <3>1, <3>2, <2>2, <1>a
    <2>5. CASE ~s.input.fails /\ s.pending # <<>>
      <3>1. StreamInv(t)
        BY <2>1, CoalesceEndsKeeps
      <3>2. held' = [held EXCEPT ![h] = t]
        BY <2>1, <2>5
      <3> HIDE DEF t
      <3>. QED BY <3>1, <3>2, <2>2, <1>a
    <2>. QED BY <2>3, <2>4, <2>5
  <1>5. ASSUME NEW h \in Holders, GatherTakes(h) PROVE HeldStrong'
    <2> DEFINE s == held[h]
               t == [s EXCEPT !.taken = @ + 1, !.pending = Append(@, NextBatch(s))]
               g == [t EXCEPT !.pending = <<>>, !.ready = Gathered(t)]
    <2>1. /\ StreamInv(s) /\ s \in Streams /\ ~s.dropped /\ s.state = "open" /\ s.kind \in {"gather", "compact"}
          /\ Idle(s) /\ More(s) /\ held' = [held EXCEPT ![h] = IF Bound(t) THEN g ELSE t]
      BY <1>0, <1>5 DEF GatherTakes, Live
    <2>2. StreamInv(t)
      BY <2>1, GatherTakesKeeps
    <2>3. /\ t.charged = s.charged /\ t.dropped = s.dropped /\ t.state = s.state /\ t.kind = s.kind
          /\ t.ready = s.ready
      BY <2>1 DEF Streams
    <2> HIDE DEF t
    <2>4. t \in Streams
      BY <2>2 DEF StreamInv, StreamShape
    <2>5. CASE Bound(t)
      <3>1. ~t.dropped /\ t.state = "open" /\ t.kind \in {"gather", "compact"} /\ Idle(t)
        BY <2>1, <2>3 DEF Idle
      <3>2. StreamInv(g)
        BY <2>2, <2>5, <3>1, BoundKeeps
      <3>3. g.charged = s.charged
        BY <2>3, <2>4 DEF Streams
      <3>4. held' = [held EXCEPT ![h] = g]
        BY <2>1, <2>5
      <3> HIDE DEF g
      <3>. QED BY <3>2, <3>3, <3>4, <1>a
    <2>6. CASE ~Bound(t)
      <3>1. held' = [held EXCEPT ![h] = t]
        BY <2>1, <2>6
      <3>. QED BY <3>1, <2>2, <2>3, <1>a
    <2>. QED BY <2>5, <2>6
  <1>6. ASSUME NEW h \in Holders, GatherEnds(h) PROVE HeldStrong'
    <2> DEFINE s == held[h]
               e == [s EXCEPT !.state = "error"]
               t == [s EXCEPT !.pending = <<>>, !.out = @ \o Gathered(s), !.state = "done"]
    <2>1. /\ StreamInv(s) /\ s \in Streams /\ ~s.dropped /\ s.state = "open" /\ s.kind \in {"gather", "compact"}
          /\ Idle(s) /\ ~More(s) /\ held' = [held EXCEPT ![h] = IF s.input.fails THEN e ELSE t]
      BY <1>0, <1>6 DEF GatherEnds, Live
    <2>2. e.charged = s.charged /\ t.charged = s.charged
      BY <2>1 DEF Streams
    <2>3. CASE s.input.fails
      <3>1. StreamInv(e)
        BY <2>1, FailsKeeps
      <3>2. held' = [held EXCEPT ![h] = e]
        BY <2>1, <2>3
      <3> HIDE DEF e
      <3>. QED BY <3>1, <3>2, <2>2, <1>a
    <2>4. CASE ~s.input.fails
      <3>1. StreamInv(t)
        BY <2>1, <2>4, GatherEndsKeeps
      <3>2. held' = [held EXCEPT ![h] = t]
        BY <2>1, <2>4
      <3> HIDE DEF t
      <3>. QED BY <3>1, <3>2, <2>2, <1>a
    <2>. QED BY <2>3, <2>4
  <1>7. ASSUME NEW h \in Holders, Emit(h) PROVE HeldStrong'
    <2> DEFINE s == held[h]
               t == [s EXCEPT !.ready = Tail(@), !.out = Append(@, Head(s.ready))]
    <2>1. /\ StreamInv(s) /\ s \in Streams /\ ~s.dropped /\ s.state = "open" /\ ~Idle(s)
          /\ held' = [held EXCEPT ![h] = t]
      BY <1>0, <1>7 DEF Emit, Live
    <2>2. StreamInv(t)
      BY <2>1, EmitKeeps
    <2>3. t.charged = s.charged
      BY <2>1 DEF Streams
    <2> HIDE DEF t
    <2>. QED BY <2>1, <2>2, <2>3, <1>a
  <1>8. ASSUME NEW h \in Holders, Drop(h) PROVE HeldStrong'
    <2> DEFINE s == held[h]
               t == [s EXCEPT !.dropped = TRUE, !.charged = 0, !.pending = <<>>, !.ready = <<>>]
    <2>1. StreamInv(s) /\ s \in Streams /\ held' = [held EXCEPT ![h] = t]
      BY <1>0, <1>8 DEF Drop
    <2>2. StreamInv(t)
      BY <2>1, DropKeeps
    <2>3. t.charged = 0 /\ s.charged \in Nat
      BY <2>1, StreamTypes DEF Streams
    <2> HIDE DEF t
    <2>4. Reserved \in Int => Reserved + (t.charged - held[h].charged) <= Budget
      BY <2>3, <1>0, HeldInputAssumption
    <2>. QED BY <2>1, <2>2, <2>4, OneStreamMoves
  <1>9. ASSUME UNCHANGED held PROVE HeldStrong'
    BY <1>9 DEF HeldStrong, Reserved, StreamInv, StreamShape, RowsKept, ChargeKept, CutKept, GatherKept, TakenOf,
                More, AllFull, CutToSize, AllReach, Reaches
  <1>. QED BY <1>1, <1>2, <1>3, <1>4, <1>5, <1>6, <1>7, <1>8, <1>9 DEF HeldNext, HeldPolls

\* And it is enough for the invariant of the run.
LEMMA HeldEnough == HeldStrong => HeldInv
  <1> SUFFICES ASSUME HeldStrong PROVE HeldInv
    OBVIOUS
  <1>0. \A h \in Holders : StreamInv(held[h]) /\ held[h] \in Streams
    BY DEF HeldStrong
  <1>1. ChargesFit
    BY DEF HeldStrong, ChargesFit, StreamInv, ChargeKept
  <1>2. HeldIsCharged
    BY <1>0 DEF HeldIsCharged, StreamInv, ChargeKept, TakenOf
  <1>3. NoRowLost
    BY <1>0 DEF NoRowLost, StreamInv, RowsKept, TakenOf
  <1>4. BatchesAreCut
    <2> SUFFICES ASSUME NEW h \in Holders, NEW k \in 1..Len(held[h].out)
                 PROVE  IF held[h].kind \in {"window", "coalesce"}
                        THEN /\ held[h].out[k].rows <= BatchSize
                             /\ k < Len(held[h].out) => held[h].out[k].rows = BatchSize
                        ELSE k < Len(held[h].out) => \/ held[h].out[k].rows >= GatherRows
                                                     \/ held[h].out[k].used >= GatherBytes
      BY DEF BatchesAreCut
    <2>. QED BY <1>0 DEF StreamInv, CutKept, CutToSize, GatherKept, Reaches
  <1>. QED BY <1>1, <1>2, <1>3, <1>4 DEF HeldInv

(* However many statements hold their input, whatever their inputs and the *)
(* pool: the pool holds what they charge, a window has charged twice all   *)
(* it keeps, no row is lost or handed on twice, and every batch is cut to  *)
(* its size (src/df/heldinput.rs).                                         *)
THEOREM StreamsAreCharged == HeldSpec => []HeldInv
  <1>1. HeldInit => HeldStrong
    BY HeldStarts
  <1>2. HeldStrong /\ [HeldNext]_held => HeldStrong'
    BY HeldSteps
  <1>3. HeldStrong => HeldInv
    BY HeldEnough
  <1>. QED BY <1>1, <1>2, <1>3, PTL DEF HeldSpec

-----------------------------------------------------------------------------
-----------------------------------------------------------------------------
(* RangeJoin: the filter as written, and as two bounds.                    *)
JoinCase == [left : Seq(JoinRow), right : [Partitions -> Seq(JoinRow)],
             filter : [1..2 -> Comparison], keep : BOOLEAN]

Below(x, y, strict) == IF strict THEN y < x ELSE y <= x

\* A comparison turned round holds of the same rows.
LEMMA TurnedHolds ==
  ASSUME NEW f \in Comparison, NEW x \in JoinRow, NEW y \in JoinRow
  PROVE  LET n == Normalised(f) IN
         /\ n.l \in JoinCols /\ n.r \in JoinCols /\ n.op \in {">", ">=", "<", "<="}
         /\ IF f.left THEN Holds(x[f.l], f.op, y[f.r]) = Holds(x[n.l], n.op, y[n.r])
            ELSE Holds(y[f.l], f.op, x[f.r]) = Holds(x[n.l], n.op, y[n.r])
  <1>1. CASE f.left
    BY <1>1 DEF Normalised, Comparison
  <1>2. CASE ~f.left
    <2> DEFINE n == Normalised(f)
    <2>1. n.l = f.r /\ n.r = f.l /\ n.op = Swapped(f.op)
      BY <1>2 DEF Normalised
    <2>2. f.l \in JoinCols /\ f.r \in JoinCols /\ f.op \in {">", ">=", "<", "<="}
      BY DEF Comparison
    <2>3. y[f.l] \in Int /\ x[f.r] \in Int
      BY <2>2 DEF JoinRow
    <2>4. n.op \in {">", ">=", "<", "<="}
      BY <2>1, <2>2 DEF Swapped
    <2> HIDE DEF n
    <2>5. Holds(y[f.l], f.op, x[f.r]) = Holds(x[f.r], Swapped(f.op), y[f.l])
      BY <2>2, <2>3 DEF Holds, Swapped
    <2>6. Holds(y[f.l], f.op, x[f.r]) = Holds(x[n.l], n.op, y[n.r])
      BY <2>1, <2>5
    <2>. QED BY <1>2, <2>1, <2>2, <2>4, <2>6 DEF n
  <1>. QED BY <1>1, <1>2

\* The columns of the bounds, and what a pair of rows that matches is.
LEMMA BoundsMatch ==
  ASSUME NEW c \in JoinCase, Taken(c), NEW y \in JoinRow, NEW b, b = BoundsOf(c)[1]
  PROVE  /\ b.la \in JoinCols /\ b.ra \in JoinCols /\ b.lb \in JoinCols /\ b.rb \in JoinCols
         /\ b.aStrict \in BOOLEAN /\ b.bStrict \in BOOLEAN
         /\ Matches(c, y) =
              {i \in Valid(c, b) : /\ y[b.ra] # Null /\ y[b.rb] # Null
                                   /\ Below(c.left[i][b.la], y[b.ra], b.aStrict)
                                   /\ Below(y[b.rb], c.left[i][b.lb], b.bStrict)}
  <1> DEFINE f == c.filter[1]  g == c.filter[2]
             m == Normalised(f)  n == Normalised(g)
             H(x, h) == IF h.left THEN Holds(x[h.l], h.op, y[h.r]) ELSE Holds(y[h.l], h.op, x[h.r])
  <1>1. /\ f \in Comparison /\ g \in Comparison /\ c.left \in Seq(JoinRow)
        /\ \A i \in DOMAIN c.left : c.left[i] \in JoinRow
    BY DEF JoinCase
  <1>2. /\ m.l \in JoinCols /\ m.r \in JoinCols /\ m.op \in {">", ">=", "<", "<="}
        /\ n.l \in JoinCols /\ n.r \in JoinCols /\ n.op \in {">", ">=", "<", "<="}
        /\ \A x \in JoinRow : /\ H(x, f) = Holds(x[m.l], m.op, y[m.r])
                              /\ H(x, g) = Holds(x[n.l], n.op, y[n.r])
    <2>1. /\ m.l \in JoinCols /\ m.r \in JoinCols /\ m.op \in {">", ">=", "<", "<="}
          /\ \A x \in JoinRow : H(x, f) = Holds(x[m.l], m.op, y[m.r])
      BY <1>1, TurnedHolds
    <2>2. /\ n.l \in JoinCols /\ n.r \in JoinCols /\ n.op \in {">", ">=", "<", "<="}
          /\ \A x \in JoinRow : H(x, g) = Holds(x[n.l], n.op, y[n.r])
      BY <1>1, TurnedHolds
    <2>. QED BY <2>1, <2>2
  <1>3. Matches(c, y) = {i \in DOMAIN c.left : H(c.left[i], f) /\ H(c.left[i], g)}
    <2>1. \A k \in 1..2 : k = 1 \/ k = 2
      OBVIOUS
    <2>2. 1 \in 1..2 /\ 2 \in 1..2
      OBVIOUS
    <2>. QED BY <2>1, <2>2 DEF Matches
  <1> HIDE DEF H, f, g
  <1>4. Matches(c, y) = {i \in DOMAIN c.left : /\ Holds(c.left[i][m.l], m.op, y[m.r])
                                                /\ Holds(c.left[i][n.l], n.op, y[n.r])}
    BY <1>1, <1>2, <1>3
  <1>5. CASE IsLower(m) /\ ~IsLower(n)
    <2>1. b = [la |-> m.l, ra |-> m.r, aStrict |-> m.op = ">", lb |-> n.l, rb |-> n.r, bStrict |-> n.op = "<"]
      BY <1>5 DEF BoundsOf, f, g
    <2>2. /\ m.op \in {">", ">="} /\ n.op \in {"<", "<="}
      BY <1>2, <1>5 DEF IsLower
    <2>3. b.la = m.l /\ b.ra = m.r /\ b.aStrict = (m.op = ">") /\ b.lb = n.l /\ b.rb = n.r /\ b.bStrict = (n.op = "<")
      BY <2>1
    <2> HIDE DEF m, n
    <2>4. \A i \in DOMAIN c.left :
            /\ c.left[i][m.l] \in Int /\ c.left[i][n.l] \in Int /\ y[m.r] \in Int /\ y[n.r] \in Int
      BY <1>1, <1>2 DEF JoinRow
    <2>5. \A i \in DOMAIN c.left :
            /\ Holds(c.left[i][m.l], m.op, y[m.r]) <=>
                 c.left[i][m.l] # Null /\ y[m.r] # Null /\ Below(c.left[i][m.l], y[m.r], m.op = ">")
            /\ Holds(c.left[i][n.l], n.op, y[n.r]) <=>
                 c.left[i][n.l] # Null /\ y[n.r] # Null /\ Below(y[n.r], c.left[i][n.l], n.op = "<")
      BY <2>2, <2>4 DEF Holds, Below
    <2>. QED BY <1>2, <1>4, <2>3, <2>5 DEF Valid
  <1>6. CASE ~IsLower(m) /\ IsLower(n)
    <2>1. b = [la |-> n.l, ra |-> n.r, aStrict |-> n.op = ">", lb |-> m.l, rb |-> m.r, bStrict |-> m.op = "<"]
      BY <1>6 DEF BoundsOf, f, g
    <2>2. /\ n.op \in {">", ">="} /\ m.op \in {"<", "<="}
      BY <1>2, <1>6 DEF IsLower
    <2>3. b.la = n.l /\ b.ra = n.r /\ b.aStrict = (n.op = ">") /\ b.lb = m.l /\ b.rb = m.r /\ b.bStrict = (m.op = "<")
      BY <2>1
    <2> HIDE DEF m, n
    <2>4. \A i \in DOMAIN c.left :
            /\ c.left[i][m.l] \in Int /\ c.left[i][n.l] \in Int /\ y[m.r] \in Int /\ y[n.r] \in Int
      BY <1>1, <1>2 DEF JoinRow
    <2>5. \A i \in DOMAIN c.left :
            /\ Holds(c.left[i][n.l], n.op, y[n.r]) <=>
                 c.left[i][n.l] # Null /\ y[n.r] # Null /\ Below(c.left[i][n.l], y[n.r], n.op = ">")
            /\ Holds(c.left[i][m.l], m.op, y[m.r]) <=>
                 c.left[i][m.l] # Null /\ y[m.r] # Null /\ Below(y[m.r], c.left[i][m.l], m.op = "<")
      BY <2>2, <2>4 DEF Holds, Below
    <2>. QED BY <1>2, <1>4, <2>3, <2>5 DEF Valid
  <1>7. ~(IsLower(m) <=> IsLower(n))
    BY DEF Taken, BoundsOf, IsLower, f, g
  <1>. QED BY <1>5, <1>6, <1>7

(* What the build side is: its rows with both bounds, each once, in the    *)
(* order of the lower one, and where the least upper one is from each on.  *)
BuiltShape(c, B) ==
  LET b == BoundsOf(c)[1]  n == Cardinality(Valid(c, b)) IN
  /\ n \in Nat /\ DOMAIN B.order = 1..n /\ Len(B.order) = n
  /\ \A k \in 1..n : /\ B.order[k] \in Valid(c, b) /\ B.order[k] \in Nat \ {0}
                     /\ B.a[k] = c.left[B.order[k]][b.la] /\ B.a[k] \in Int
                     /\ B.b[k] = c.left[B.order[k]][b.lb] /\ B.b[k] \in Int
                     /\ B.suffixMin[k] \in k..n
                     /\ \A j \in k..n : B.a[k] <= B.a[j] /\ B.b[B.suffixMin[k]] <= B.b[j]
  /\ \A j, k \in 1..n : B.order[j] = B.order[k] => j = k
  /\ \A v \in Valid(c, b) : \E k \in 1..n : B.order[k] = v

\* The least of a stretch of a sequence, and the first place where it is.
LEMMA LeastFrom ==
  ASSUME NEW n \in Nat, NEW B \in [1..n -> Int], NEW i \in 1..n
  PROVE  \E m \in i..n : \A k \in i..n : B[m] < B[k] \/ (B[m] = B[k] /\ m <= k)
  <1> DEFINE V == {B[k] : k \in i..n}
             f == [k \in i..n |-> B[k]]
             W == {k \in i..n : B[k] = Min(V)}
  <1>1. IsFiniteSet(i..n) /\ i..n \subseteq Int /\ \A k \in i..n : k \in 1..n /\ B[k] \in Int
    BY FS_Interval
  <1>2. IsFiniteSet(V)
    <2>1. f \in Surjection(i..n, V)
      BY DEF Surjection
    <2> HIDE DEF f, V
    <2>. QED BY <1>1, <2>1, FS_Surjection
  <1>3. V \subseteq Int /\ V # {}
    BY <1>1
  <1>4. Min(V) \in V /\ \A y \in V : Min(V) <= y
    <2> HIDE DEF V
    <2>. QED BY <1>2, <1>3, Extremum
  <1>5. W \subseteq Int /\ W # {} /\ IsFiniteSet(W)
    <2>1. W \subseteq i..n
      OBVIOUS
    <2>2. W # {}
      BY <1>4
    <2> HIDE DEF W, V
    <2>. QED BY <2>1, <2>2, <1>1, FS_Subset
  <1>6. Min(W) \in W /\ \A y \in W : Min(W) <= y
    <2> HIDE DEF W
    <2>. QED BY <1>5, Extremum
  <1> DEFINE m == Min(W)  least == Min(V)
  <1>7. m \in i..n /\ B[m] = least /\ \A k \in i..n : B[k] = least => m <= k
    BY <1>6
  <1>8. \A k \in i..n : least <= B[k] /\ B[k] \in Int /\ least \in Int
    BY <1>1, <1>3, <1>4
  <1> HIDE DEF m, least
  <1>9. \A k \in i..n : B[m] < B[k] \/ (B[m] = B[k] /\ m <= k)
    BY <1>7, <1>8
  <1>. QED BY <1>7, <1>9

\* What is built of the left side has that shape, whatever order the sort left.
LEMMA BuildsShape ==
  ASSUME NEW c \in JoinCase, Taken(c), NEW o \in Orders(c, BoundsOf(c)[1])
  PROVE  BuiltShape(c, BuiltOf(c, BoundsOf(c)[1], o))
  <1> DEFINE b == BoundsOf(c)[1]
             V == Valid(c, b)
             n == Cardinality(V)
             B == BuiltOf(c, b, o)
  <1>1. /\ c.left \in Seq(JoinRow) /\ Len(c.left) \in Nat /\ DOMAIN c.left = 1..Len(c.left)
        /\ \A i \in DOMAIN c.left : c.left[i] \in JoinRow
    BY LenProperties DEF JoinCase
  <1>2. b.la \in JoinCols /\ b.lb \in JoinCols
    <2>1. PICK y \in Int : TRUE
      OBVIOUS
    <2>2. [x \in JoinCols |-> y] \in JoinRow
      BY <2>1 DEF JoinRow
    <2>. QED BY <2>2, BoundsMatch
  <1> HIDE DEF b
  <1>3. V \subseteq 1..Len(c.left) /\ IsFiniteSet(V) /\ n \in Nat
    <2>1. V \subseteq 1..Len(c.left)
      BY <1>1 DEF Valid
    <2>2. IsFiniteSet(1..Len(c.left))
      BY <1>1, FS_Interval
    <2> HIDE DEF V
    <2>. QED BY <2>1, <2>2, FS_Subset, FS_CardinalityType
  <1> HIDE DEF V, n
  <1>4. /\ o \in [1..n -> V] /\ (\A j, k \in 1..n : o[j] = o[k] => j = k)
        /\ (\A v \in V : \E k \in 1..n : o[k] = v)
        /\ (\A j, k \in 1..n : j < k => c.left[o[j]][b.la] <= c.left[o[k]][b.la])
    BY DEF Orders, Bijection, Injection, Surjection, IsInjective, b, V, n
  <1>5. Len(o) = n /\ DOMAIN o = 1..n
    <2>1. o \in Seq(V)
      BY <1>3, <1>4, SeqDef
    <2>. QED BY <2>1, <1>3, <1>4, LenProperties
  <1> DEFINE up == [k \in 1..n |-> c.left[o[k]][b.lb]]
             a == [k \in 1..n |-> c.left[o[k]][b.la]]
  <1>6. \A k \in 1..n : /\ o[k] \in V /\ o[k] \in Nat \ {0} /\ o[k] \in DOMAIN c.left
                        /\ up[k] \in Int /\ a[k] \in Int
    <2> TAKE k \in 1..n
    <2>1. o[k] \in V
      BY <1>4
    <2>2. o[k] \in 1..Len(c.left)
      BY <2>1, <1>3
    <2>3. o[k] \in Nat \ {0} /\ o[k] \in DOMAIN c.left
      BY <2>2, <1>1
    <2>4. c.left[o[k]] \in JoinRow
      BY <2>3, <1>1
    <2>5. c.left[o[k]][b.la] \in Int /\ c.left[o[k]][b.lb] \in Int
      BY <2>4, <1>2 DEF JoinRow
    <2>. QED BY <2>1, <2>3, <2>5
  <1>7. B.order = o /\ B.a = a /\ B.b = up /\ B.suffixMin = SuffixMin(up)
    BY <1>5 DEF BuiltOf
  <1>8. up \in [1..n -> Int] /\ a \in [1..n -> Int]
    BY <1>6
  <1>9. Len(up) = n /\ DOMAIN up = 1..n
    <2>1. up \in Seq(Int)
      BY <1>3, <1>8, SeqDef
    <2>. QED BY <2>1, <1>3, <1>8, LenProperties
  <1> HIDE DEF B, up
  <1>10. \A k \in 1..n : /\ SuffixMin(up)[k] \in k..n
                         /\ \A j \in k..n : up[SuffixMin(up)[k]] <= up[j]
    <2> SUFFICES ASSUME NEW k \in 1..n
                 PROVE  /\ SuffixMin(up)[k] \in k..n
                        /\ \A j \in k..n : up[SuffixMin(up)[k]] <= up[j]
      OBVIOUS
    <2> DEFINE m == SuffixMin(up)[k]
    <2>1. m = CHOOSE m2 \in k..n : \A j \in k..n : up[m2] < up[j] \/ (up[m2] = up[j] /\ m2 <= j)
      BY <1>9 DEF SuffixMin
    <2>2. \E m2 \in k..n : \A j \in k..n : up[m2] < up[j] \/ (up[m2] = up[j] /\ m2 <= j)
      BY <1>3, <1>8, LeastFrom
    <2>3. m \in k..n /\ \A j \in k..n : up[m] < up[j] \/ (up[m] = up[j] /\ m <= j)
      BY <2>1, <2>2
    <2> HIDE DEF m
    <2>4. \A j \in k..n : up[j] \in Int
      BY <1>3, <1>8
    <2>. QED BY <2>3, <2>4 DEF m
  <1>11. \A k \in 1..n : \A j \in k..n : a[k] <= a[j]
    <2> TAKE k \in 1..n
    <2> TAKE j \in k..n
    <2>1. j \in 1..n /\ (j = k \/ k < j) /\ a[k] \in Int /\ a[j] \in Int
      BY <1>3, <1>8
    <2>. QED BY <2>1, <1>4
  <1> HIDE DEF a
  <1>12. \A k \in 1..n : B.a[k] = c.left[B.order[k]][b.la] /\ B.b[k] = c.left[B.order[k]][b.lb]
    BY <1>7 DEF a, up
  <1>. QED BY <1>3, <1>4, <1>5, <1>6, <1>7, <1>10, <1>11, <1>12 DEF BuiltShape, b, V, n, B

(* What a partition has handed on of a right row, and what is true of it   *)
(* between any two steps of its probes.                                    *)
GivenTo(out, r) == {out[k][1] : k \in {j \in DOMAIN out : out[j][2] = r}}
GivenRows == Seq(Nat \X Nat)
LowerHolds(c, B, k, y) == LET b == BoundsOf(c)[1] IN Below(B.a[k], y[b.ra], b.aStrict)
UpperHolds(c, B, k, y) == LET b == BoundsOf(c)[1] IN Below(y[b.rb], B.b[k], b.bStrict)
Whole(c, y) == LET b == BoundsOf(c)[1] IN y[b.ra] # Null /\ y[b.rb] # Null
RowOf(c, p, t) == c.right[p][t.cur.r]
Met(c, built, p, t) ==
  {built[1].order[k] :
     k \in {j \in 1..(t.cur.i - 1) : /\ LowerHolds(c, built[1], j, RowOf(c, p, t))
                                     /\ UpperHolds(c, built[1], j, RowOf(c, p, t))}}
Wanted(c, p, r) ==
  LET want == Matches(c, c.right[p][r]) IN IF want = {} /\ c.keep THEN {Nobody} ELSE want

Parts ==
  [cur : [r : Nat \ {0}, i : Nat, matched : BOOLEAN], lo : Nat, hi : Nat, steps : Nat,
   out : GivenRows, chunk : GivenRows, state : {"open", "rows", "search", "scan", "done", "error"}]

\* Where the cursor is: a row it stopped in, or is probing, has both bounds.
CursorInv(c, built, p, t) ==
  /\ t.cur.r <= Len(c.right[p]) + 1
  /\ t.state = "done" => t.cur.r > Len(c.right[p])
  /\ t.state \in {"search", "scan"} \/ t.cur.i # 0 =>
       t.cur.r <= Len(c.right[p]) /\ built # <<>> /\ Whole(c, RowOf(c, p, t))
  /\ t.state = "search" => t.cur.i = 0
  /\ t.state = "scan" => t.cur.i # 0

\* The search has its end between lo and hi; every candidate from i on has its
\* lower bound hold.
SearchInv(c, built, p, t) ==
  LET B == built[1]  n == Len(B.order) IN
  /\ t.state = "search" =>
       /\ 1 <= t.lo /\ t.lo <= t.hi /\ t.hi <= n + 1
       /\ \A k \in 1..(t.lo - 1) : ~LowerHolds(c, B, k, RowOf(c, p, t))
       /\ \A k \in t.hi..n : LowerHolds(c, B, k, RowOf(c, p, t))
  /\ t.cur.i # 0 =>
       /\ t.cur.i <= n + 1
       /\ \A k \in t.cur.i..n : LowerHolds(c, B, k, RowOf(c, p, t))

\* None of it twice, none of a row after r, and in the order of the right side.
InOrder(out, r) ==
  /\ \A k \in DOMAIN out : out[k][2] <= r
  /\ \A k, l \in DOMAIN out : out[k] = out[l] => k = l
  /\ \A k \in 1..(Len(out) - 1) : out[k][2] <= out[k + 1][2]

\* The matches of a chunk are among its first rows.
MatchesFirst(chunk) == \A k \in DOMAIN chunk : chunk[k][1] # Nobody => k <= MaxOut

\* The rows before have all their matches, and the row at the cursor those among
\* the candidates before i.
GivenInv(c, built, p, t) ==
  /\ \A r \in 1..(t.cur.r - 1) : GivenTo(t.out, r) = Wanted(c, p, r)
  /\ GivenTo(t.out, t.cur.r) = Met(c, built, p, t)
  /\ t.cur.matched <=> GivenTo(t.out, t.cur.r) # {}
  /\ InOrder(t.out, t.cur.r)

ChunkInv(t) == t.steps <= Steps /\ MatchesFirst(t.chunk)

PartInv(c, built, p, t) ==
  t \in Parts /\ CursorInv(c, built, p, t) /\ SearchInv(c, built, p, t) /\ GivenInv(c, built, p, t) /\ ChunkInv(t)

\* A partition that has not been probed.
Fresh(t) ==
  /\ t \in Parts /\ t.cur = Start(1) /\ t.out = <<>> /\ t.chunk = <<>> /\ t.steps = 0
  /\ t.state \in {"open", "error"}

BuiltInv(c, built, part) ==
  \/ built = <<>> /\ \A p \in Partitions : Fresh(part[p])
  \/ built # <<>> /\ BuiltShape(c, built[1])

JoinStrong ==
  /\ join = [case |-> join.case, built |-> join.built, token |-> join.token, part |-> join.part]
  /\ join.case \in JoinCase /\ Taken(join.case) /\ join.part \in [Partitions -> Parts]
  /\ BuiltInv(join.case, join.built, join.part)
  /\ \A p \in Partitions : PartInv(join.case, join.built, p, join.part[p])

-----------------------------------------------------------------------------
\* One row more handed on.
LEMMA OnePlaceMore ==
  ASSUME NEW out \in GivenRows, NEW e \in Nat \X Nat, NEW o, o = Append(out, e)
  PROVE  /\ Len(out) \in Nat /\ Len(o) = Len(out) + 1
         /\ DOMAIN out = 1..Len(out) /\ DOMAIN o = 1..Len(o)
         /\ o[Len(o)] = e /\ \A k \in 1..Len(out) : o[k] = out[k]
  BY AppendProperties, LenProperties DEF GivenRows

\* What was handed on stays a sequence of pairs.
LEMMA StillRows ==
  ASSUME NEW out \in GivenRows, NEW e \in Nat \X Nat
  PROVE  Append(out, e) \in GivenRows
  BY DEF GivenRows

\* What a row has been given grows by what is appended for it.
LEMMA GivenMore ==
  ASSUME NEW out \in GivenRows, NEW e \in Nat \X Nat, NEW o, o = Append(out, e)
  PROVE  GivenTo(o, e[2]) = GivenTo(out, e[2]) \cup {e[1]}
  <1>1. /\ Len(o) = Len(out) + 1 /\ Len(out) \in Nat /\ DOMAIN o = 1..Len(o)
        /\ DOMAIN out = 1..Len(out) /\ o[Len(o)] = e /\ \A k \in 1..Len(out) : o[k] = out[k]
    BY OnePlaceMore
  <1>2. DOMAIN o = DOMAIN out \cup {Len(o)}
    BY <1>1
  <1>. QED BY <1>1, <1>2 DEF GivenTo

\* And no other row's does.
LEMMA GivenElsewhere ==
  ASSUME NEW out \in GivenRows, NEW e \in Nat \X Nat, NEW o, o = Append(out, e), NEW s \in Nat, s # e[2]
  PROVE  GivenTo(o, s) = GivenTo(out, s)
  <1>1. /\ Len(o) = Len(out) + 1 /\ Len(out) \in Nat /\ DOMAIN o = 1..Len(o)
        /\ DOMAIN out = 1..Len(out) /\ o[Len(o)] = e /\ \A k \in 1..Len(out) : o[k] = out[k]
    BY OnePlaceMore
  <1>2. DOMAIN o = DOMAIN out \cup {Len(o)}
    BY <1>1
  <1>. QED BY <1>1, <1>2 DEF GivenTo

\* None of it twice, and in the order of the right side.
LEMMA OnceMore ==
  ASSUME NEW out \in GivenRows, NEW e \in Nat \X Nat, NEW o, o = Append(out, e),
         e[1] \notin GivenTo(out, e[2]), InOrder(out, e[2])
  PROVE  InOrder(o, e[2])
  <1>0. /\ Len(o) = Len(out) + 1 /\ Len(out) \in Nat /\ DOMAIN o = 1..Len(o)
        /\ DOMAIN out = 1..Len(out) /\ o[Len(o)] = e /\ \A k \in 1..Len(out) : o[k] = out[k]
    BY OnePlaceMore
  <1>1. /\ Len(o) = Len(out) + 1 /\ Len(out) \in Nat /\ DOMAIN o = DOMAIN out \cup {Len(o)}
        /\ DOMAIN out = 1..Len(out)
        /\ o[Len(o)] = e /\ \A k \in DOMAIN out : o[k] = out[k]
    BY <1>0
  <1>2. e[2] <= e[2]
    OBVIOUS
  <1>3. \A k \in DOMAIN out : out[k] # e
    BY DEF GivenTo
  <1>4. /\ \A k \in DOMAIN out : out[k][2] <= e[2]
        /\ \A k, l \in DOMAIN out : out[k] = out[l] => k = l
        /\ \A k \in 1..(Len(out) - 1) : out[k][2] <= out[k + 1][2]
    BY DEF InOrder
  <1>5. \A k \in DOMAIN o : o[k][2] <= e[2]
    BY <1>1, <1>2, <1>4
  <1>6. \A k, l \in DOMAIN o : o[k] = o[l] => k = l
    BY <1>1, <1>3, <1>4
  <1>7. \A k \in 1..(Len(o) - 1) : o[k][2] <= o[k + 1][2]
    <2> TAKE k \in 1..(Len(o) - 1)
    <2>1. k \in 1..Len(out) /\ (k = Len(out) \/ (k \in 1..(Len(out) - 1) /\ k + 1 \in 1..Len(out)))
      <3> DEFINE n == Len(out)  m == Len(o)
      <3>1. n \in Nat /\ m = n + 1
        BY <1>0
      <3> HIDE DEF n, m
      <3>2. k \in 1..n /\ (k = n \/ (k \in 1..(n - 1) /\ k + 1 \in 1..n))
        BY <3>1 DEF m
      <3>. QED BY <3>2 DEF n
    <2>2. CASE k = Len(out)
      BY <2>1, <2>2, <1>1, <1>2, <1>4
    <2>3. CASE k \in 1..(Len(out) - 1) /\ k + 1 \in 1..Len(out)
      BY <2>1, <2>3, <1>1, <1>4
    <2>. QED BY <2>1, <2>2, <2>3
  <1>. QED BY <1>5, <1>6, <1>7 DEF InOrder

\* The matches of a row with both bounds are the candidates where both hold,
\* and a row without one has none.
LEMMA CandidatesMatch ==
  ASSUME NEW c \in JoinCase, Taken(c), NEW B, BuiltShape(c, B), NEW y \in JoinRow
  PROVE  /\ ~Whole(c, y) => Matches(c, y) = {}
         /\ Whole(c, y) =>
              Matches(c, y) = {B.order[k] : k \in {j \in 1..Len(B.order) :
                                 LowerHolds(c, B, j, y) /\ UpperHolds(c, B, j, y)}}
         /\ Nobody \notin Matches(c, y)
  <1> DEFINE b == BoundsOf(c)[1]
             Both(i) == /\ Below(c.left[i][b.la], y[b.ra], b.aStrict)
                        /\ Below(y[b.rb], c.left[i][b.lb], b.bStrict)
             n == Len(B.order)
  <1>1. Matches(c, y) = {i \in Valid(c, b) : y[b.ra] # Null /\ y[b.rb] # Null /\ Both(i)}
    BY BoundsMatch
  <1>2. /\ \A k \in 1..n : /\ B.order[k] \in Valid(c, b) /\ B.order[k] \in Nat \ {0}
                           /\ B.a[k] = c.left[B.order[k]][b.la]
                           /\ B.b[k] = c.left[B.order[k]][b.lb]
        /\ \A v \in Valid(c, b) : \E k \in 1..n : B.order[k] = v
    BY DEF BuiltShape
  <1>3. \A k \in 1..n : LowerHolds(c, B, k, y) /\ UpperHolds(c, B, k, y) <=> Both(B.order[k])
    BY <1>2 DEF LowerHolds, UpperHolds
  <1>4. ~Whole(c, y) => Matches(c, y) = {}
    BY <1>1 DEF Whole
  <1> HIDE DEF Both
  <1>5. Nobody \notin Matches(c, y)
    <2>1. Nobody \notin Valid(c, b)
      BY <1>2 DEF Nobody
    <2>. QED BY <1>1, <2>1
  <1>6. ASSUME Whole(c, y)
        PROVE  Matches(c, y) = {B.order[k] : k \in {j \in 1..n : LowerHolds(c, B, j, y) /\ UpperHolds(c, B, j, y)}}
    <2>1. Matches(c, y) = {i \in Valid(c, b) : Both(i)}
      BY <1>1, <1>6 DEF Whole
    <2> HIDE DEF b, n
    <2>. QED BY <2>1, <1>2, <1>3
  <1>. QED BY <1>4, <1>5, <1>6

\* Lower bounds hold from a candidate on; and where the least upper bound of
\* the rest does not hold, none of the rest does.
LEMMA BoundsInOrder ==
  ASSUME NEW c \in JoinCase, Taken(c), NEW B, BuiltShape(c, B), NEW y \in JoinRow, NEW k \in 1..Len(B.order)
  PROVE  /\ \A j \in 1..k : LowerHolds(c, B, j, y) => LowerHolds(c, B, k, y)
         /\ ~UpperHolds(c, B, B.suffixMin[k], y) => \A j \in k..Len(B.order) : ~UpperHolds(c, B, j, y)
  <1> DEFINE b == BoundsOf(c)[1]  n == Len(B.order)
  <1>1. /\ n \in Nat
        /\ \A i \in 1..n : /\ B.a[i] \in Int /\ B.b[i] \in Int /\ B.suffixMin[i] \in i..n
                           /\ \A j \in i..n : B.a[i] <= B.a[j] /\ B.b[B.suffixMin[i]] <= B.b[j]
    BY DEF BuiltShape
  <1>2. b.ra \in JoinCols /\ b.rb \in JoinCols /\ b.aStrict \in BOOLEAN /\ b.bStrict \in BOOLEAN
    BY BoundsMatch
  <1>3. y[b.ra] \in Int /\ y[b.rb] \in Int
    BY <1>2 DEF JoinRow
  <1> HIDE DEF n
  <1>4. k \in 1..n /\ k \in Int
    BY <1>1 DEF n
  <1>5. \A j \in k..n : j \in 1..n
    BY <1>1, <1>4
  <1>6. \A j \in 1..k : LowerHolds(c, B, j, y) => LowerHolds(c, B, k, y)
    <2> TAKE j \in 1..k
    <2>1. j \in 1..n /\ k \in j..n
      BY <1>1, <1>4
    <2>2. B.a[j] <= B.a[k] /\ B.a[j] \in Int /\ B.a[k] \in Int
      BY <2>1, <1>1, <1>4
    <2> HIDE DEF b
    <2>3. Below(B.a[j], y[b.ra], b.aStrict) => Below(B.a[k], y[b.ra], b.aStrict)
      BY <2>2, <1>3 DEF Below
    <2>. QED BY <2>3 DEF LowerHolds, b
  <1>7. ASSUME ~UpperHolds(c, B, B.suffixMin[k], y), NEW j \in k..n PROVE ~UpperHolds(c, B, j, y)
    <2>1. /\ B.suffixMin[k] \in 1..n /\ B.b[B.suffixMin[k]] <= B.b[j] /\ j \in 1..n
      BY <1>1, <1>4, <1>5
    <2>2. B.b[B.suffixMin[k]] \in Int /\ B.b[j] \in Int
      BY <2>1, <1>1
    <2>3. ~Below(y[b.rb], B.b[B.suffixMin[k]], b.bStrict)
      BY <1>7 DEF UpperHolds
    <2> HIDE DEF b
    <2>4. ~Below(y[b.rb], B.b[j], b.bStrict)
      BY <2>1, <2>2, <2>3, <1>3 DEF Below
    <2>. QED BY <2>4 DEF UpperHolds, b
  <1>. QED BY <1>6, <1>7 DEF n

\* A partition that has not been probed is as it should be, built or not.
LEMMA FreshKeeps ==
  ASSUME NEW c \in JoinCase, NEW built, NEW p \in Partitions, NEW t, Fresh(t)
  PROVE  PartInv(c, built, p, t)
  <1>1. /\ t \in Parts /\ t.cur.r = 1 /\ t.cur.i = 0 /\ t.cur.matched = FALSE
        /\ t.out = <<>> /\ t.chunk = <<>> /\ t.steps = 0 /\ t.state \in {"open", "error"}
    BY DEF Fresh, Start
  <1>2. Len(c.right[p]) \in Nat
    BY LenProperties DEF JoinCase
  <1>3. CursorInv(c, built, p, t)
    BY <1>1, <1>2 DEF CursorInv
  <1>4. SearchInv(c, built, p, t)
    BY <1>1 DEF SearchInv
  <1>5. GivenInv(c, built, p, t)
    <2>1. DOMAIN t.out = {} /\ Len(t.out) = 0
      BY <1>1
    <2>2. \A r : GivenTo(t.out, r) = {}
      BY <2>1 DEF GivenTo
    <2>3. Met(c, built, p, t) = {}
      BY <1>1 DEF Met
    <2>. QED BY <1>1, <2>1, <2>2, <2>3 DEF GivenInv, InOrder
  <1>6. ChunkInv(t)
    <2>1. DOMAIN t.chunk = {}
      BY <1>1
    <2>. QED BY <1>1, <2>1, RangeJoinAssumption DEF ChunkInv, MatchesFirst
  <1>. QED BY <1>1, <1>3, <1>4, <1>5, <1>6 DEF PartInv

\* The fields of a partition, and its rows.
LEMMA PartFields ==
  ASSUME NEW c \in JoinCase, NEW p \in Partitions, NEW t \in Parts
  PROVE  /\ t.cur \in [r : Nat \ {0}, i : Nat, matched : BOOLEAN]
         /\ t.cur.r \in Nat \ {0} /\ t.cur.i \in Nat /\ t.cur.matched \in BOOLEAN
         /\ t.lo \in Nat /\ t.hi \in Nat /\ t.steps \in Nat
         /\ t.out \in GivenRows /\ t.chunk \in GivenRows
         /\ t.state \in {"open", "rows", "search", "scan", "done", "error"}
         /\ t = [cur |-> t.cur, lo |-> t.lo, hi |-> t.hi, steps |-> t.steps, out |-> t.out,
                 chunk |-> t.chunk, state |-> t.state]
         /\ t.cur = [r |-> t.cur.r, i |-> t.cur.i, matched |-> t.cur.matched]
         /\ Len(c.right[p]) \in Nat /\ DOMAIN c.right[p] = 1..Len(c.right[p])
         /\ t.cur.r <= Len(c.right[p]) => RowOf(c, p, t) \in JoinRow
  <1>1. /\ Len(c.right[p]) \in Nat /\ DOMAIN c.right[p] = 1..Len(c.right[p])
        /\ \A k \in DOMAIN c.right[p] : c.right[p][k] \in JoinRow
    BY LenProperties DEF JoinCase
  <1>2. t.cur \in [r : Nat \ {0}, i : Nat, matched : BOOLEAN]
    BY DEF Parts
  <1>3. t.cur.r \in Nat \ {0} /\ t.cur = [r |-> t.cur.r, i |-> t.cur.i, matched |-> t.cur.matched]
    BY <1>2
  <1>4. t.cur.r <= Len(c.right[p]) => RowOf(c, p, t) \in JoinRow
    <2>1. t.cur.r <= Len(c.right[p]) => t.cur.r \in 1..Len(c.right[p])
      BY <1>1, <1>3
    <2>. QED BY <2>1, <1>1 DEF RowOf
  <1>. QED BY <1>1, <1>2, <1>3, <1>4 DEF Parts

\* What a row without a match adds to a chunk is no match.
LEMMA ChunkMore ==
  ASSUME NEW ch \in GivenRows, NEW e \in Nat \X Nat, e[1] = Nobody, NEW o, o = Append(ch, e),
         MatchesFirst(ch)
  PROVE  o \in GivenRows /\ MatchesFirst(o)
  <1>0. o \in GivenRows
    BY StillRows
  <1>1. /\ Len(o) = Len(ch) + 1 /\ Len(ch) \in Nat /\ DOMAIN o = 1..Len(o)
        /\ DOMAIN ch = 1..Len(ch) /\ o[Len(o)] = e /\ \A k \in 1..Len(ch) : o[k] = ch[k]
    BY OnePlaceMore
  <1>2. \A k \in DOMAIN o : k = Len(o) \/ k \in DOMAIN ch
    BY <1>1
  <1>. QED BY <1>0, <1>1, <1>2 DEF MatchesFirst

\* The cursor on the row after, with what is handed on of this one.
LEMMA RowAfterKeeps ==
  ASSUME NEW c \in JoinCase, NEW built, NEW p \in Partitions, NEW t, PartInv(c, built, p, t),
         t.cur.r <= Len(c.right[p]),
         NEW o \in GivenRows, NEW ch \in GivenRows, GivenTo(o, t.cur.r) = Wanted(c, p, t.cur.r),
         \A q \in Nat : q # t.cur.r => GivenTo(o, q) = GivenTo(t.out, q),
         InOrder(o, t.cur.r), MatchesFirst(ch), NEW cur, cur = Start(t.cur.r + 1),
         NEW v, v = [cur |-> cur, lo |-> t.lo, hi |-> t.hi, steps |-> t.steps,
                     out |-> o, chunk |-> ch, state |-> "rows"]
  PROVE  PartInv(c, built, p, v)
  <1>1. t \in Parts /\ GivenInv(c, built, p, t) /\ ChunkInv(t)
    BY DEF PartInv
  <1>2. PICK r : r = t.cur.r
    OBVIOUS
  <1>3. /\ r \in Nat \ {0} /\ t.lo \in Nat /\ t.hi \in Nat /\ t.steps \in Nat
        /\ Len(c.right[p]) \in Nat
    BY <1>1, <1>2, PartFields
  <1>4. \A s \in 1..(r - 1) : GivenTo(t.out, s) = Wanted(c, p, s)
    BY <1>1, <1>2 DEF GivenInv
  <1>5. PICK s : s = r + 1
    OBVIOUS
  <1>6. s \in Nat \ {0} /\ s - 1 = r
    BY <1>3, <1>5
  <1>7. cur.r = s /\ cur.i = 0 /\ cur.matched = FALSE
    BY <1>2, <1>5 DEF Start
  <1>8. v.cur = cur /\ v.steps = t.steps /\ v.out = o /\ v.chunk = ch /\ v.state = "rows"
    OBVIOUS
  <1>9. v \in Parts
    <2>1. cur \in [r : Nat \ {0}, i : Nat, matched : BOOLEAN]
      BY <1>2, <1>5, <1>6 DEF Start
    <2>. QED BY <2>1, <1>3 DEF Parts
  <1>10. CursorInv(c, built, p, v)
    <2>1. s <= Len(c.right[p]) + 1
      BY <1>2, <1>3, <1>5
    <2>. QED BY <2>1, <1>7, <1>8 DEF CursorInv
  <1>11. SearchInv(c, built, p, v)
    BY <1>7, <1>8 DEF SearchInv
  <1>12. GivenInv(c, built, p, v)
    <2>1. \A q \in 1..(s - 1) : GivenTo(o, q) = Wanted(c, p, q)
      <3> TAKE q \in 1..(s - 1)
      <3>1. q \in Nat /\ (q = r \/ (q \in 1..(r - 1) /\ q # r))
        BY <1>3, <1>6
      <3>. QED BY <3>1, <1>2, <1>4
    <2>2. \A k \in DOMAIN o : o[k][2] # s /\ o[k][2] <= s
      <3>1. \A k \in DOMAIN o : o[k][2] \in Nat
        BY DEF GivenRows
      <3>. QED BY <3>1, <1>2, <1>3, <1>5 DEF InOrder
    <2>3. GivenTo(o, s) = {}
      BY <2>2 DEF GivenTo
    <2>4. Met(c, built, p, v) = {}
      BY <1>7, <1>8 DEF Met
    <2>5. InOrder(o, s)
      BY <2>2 DEF InOrder
    <2>. QED BY <2>1, <2>3, <2>4, <2>5, <1>7, <1>8 DEF GivenInv
  <1>13. ChunkInv(v)
    BY <1>1, <1>8 DEF ChunkInv
  <1>. QED BY <1>9, <1>10, <1>11, <1>12, <1>13 DEF PartInv

\* A row whose matches have all been handed on is over.
RowAfter(c, t) ==
  LET kept == c.keep /\ ~t.cur.matched  e == <<Nobody, t.cur.r>> IN
  [cur |-> Start(t.cur.r + 1), lo |-> t.lo, hi |-> t.hi, steps |-> t.steps,
   out |-> IF kept THEN Append(t.out, e) ELSE t.out,
   chunk |-> IF kept THEN Append(t.chunk, e) ELSE t.chunk, state |-> "rows"]

\* With one more row where there was no match, what was given is what is wanted.
LEMMA NextKeeps ==
  ASSUME NEW c \in JoinCase, NEW built, NEW p \in Partitions, NEW t, PartInv(c, built, p, t),
         t.cur.r <= Len(c.right[p]), Met(c, built, p, t) = Matches(c, RowOf(c, p, t))
  PROVE  PartInv(c, built, p, RowAfter(c, t))
  <1>1. t \in Parts /\ GivenInv(c, built, p, t) /\ ChunkInv(t)
    BY DEF PartInv
  <1>2. /\ t.cur.r \in Nat \ {0} /\ t.cur.matched \in BOOLEAN /\ t.out \in GivenRows /\ t.chunk \in GivenRows
    BY <1>1, PartFields
  <1>3. /\ GivenTo(t.out, t.cur.r) = Matches(c, c.right[p][t.cur.r])
        /\ t.cur.matched <=> GivenTo(t.out, t.cur.r) # {}
        /\ InOrder(t.out, t.cur.r) /\ MatchesFirst(t.chunk)
    BY <1>1 DEF GivenInv, RowOf, ChunkInv
  <1>4. PICK cur, e : cur = Start(t.cur.r + 1) /\ e = <<Nobody, t.cur.r>>
    OBVIOUS
  <1>5. CASE c.keep /\ ~t.cur.matched
    <2>1. e \in Nat \X Nat /\ e[1] = Nobody /\ e[2] = t.cur.r
      BY <1>2, <1>4 DEF Nobody
    <2>2. GivenTo(t.out, e[2]) = {} /\ Matches(c, c.right[p][e[2]]) = {} /\ InOrder(t.out, e[2]) /\ c.keep
      BY <1>3, <1>5, <2>1
    <2>3. PICK o, ch : o = Append(t.out, e) /\ ch = Append(t.chunk, e)
      OBVIOUS
    <2>4. o \in GivenRows /\ ch \in GivenRows
      BY <1>2, <2>1, <2>3, StillRows
    <2>5. GivenTo(o, e[2]) = Wanted(c, p, e[2])
      <3>1. GivenTo(o, e[2]) = GivenTo(t.out, e[2]) \cup {e[1]}
        BY <1>2, <2>1, <2>3, GivenMore
      <3>2. Wanted(c, p, e[2]) = {Nobody}
        BY <2>2 DEF Wanted
      <3>. QED BY <2>1, <2>2, <3>1, <3>2
    <2>5a. InOrder(o, e[2])
      <3>1. e[1] \notin GivenTo(t.out, e[2])
        BY <2>2
      <3>. QED BY <1>2, <2>1, <2>2, <2>3, <3>1, OnceMore
    <2>5b. ASSUME NEW s \in Nat, s # e[2] PROVE GivenTo(o, s) = GivenTo(t.out, s)
      <3>1. PICK out : out = t.out
        OBVIOUS
      <3>2. out \in GivenRows
        BY <1>2, <3>1
      <3>3. e \in Nat \X Nat
        BY <2>1
      <3>4. o = Append(out, e)
        BY <2>3, <3>1
      <3>5. GivenTo(o, s) = GivenTo(out, s)
        BY <3>2, <3>3, <3>4, <2>5b, GivenElsewhere
      <3>. QED BY <3>1, <3>5
    <2>6. MatchesFirst(ch)
      BY <1>2, <1>3, <2>1, <2>3, ChunkMore
    <2>7. RowAfter(c, t) = [cur |-> cur, lo |-> t.lo, hi |-> t.hi, steps |-> t.steps,
                            out |-> o, chunk |-> ch, state |-> "rows"]
      BY <1>4, <1>5, <2>3 DEF RowAfter
    <2>. QED BY <1>4, <2>1, <2>4, <2>5, <2>5a, <2>5b, <2>6, <2>7, RowAfterKeeps
  <1>6. CASE ~(c.keep /\ ~t.cur.matched)
    <2>1. GivenTo(t.out, t.cur.r) = Wanted(c, p, t.cur.r)
      BY <1>3, <1>6 DEF Wanted
    <2>2. RowAfter(c, t) = [cur |-> cur, lo |-> t.lo, hi |-> t.hi, steps |-> t.steps,
                            out |-> t.out, chunk |-> t.chunk, state |-> "rows"]
      BY <1>4, <1>6 DEF RowAfter
    <2>. QED BY <1>2, <1>3, <1>4, <2>1, <2>2, RowAfterKeeps
  <1>. QED BY <1>5, <1>6

\* What is asked of what was handed on depends on the cursor alone.
LEMMA SameCursor ==
  ASSUME NEW c, NEW built, NEW p, NEW t, PartInv(c, built, p, t),
         NEW v, v \in Parts, v.cur = t.cur, v.out = t.out, ChunkInv(v),
         CursorInv(c, built, p, v), SearchInv(c, built, p, v)
  PROVE  PartInv(c, built, p, v)
  <1>1. GivenInv(c, built, p, t)
    BY DEF PartInv
  <1>2. Met(c, built, p, v) = Met(c, built, p, t)
    BY DEF Met, RowOf
  <1>3. GivenInv(c, built, p, v)
    BY <1>1, <1>2 DEF GivenInv
  <1>. QED BY <1>3 DEF PartInv

\* A call begins, with an empty chunk or a token that stops it.
LEMMA CallKeeps ==
  ASSUME NEW c \in JoinCase, NEW built, NEW p \in Partitions, NEW t, PartInv(c, built, p, t), t.state = "open"
  PROVE  /\ PartInv(c, built, p, [t EXCEPT !.state = "error"])
         /\ PartInv(c, built, p, [t EXCEPT !.chunk = <<>>, !.steps = 0, !.state = "rows"])
  <1>1. t \in Parts /\ CursorInv(c, built, p, t) /\ SearchInv(c, built, p, t) /\ ChunkInv(t)
    BY DEF PartInv
  <1>2. PICK v : v = [t EXCEPT !.state = "error"]
    OBVIOUS
  <1>3. PICK w : w = [t EXCEPT !.chunk = <<>>, !.steps = 0, !.state = "rows"]
    OBVIOUS
  <1>4. v \in Parts /\ w \in Parts
    <2>1. v \in Parts
      BY <1>1, <1>2 DEF Parts
    <2>2. <<>> \in GivenRows
      BY DEF GivenRows
    <2>3. w \in Parts
      BY <1>1, <1>3, <2>2 DEF Parts
    <2>. QED BY <2>1, <2>3
  <1>5. /\ v.cur = t.cur /\ v.out = t.out /\ v.chunk = t.chunk /\ v.steps = t.steps /\ v.state = "error"
        /\ w.cur = t.cur /\ w.out = t.out /\ w.chunk = <<>> /\ w.steps = 0 /\ w.state = "rows"
    BY <1>1, <1>2, <1>3 DEF Parts
  <1>6. CursorInv(c, built, p, v) /\ CursorInv(c, built, p, w)
    BY <1>1, <1>5 DEF CursorInv, RowOf
  <1>7. SearchInv(c, built, p, v) /\ SearchInv(c, built, p, w)
    BY <1>1, <1>5 DEF SearchInv, RowOf
  <1>8. ChunkInv(v)
    BY <1>1, <1>5 DEF ChunkInv
  <1>9. ChunkInv(w)
    <2>1. 0 <= Steps
      BY RangeJoinAssumption
    <2>2. MatchesFirst(<<>>)
      BY DEF MatchesFirst
    <2>. QED BY <1>5, <2>1, <2>2 DEF ChunkInv
  <1>. QED BY <1>2, <1>3, <1>4, <1>5, <1>6, <1>7, <1>8, <1>9, SameCursor

\* A row's search begins, or its scan goes on where it was.
LEMMA BeginKeeps ==
  ASSUME NEW c \in JoinCase, NEW built, built # <<>>, BuiltShape(c, built[1]), NEW p \in Partitions, NEW t,
         PartInv(c, built, p, t), t.cur.r <= Len(c.right[p]), Whole(c, RowOf(c, p, t))
  PROVE  /\ t.cur.i # 0 => PartInv(c, built, p, [t EXCEPT !.state = "scan"])
         /\ t.cur.i = 0 =>
              PartInv(c, built, p, [t EXCEPT !.lo = 1, !.hi = Len(built[1].order) + 1, !.state = "search"])
  <1>1. t \in Parts /\ CursorInv(c, built, p, t) /\ SearchInv(c, built, p, t) /\ ChunkInv(t)
    BY DEF PartInv
  <1>2. PICK n : n = Len(built[1].order)
    OBVIOUS
  <1>3. n \in Nat
    BY <1>2 DEF BuiltShape
  <1>4. PICK v : v = [t EXCEPT !.state = "scan"]
    OBVIOUS
  <1>5. PICK w : w = [t EXCEPT !.lo = 1, !.hi = n + 1, !.state = "search"]
    OBVIOUS
  <1>6. v \in Parts /\ w \in Parts
    <2>1. v \in Parts
      BY <1>1, <1>4 DEF Parts
    <2>2. PICK one, m : one = 1 /\ m = n + 1
      OBVIOUS
    <2>3. w = [t EXCEPT !.lo = one, !.hi = m, !.state = "search"] /\ one \in Nat /\ m \in Nat
      BY <1>3, <1>5, <2>2
    <2>4. w \in Parts
      BY <1>1, <2>3 DEF Parts
    <2>. QED BY <2>1, <2>4
  <1>7. /\ v.cur = t.cur /\ v.out = t.out /\ v.chunk = t.chunk /\ v.steps = t.steps /\ v.state = "scan"
        /\ w.cur = t.cur /\ w.out = t.out /\ w.chunk = t.chunk /\ w.steps = t.steps /\ w.state = "search"
        /\ w.lo = 1 /\ w.hi = n + 1
    BY <1>1, <1>4, <1>5 DEF Parts
  <1>8. ChunkInv(v) /\ ChunkInv(w)
    BY <1>1, <1>7 DEF ChunkInv
  <1>9. ASSUME t.cur.i # 0 PROVE PartInv(c, built, p, v)
    <2>1. CursorInv(c, built, p, v)
      BY <1>1, <1>7, <1>9 DEF CursorInv, RowOf
    <2>2. SearchInv(c, built, p, v)
      BY <1>1, <1>7, <1>9 DEF SearchInv, RowOf
    <2>. QED BY <2>1, <2>2, <1>6, <1>7, <1>8, SameCursor
  <1>10. ASSUME t.cur.i = 0 PROVE PartInv(c, built, p, w)
    <2>1. CursorInv(c, built, p, w)
      BY <1>1, <1>7, <1>10 DEF CursorInv, RowOf
    <2>2. SearchInv(c, built, p, w)
      BY <1>2, <1>3, <1>7, <1>10 DEF SearchInv
    <2>. QED BY <2>1, <2>2, <1>6, <1>7, <1>8, SameCursor
  <1>. QED BY <1>2, <1>4, <1>5, <1>9, <1>10

\* A scan pauses, and a batch ends.
LEMMA StopKeeps ==
  ASSUME NEW c \in JoinCase, NEW built, NEW p \in Partitions, NEW t, PartInv(c, built, p, t),
         NEW state \in {"open", "done"}, state = "done" => t.cur.r > Len(c.right[p])
  PROVE  PartInv(c, built, p, [t EXCEPT !.state = state])
  <1>1. t \in Parts /\ CursorInv(c, built, p, t) /\ SearchInv(c, built, p, t) /\ ChunkInv(t)
    BY DEF PartInv
  <1>2. PICK v : v = [t EXCEPT !.state = state]
    OBVIOUS
  <1>3. v \in Parts
    BY <1>1, <1>2 DEF Parts
  <1>4. v.cur = t.cur /\ v.out = t.out /\ v.chunk = t.chunk /\ v.steps = t.steps /\ v.state = state
    BY <1>1, <1>2 DEF Parts
  <1>5. CursorInv(c, built, p, v)
    BY <1>1, <1>4 DEF CursorInv, RowOf
  <1>6. SearchInv(c, built, p, v)
    BY <1>1, <1>4 DEF SearchInv, RowOf
  <1>7. ChunkInv(v)
    BY <1>1, <1>4 DEF ChunkInv
  <1>. QED BY <1>2, <1>3, <1>4, <1>5, <1>6, <1>7, SameCursor

\* Halving what is left of a search.
LEMMA HalveKeeps ==
  ASSUME NEW c \in JoinCase, Taken(c), NEW built, built # <<>>, BuiltShape(c, built[1]),
         NEW p \in Partitions, NEW t, PartInv(c, built, p, t), t.state = "search", t.lo < t.hi,
         NEW mid, mid = (t.lo + t.hi) \div 2
  PROVE  /\ LowerHolds(c, built[1], mid, RowOf(c, p, t)) => PartInv(c, built, p, [t EXCEPT !.hi = mid])
         /\ ~LowerHolds(c, built[1], mid, RowOf(c, p, t)) => PartInv(c, built, p, [t EXCEPT !.lo = mid + 1])
  <1>1. t \in Parts /\ CursorInv(c, built, p, t) /\ SearchInv(c, built, p, t) /\ ChunkInv(t)
    BY DEF PartInv
  <1>2. PICK B, n, y, lo, hi : B = built[1] /\ n = Len(B.order) /\ y = RowOf(c, p, t) /\ lo = t.lo /\ hi = t.hi
    OBVIOUS
  <1>3. n \in Nat /\ BuiltShape(c, B)
    BY <1>2 DEF BuiltShape
  <1>4. y \in JoinRow
    BY <1>1, <1>2, PartFields DEF CursorInv
  <1>5. /\ lo \in Nat /\ hi \in Nat /\ 1 <= lo /\ lo < hi /\ hi <= n + 1
        /\ \A k \in 1..(lo - 1) : ~LowerHolds(c, B, k, y)
        /\ \A k \in hi..n : LowerHolds(c, B, k, y)
    BY <1>1, <1>2 DEF SearchInv, Parts
  <1>6. mid \in 1..n /\ mid \in Nat /\ lo <= mid /\ mid < hi
    <2>1. mid = (lo + hi) \div 2
      BY <1>2
    <2>. QED BY <2>1, <1>3, <1>5
  <1>7. ASSUME LowerHolds(c, B, mid, y) PROVE PartInv(c, built, p, [t EXCEPT !.hi = mid])
    <2>1. PICK v : v = [t EXCEPT !.hi = mid]
      OBVIOUS
    <2>2. v \in Parts
      BY <1>1, <1>6, <2>1 DEF Parts
    <2>3. /\ v.cur = t.cur /\ v.out = t.out /\ v.chunk = t.chunk /\ v.steps = t.steps /\ v.state = t.state
          /\ v.lo = lo /\ v.hi = mid
      BY <1>1, <1>2, <2>1 DEF Parts
    <2>4. CursorInv(c, built, p, v)
      BY <1>1, <2>3 DEF CursorInv, RowOf
    <2>5. \A k \in mid..n : LowerHolds(c, B, k, y)
      <3> TAKE k \in mid..n
      <3>1. k \in 1..n /\ mid \in 1..k
        BY <1>3, <1>6
      <3>2. n = Len(B.order)
        BY <1>2
      <3>. QED BY <3>1, <3>2, <1>3, <1>4, <1>7, BoundsInOrder
    <2>6. SearchInv(c, built, p, v)
      <3>1. t.cur.i = 0 /\ t.state = "search" /\ RowOf(c, p, v) = y
        BY <1>1, <1>2, <2>3 DEF CursorInv, RowOf
      <3>2. 1 <= lo /\ lo <= mid /\ mid <= n + 1
        BY <1>3, <1>5, <1>6
      <3>. QED BY <3>1, <3>2, <1>2, <1>5, <2>3, <2>5 DEF SearchInv
    <2>7. ChunkInv(v)
      BY <1>1, <2>3 DEF ChunkInv
    <2>. QED BY <2>1, <2>2, <2>3, <2>4, <2>6, <2>7, SameCursor
  <1>8. ASSUME ~LowerHolds(c, B, mid, y) PROVE PartInv(c, built, p, [t EXCEPT !.lo = mid + 1])
    <2>1. PICK v, m : m = mid + 1 /\ v = [t EXCEPT !.lo = m]
      OBVIOUS
    <2>1a. m \in Nat /\ m - 1 = mid /\ 1 <= m /\ m <= hi
      BY <2>1, <1>5, <1>6
    <2>2. v \in Parts
      BY <1>1, <2>1, <2>1a DEF Parts
    <2>3. /\ v.cur = t.cur /\ v.out = t.out /\ v.chunk = t.chunk /\ v.steps = t.steps /\ v.state = t.state
          /\ v.lo = m /\ v.hi = hi
      BY <1>1, <1>2, <2>1 DEF Parts
    <2>4. CursorInv(c, built, p, v)
      BY <1>1, <2>3 DEF CursorInv, RowOf
    <2>5. \A k \in 1..(m - 1) : ~LowerHolds(c, B, k, y)
      <3> SUFFICES ASSUME NEW k \in 1..mid, LowerHolds(c, B, k, y) PROVE FALSE
        BY <2>1a
      <3>1. n = Len(B.order)
        BY <1>2
      <3>2. mid \in 1..n
        BY <1>6
      <3>. QED BY <3>1, <3>2, <1>3, <1>4, <1>8, BoundsInOrder
    <2>6. SearchInv(c, built, p, v)
      <3>1. t.cur.i = 0 /\ t.state = "search" /\ RowOf(c, p, v) = y
        BY <1>1, <1>2, <2>3 DEF CursorInv, RowOf
      <3>. QED BY <3>1, <1>2, <1>5, <2>1a, <2>3, <2>5 DEF SearchInv
    <2>7. ChunkInv(v)
      BY <1>1, <2>3 DEF ChunkInv
    <2>. QED BY <2>1, <2>2, <2>3, <2>4, <2>6, <2>7, SameCursor
  <1>. QED BY <1>2, <1>7, <1>8

\* The candidate a search ends at is the first whose lower bound holds.
LEMMA FoundKeeps ==
  ASSUME NEW c \in JoinCase, NEW built, NEW p \in Partitions, NEW t, PartInv(c, built, p, t),
         built # <<>>, BuiltShape(c, built[1]), t.state = "search", t.lo >= t.hi
  PROVE  PartInv(c, built, p, [t EXCEPT !.cur.i = t.lo, !.state = "scan"])
  <1>1. t \in Parts /\ CursorInv(c, built, p, t) /\ SearchInv(c, built, p, t) /\ GivenInv(c, built, p, t) /\ ChunkInv(t)
    BY DEF PartInv
  <1>2. PICK B, n, y, lo : B = built[1] /\ n = Len(B.order) /\ y = RowOf(c, p, t) /\ lo = t.lo
    OBVIOUS
  <1>3. /\ lo \in Nat /\ n \in Nat /\ 1 <= lo /\ lo <= n + 1 /\ lo # 0
        /\ \A k \in 1..(lo - 1) : ~LowerHolds(c, B, k, y)
        /\ \A k \in lo..n : LowerHolds(c, B, k, y)
    <2>1. n \in Nat
      BY <1>2 DEF BuiltShape
    <2>2. /\ lo \in Nat /\ t.hi \in Nat /\ 1 <= lo /\ lo <= t.hi /\ t.hi <= n + 1 /\ lo >= t.hi
          /\ \A k \in 1..(lo - 1) : ~LowerHolds(c, B, k, y)
          /\ \A k \in t.hi..n : LowerHolds(c, B, k, y)
      BY <1>1, <1>2 DEF SearchInv, Parts
    <2>3. lo = t.hi
      BY <2>2
    <2>. QED BY <2>1, <2>2, <2>3
  <1>4. PICK v : v = [t EXCEPT !.cur.i = lo, !.state = "scan"]
    OBVIOUS
  <1>5. v \in Parts
    BY <1>1, <1>3, <1>4 DEF Parts
  <1>6. /\ v.cur.r = t.cur.r /\ v.cur.i = lo /\ v.cur.matched = t.cur.matched /\ v.out = t.out
        /\ v.chunk = t.chunk /\ v.steps = t.steps /\ v.state = "scan"
    BY <1>1, <1>4 DEF Parts
  <1>7. RowOf(c, p, v) = y
    BY <1>2, <1>6 DEF RowOf
  <1>8. CursorInv(c, built, p, v)
    BY <1>1, <1>3, <1>6 DEF CursorInv, RowOf
  <1>9. SearchInv(c, built, p, v)
    BY <1>2, <1>3, <1>6, <1>7 DEF SearchInv
  <1>10. GivenInv(c, built, p, v)
    <2>1. Met(c, built, p, v) = {}
      BY <1>2, <1>3, <1>6, <1>7 DEF Met
    <2>2. Met(c, built, p, t) = {}
      BY <1>1 DEF Met, CursorInv
    <2>. QED BY <2>1, <2>2, <1>1, <1>6 DEF GivenInv
  <1>11. ChunkInv(v)
    BY <1>1, <1>6 DEF ChunkInv
  <1>. QED BY <1>2, <1>4, <1>5, <1>8, <1>9, <1>10, <1>11 DEF PartInv

\* A row nothing further of which may match has been handed on all its matches,
\* and so has one without a bound.
LEMMA ScanOver ==
  ASSUME NEW c \in JoinCase, Taken(c), NEW built, built # <<>>, BuiltShape(c, built[1]),
         NEW p \in Partitions, NEW t, PartInv(c, built, p, t), t.state = "scan",
         ~(t.cur.i <= Len(built[1].order)
           /\ UpperHolds(c, built[1], built[1].suffixMin[t.cur.i], RowOf(c, p, t)))
  PROVE  t.cur.r <= Len(c.right[p]) /\ Met(c, built, p, t) = Matches(c, RowOf(c, p, t))
  <1>1. t \in Parts /\ CursorInv(c, built, p, t) /\ SearchInv(c, built, p, t)
    BY DEF PartInv
  <1>2. PICK B, n, y, i : B = built[1] /\ n = Len(B.order) /\ y = RowOf(c, p, t) /\ i = t.cur.i
    OBVIOUS
  <1>3. t.cur.r <= Len(c.right[p]) /\ Whole(c, y) /\ y \in JoinRow
    BY <1>1, <1>2, PartFields DEF CursorInv
  <1>4. /\ n \in Nat /\ BuiltShape(c, B) /\ i \in Nat /\ i # 0 /\ i <= n + 1
    <2>1. n \in Nat /\ BuiltShape(c, B)
      BY <1>2 DEF BuiltShape
    <2>2. i \in Nat /\ i # 0 /\ i <= n + 1
      BY <1>1, <1>2, PartFields DEF CursorInv, SearchInv
    <2>. QED BY <2>1, <2>2
  <1>5. ASSUME NEW j \in i..n PROVE ~UpperHolds(c, B, j, y)
    <2>1. i \in 1..n
      BY <1>4, <1>5
    <2>2. n = Len(B.order)
      BY <1>2
    <2>3. ~UpperHolds(c, B, B.suffixMin[i], y)
      BY <1>2, <2>1
    <2>. QED BY <2>1, <2>2, <2>3, <1>3, <1>4, BoundsInOrder
  <1>6. Matches(c, y) = {B.order[k] : k \in {j \in 1..n : LowerHolds(c, B, j, y) /\ UpperHolds(c, B, j, y)}}
    BY <1>2, <1>3, <1>4, CandidatesMatch
  <1>7. {j \in 1..n : LowerHolds(c, B, j, y) /\ UpperHolds(c, B, j, y)}
          = {j \in 1..(i - 1) : LowerHolds(c, B, j, y) /\ UpperHolds(c, B, j, y)}
    <2>1. \A j \in 1..n : j \in i..n \/ j \in 1..(i - 1)
      BY <1>4
    <2>2. \A j \in 1..(i - 1) : j \in 1..n
      BY <1>4
    <2>. QED BY <2>1, <2>2, <1>5
  <1>8. Met(c, built, p, t) = Matches(c, y)
    BY <1>2, <1>6, <1>7 DEF Met
  <1>. QED BY <1>2, <1>3, <1>8

\* A row without a bound has no match to hand on.
LEMMA WithoutBound ==
  ASSUME NEW c \in JoinCase, Taken(c), NEW built, built # <<>>, BuiltShape(c, built[1]),
         NEW p \in Partitions, NEW t, PartInv(c, built, p, t), t.state = "rows",
         t.cur.r <= Len(c.right[p]), ~Whole(c, RowOf(c, p, t))
  PROVE  Met(c, built, p, t) = Matches(c, RowOf(c, p, t))
  <1>1. t \in Parts /\ CursorInv(c, built, p, t)
    BY DEF PartInv
  <1>2. PICK B, y : B = built[1] /\ y = RowOf(c, p, t)
    OBVIOUS
  <1>3. t.cur.i = 0 /\ y \in JoinRow
    BY <1>1, <1>2, PartFields DEF CursorInv
  <1>4. Matches(c, y) = {}
    BY <1>2, <1>3, CandidatesMatch
  <1>5. Met(c, built, p, t) = {}
    BY <1>3 DEF Met
  <1>. QED BY <1>2, <1>4, <1>5

\* A candidate looked at, which did not match.
LEMMA PassKeeps ==
  ASSUME NEW c \in JoinCase, NEW built, built # <<>>, BuiltShape(c, built[1]),
         NEW p \in Partitions, NEW t, PartInv(c, built, p, t), t.state = "scan", t.steps < Steps,
         t.cur.i <= Len(built[1].order), ~UpperHolds(c, built[1], t.cur.i, RowOf(c, p, t))
  PROVE  PartInv(c, built, p, [t EXCEPT !.cur.i = t.cur.i + 1, !.steps = @ + 1])
  <1>1. t \in Parts /\ CursorInv(c, built, p, t) /\ SearchInv(c, built, p, t) /\ GivenInv(c, built, p, t) /\ ChunkInv(t)
    BY DEF PartInv
  <1>2. PICK B, n, y, i, m, steps :
          /\ B = built[1] /\ n = Len(B.order) /\ y = RowOf(c, p, t) /\ i = t.cur.i /\ m = i + 1
          /\ steps = t.steps + 1
    OBVIOUS
  <1>3. /\ n \in Nat /\ i \in Nat /\ i # 0 /\ i <= n /\ m \in Nat /\ m # 0 /\ m - 1 = i
        /\ m <= n + 1 /\ \A k \in i..n : LowerHolds(c, B, k, y)
    <2>1. n \in Nat
      BY <1>2 DEF BuiltShape
    <2>2. i \in Nat /\ i # 0 /\ i <= n /\ \A k \in i..n : LowerHolds(c, B, k, y)
      BY <1>1, <1>2, PartFields DEF CursorInv, SearchInv
    <2>. QED BY <2>1, <2>2, <1>2
  <1>4. PICK v : v = [t EXCEPT !.cur.i = m, !.steps = steps]
    OBVIOUS
  <1>5. steps \in Nat /\ steps <= Steps
    <2>1. t.steps \in Nat /\ Steps \in Nat
      BY <1>1, PartFields, RangeJoinAssumption
    <2>. QED BY <2>1, <1>2
  <1>6. v \in Parts
    BY <1>1, <1>3, <1>4, <1>5 DEF Parts
  <1>7. /\ v.cur.r = t.cur.r /\ v.cur.i = m /\ v.cur.matched = t.cur.matched /\ v.out = t.out
        /\ v.chunk = t.chunk /\ v.steps = steps /\ v.state = t.state
    BY <1>1, <1>4 DEF Parts
  <1>8. RowOf(c, p, v) = y
    BY <1>2, <1>7 DEF RowOf
  <1>9. CursorInv(c, built, p, v)
    BY <1>1, <1>3, <1>7 DEF CursorInv, RowOf
  <1>10. SearchInv(c, built, p, v)
    <2>1. \A k \in m..n : k \in i..n
      BY <1>3
    <2>2. v.state # "search"
      BY <1>7
    <2>. QED BY <2>1, <2>2, <1>2, <1>3, <1>7, <1>8 DEF SearchInv
  <1>11. GivenInv(c, built, p, v)
    <2>1. ~UpperHolds(c, B, i, y)
      BY <1>2
    <2>2. \A j \in 1..(m - 1) : j = i \/ j \in 1..(i - 1)
      BY <1>3
    <2>3. \A j \in 1..(i - 1) : j \in 1..(m - 1)
      BY <1>3
    <2>4. {j \in 1..(m - 1) : LowerHolds(c, B, j, y) /\ UpperHolds(c, B, j, y)}
            = {j \in 1..(i - 1) : LowerHolds(c, B, j, y) /\ UpperHolds(c, B, j, y)}
      BY <2>1, <2>2, <2>3
    <2>5. Met(c, built, p, v) = Met(c, built, p, t)
      BY <2>4, <1>2, <1>7, <1>8 DEF Met
    <2>. QED BY <2>5, <1>1, <1>7 DEF GivenInv
  <1>12. ChunkInv(v)
    BY <1>1, <1>5, <1>7 DEF ChunkInv
  <1>. QED BY <1>2, <1>4, <1>6, <1>9, <1>10, <1>11, <1>12 DEF PartInv

\* A candidate looked at, which matched: it had not been handed on before.
AfterMatch(built, t) ==
  LET e == <<built[1].order[t.cur.i], t.cur.r>> IN
  [cur |-> [r |-> t.cur.r, i |-> t.cur.i + 1, matched |-> TRUE], lo |-> t.lo, hi |-> t.hi,
   steps |-> t.steps + 1, out |-> Append(t.out, e), chunk |-> Append(t.chunk, e), state |-> t.state]

\* It is not given twice, and the next call sees what follows.
LEMMA MatchKeeps ==
  ASSUME NEW c \in JoinCase, NEW built, built # <<>>, BuiltShape(c, built[1]),
         NEW p \in Partitions, NEW t, PartInv(c, built, p, t), t.state = "scan", ~CallFull(t),
         t.cur.i <= Len(built[1].order), UpperHolds(c, built[1], t.cur.i, RowOf(c, p, t))
  PROVE  PartInv(c, built, p, AfterMatch(built, t))
  <1>1. t \in Parts /\ CursorInv(c, built, p, t) /\ SearchInv(c, built, p, t) /\ GivenInv(c, built, p, t) /\ ChunkInv(t)
    BY DEF PartInv
  <1>2. PICK B, n, y, r, i, m, steps :
          /\ B = built[1] /\ n = Len(B.order) /\ y = RowOf(c, p, t) /\ r = t.cur.r /\ i = t.cur.i /\ m = i + 1
          /\ steps = t.steps + 1
    OBVIOUS
  <1>3. PICK e, cur, out, o, ch :
          /\ e = <<B.order[i], r>> /\ cur = [r |-> r, i |-> m, matched |-> TRUE]
          /\ out = t.out /\ o = Append(out, e) /\ ch = Append(t.chunk, e)
    OBVIOUS
  <1>4. /\ n \in Nat /\ i \in Nat /\ i # 0 /\ i <= n /\ m \in Nat /\ m # 0 /\ m - 1 = i /\ i \in 1..n
        /\ m <= n + 1 /\ \A k \in i..n : LowerHolds(c, B, k, y)
    <2>1. n \in Nat
      BY <1>2 DEF BuiltShape
    <2>2. i \in Nat /\ i # 0 /\ i <= n /\ \A k \in i..n : LowerHolds(c, B, k, y)
      BY <1>1, <1>2, PartFields DEF CursorInv, SearchInv
    <2>. QED BY <2>1, <2>2, <1>2
  <1>5. /\ r \in Nat \ {0} /\ out \in GivenRows /\ t.chunk \in GivenRows /\ t.lo \in Nat /\ t.hi \in Nat
        /\ t.steps \in Nat /\ t.state \in {"open", "rows", "search", "scan", "done", "error"}
    BY <1>1, <1>2, <1>3, PartFields
  <1>6. /\ B.order[i] \in Nat
        /\ \A j, k \in 1..n : B.order[j] = B.order[k] => j = k
    BY <1>2, <1>4 DEF BuiltShape
  <1>7. e \in Nat \X Nat /\ e[1] = B.order[i] /\ e[2] = r
    BY <1>3, <1>5, <1>6
  <1>8. t.steps < Steps /\ Len(t.chunk) < MaxOut
    <2>1. Len(t.chunk) \in Nat /\ Steps \in Nat /\ MaxOut \in Nat
      BY <1>5, LenProperties, RangeJoinAssumption DEF GivenRows
    <2>2. ~(Len(t.chunk) >= MaxOut) /\ ~(t.steps >= Steps)
      BY DEF CallFull
    <2>. QED BY <1>5, <2>1, <2>2
  <1>9. steps \in Nat /\ steps <= Steps
    <2>1. Steps \in Nat
      BY RangeJoinAssumption
    <2>. QED BY <1>2, <1>5, <1>8, <2>1
  <1>10. o \in GivenRows /\ ch \in GivenRows
    BY <1>3, <1>5, <1>7, StillRows
  <1>11. PICK v : v = AfterMatch(built, t)
    OBVIOUS
  <1>12. v = [cur |-> cur, lo |-> t.lo, hi |-> t.hi, steps |-> steps, out |-> o, chunk |-> ch, state |-> t.state]
    BY <1>2, <1>3, <1>11 DEF AfterMatch
  <1>13. v \in Parts
    <2>1. cur \in [r : Nat \ {0}, i : Nat, matched : BOOLEAN]
      BY <1>3, <1>4, <1>5
    <2>. QED BY <2>1, <1>5, <1>9, <1>10, <1>12 DEF Parts
  <1>14. /\ v.cur.r = r /\ v.cur.i = m /\ v.cur.matched = TRUE /\ v.out = o /\ v.chunk = ch
         /\ v.steps = steps /\ v.state = "scan"
    <2>1. cur.r = r /\ cur.i = m /\ cur.matched = TRUE
      BY <1>3
    <2>2. v.cur = cur /\ v.out = o /\ v.chunk = ch /\ v.steps = steps /\ v.state = "scan"
      BY <1>12
    <2>. QED BY <2>1, <2>2
  <1>15. RowOf(c, p, v) = y
    BY <1>2, <1>14 DEF RowOf
  <1>16. CursorInv(c, built, p, v)
    BY <1>1, <1>2, <1>4, <1>14 DEF CursorInv, RowOf
  <1>17. SearchInv(c, built, p, v)
    <2>1. \A k \in m..n : k \in i..n
      BY <1>4
    <2>. QED BY <2>1, <1>2, <1>4, <1>14, <1>15 DEF SearchInv
  <1>18. Met(c, built, p, v) = Met(c, built, p, t) \cup {B.order[i]}
    <2>1. LowerHolds(c, B, i, y) /\ UpperHolds(c, B, i, y)
      BY <1>2, <1>4
    <2>2. \A j \in 1..(m - 1) : j = i \/ j \in 1..(i - 1)
      BY <1>4
    <2>3. i \in 1..(m - 1) /\ \A j \in 1..(i - 1) : j \in 1..(m - 1)
      BY <1>4
    <2>4. {j \in 1..(m - 1) : LowerHolds(c, B, j, y) /\ UpperHolds(c, B, j, y)}
            = {j \in 1..(i - 1) : LowerHolds(c, B, j, y) /\ UpperHolds(c, B, j, y)} \cup {i}
      BY <2>1, <2>2, <2>3
    <2>5. /\ Met(c, built, p, v) = {B.order[k] : k \in {j \in 1..(m - 1) : LowerHolds(c, B, j, y) /\ UpperHolds(c, B, j, y)}}
          /\ Met(c, built, p, t) = {B.order[k] : k \in {j \in 1..(i - 1) : LowerHolds(c, B, j, y) /\ UpperHolds(c, B, j, y)}}
      BY <1>2, <1>14, <1>15 DEF Met
    <2>. QED BY <2>4, <2>5
  <1>19. B.order[i] \notin Met(c, built, p, t)
    <2>1. \A j \in 1..(i - 1) : j \in 1..n /\ j # i
      BY <1>4
    <2>2. \A j \in 1..(i - 1) : B.order[j] # B.order[i]
      BY <1>4, <1>6, <2>1
    <2>. QED BY <2>2, <1>2 DEF Met
  <1>20. /\ \A s \in 1..(r - 1) : GivenTo(out, s) = Wanted(c, p, s)
         /\ GivenTo(out, r) = Met(c, built, p, t) /\ InOrder(out, r)
    BY <1>1, <1>2, <1>3 DEF GivenInv
  <1>21. GivenTo(o, r) = Met(c, built, p, v)
    <2>1. out \in GivenRows
      BY <1>5
    <2>2. e \in Nat \X Nat
      BY <1>7
    <2>3. o = Append(out, e)
      BY <1>3
    <2>4. GivenTo(o, e[2]) = GivenTo(out, e[2]) \cup {e[1]}
      BY <2>1, <2>2, <2>3, GivenMore
    <2>. QED BY <2>4, <1>7, <1>18, <1>20
  <1>22. InOrder(o, r)
    <2>1. e[1] \notin GivenTo(out, e[2]) /\ InOrder(out, e[2])
      BY <1>7, <1>19, <1>20
    <2>2. InOrder(o, e[2])
      BY <1>3, <1>5, <1>7, <2>1, OnceMore
    <2>. QED BY <2>2, <1>7
  <1>23. ASSUME NEW s \in 1..(r - 1) PROVE GivenTo(o, s) = Wanted(c, p, s)
    <2>1. s \in Nat /\ s # e[2]
      BY <1>5, <1>7
    <2>2. out \in GivenRows
      BY <1>5
    <2>3. e \in Nat \X Nat
      BY <1>7
    <2>4. o = Append(out, e)
      BY <1>3
    <2>5. GivenTo(o, s) = GivenTo(out, s)
      BY <2>1, <2>2, <2>3, <2>4, GivenElsewhere
    <2>. QED BY <2>5, <1>20
  <1>24. GivenInv(c, built, p, v)
    <2>1. GivenTo(o, r) # {}
      BY <1>18, <1>21
    <2>. QED BY <2>1, <1>14, <1>21, <1>22, <1>23 DEF GivenInv
  <1>25. ChunkInv(v)
    <2>1. MatchesFirst(t.chunk)
      BY <1>1 DEF ChunkInv
    <2>2. /\ Len(ch) = Len(t.chunk) + 1 /\ Len(t.chunk) \in Nat /\ DOMAIN ch = 1..Len(ch)
          /\ DOMAIN t.chunk = 1..Len(t.chunk) /\ \A k \in 1..Len(t.chunk) : ch[k] = t.chunk[k]
      BY <1>3, <1>5, <1>7, OnePlaceMore
    <2>3. Len(ch) <= MaxOut
      <3>1. MaxOut \in Nat
        BY RangeJoinAssumption
      <3>. QED BY <3>1, <1>8, <2>2
    <2>4. \A k \in DOMAIN ch : k <= MaxOut
      <3>1. MaxOut \in Nat
        BY RangeJoinAssumption
      <3>. QED BY <3>1, <2>2, <2>3
    <2>5. MatchesFirst(ch)
      BY <2>4 DEF MatchesFirst
    <2>. QED BY <2>5, <1>9, <1>14 DEF ChunkInv
  <1>26. PartInv(c, built, p, v)
    BY <1>13, <1>16, <1>17, <1>24, <1>25 DEF PartInv
  <1>. QED BY <1>11, <1>26

-----------------------------------------------------------------------------
\* The steps of the join, on its state.
LEMMA JoinStarts == JoinInit => JoinStrong
  <1> SUFFICES ASSUME NEW c \in JoinCases, Taken(c), join = Planned(c) PROVE JoinStrong
    BY DEF JoinInit
  <1>1. c \in JoinCase
    BY RangeJoinAssumption DEF JoinCase
  <1> DEFINE t == [cur |-> Start(1), lo |-> 0, hi |-> 0, steps |-> 0,
                   out |-> <<>>, chunk |-> <<>>, state |-> "open"]
  <1>2. Fresh(t)
    <2>1. <<>> \in GivenRows
      BY DEF GivenRows
    <2>2. Start(1) \in [r : Nat \ {0}, i : Nat, matched : BOOLEAN]
      BY DEF Start
    <2>3. t \in Parts
      BY <2>1, <2>2 DEF Parts
    <2>. QED BY <2>3 DEF Fresh
  <1> HIDE DEF t
  <1>3. join = [case |-> c, built |-> <<>>, token |-> FALSE, part |-> [p \in Partitions |-> t]]
    BY DEF Planned, t
  <1>4. /\ join.case = c /\ join.built = <<>> /\ join.token = FALSE
        /\ join.part = [p \in Partitions |-> t]
        /\ join = [case |-> join.case, built |-> join.built, token |-> join.token, part |-> join.part]
    BY <1>3
  <1>5. join.part \in [Partitions -> Parts]
    BY <1>2, <1>4 DEF Fresh
  <1>6. \A p \in Partitions : Fresh(join.part[p]) /\ PartInv(join.case, join.built, p, join.part[p])
    <2> TAKE p \in Partitions
    <2>1. join.part[p] = t
      BY <1>4
    <2>. QED BY <2>1, <1>1, <1>2, <1>4, FreshKeeps
  <1>7. BuiltInv(join.case, join.built, join.part)
    BY <1>4, <1>6 DEF BuiltInv
  <1>. QED BY <1>1, <1>4, <1>5, <1>6, <1>7 DEF JoinStrong

\* One partition moves once the build side is there.
LEMMA PartMoves ==
  ASSUME JoinStrong, NEW p \in Partitions, NEW t, PartInv(join.case, join.built, p, t),
         join.built # <<>>, Moved(p, t)
  PROVE  JoinStrong'
  <1>1. /\ join = [case |-> join.case, built |-> join.built, token |-> join.token, part |-> join.part]
        /\ join.case \in JoinCase /\ Taken(join.case) /\ join.part \in [Partitions -> Parts]
        /\ BuiltInv(join.case, join.built, join.part)
        /\ \A q \in Partitions : PartInv(join.case, join.built, q, join.part[q])
    BY DEF JoinStrong
  <1>2. PICK part : part = [join.part EXCEPT ![p] = t]
    OBVIOUS
  <1>3. join' = [case |-> join.case, built |-> join.built, token |-> join.token, part |-> part]
    <2>1. join' = [join EXCEPT !.part[p] = t]
      BY DEF Moved
    <2>. QED BY <1>1, <1>2, <2>1
  <1>4. join'.case = join.case /\ join'.built = join.built /\ join'.token = join.token /\ join'.part = part
    BY <1>3
  <1>5. t \in Parts
    BY DEF PartInv
  <1>6. part \in [Partitions -> Parts]
    BY <1>1, <1>2, <1>5
  <1>7. \A q \in Partitions : PartInv(join.case, join.built, q, part[q])
    <2> TAKE q \in Partitions
    <2>1. part[q] = IF q = p THEN t ELSE join.part[q]
      BY <1>1, <1>2
    <2>. QED BY <1>1, <2>1
  <1>8. BuiltInv(join.case, join.built, part)
    BY <1>1 DEF BuiltInv
  <1>. QED BY <1>1, <1>3, <1>4, <1>6, <1>7, <1>8 DEF JoinStrong

\* What the actions read, of the constant parts of the state.
LEMMA JoinReads ==
  ASSUME JoinStrong, NEW p \in Partitions
  PROVE  /\ join.case \in JoinCase /\ Taken(join.case)
         /\ PartInv(join.case, join.built, p, join.part[p]) /\ join.part[p] \in Parts
         /\ join.built # <<>> => BuiltShape(join.case, join.built[1])
         /\ join.part[p].state \notin {"open", "error"} => join.built # <<>>
         /\ Right(p) = RowOf(join.case, p, join.part[p])
         /\ Right(p)[Bounds.ra] = Null \/ Right(p)[Bounds.rb] = Null
              <=> ~Whole(join.case, RowOf(join.case, p, join.part[p]))
         /\ \A i : /\ AHolds(i, Right(p)) <=> LowerHolds(join.case, join.built[1], i, RowOf(join.case, p, join.part[p]))
                   /\ BHolds(i, Right(p)) <=> UpperHolds(join.case, join.built[1], i, RowOf(join.case, p, join.part[p]))
  <1>1. /\ join.case \in JoinCase /\ Taken(join.case)
        /\ PartInv(join.case, join.built, p, join.part[p]) /\ join.part[p] \in Parts
        /\ BuiltInv(join.case, join.built, join.part)
    BY DEF JoinStrong
  <1>2. join.built # <<>> => BuiltShape(join.case, join.built[1])
    BY <1>1 DEF BuiltInv
  <1>3. join.part[p].state \notin {"open", "error"} => join.built # <<>>
    BY <1>1 DEF BuiltInv, Fresh
  <1>4. Right(p) = RowOf(join.case, p, join.part[p])
    BY DEF Right, RowOf
  <1>5. Right(p)[Bounds.ra] = Null \/ Right(p)[Bounds.rb] = Null <=> ~Whole(join.case, RowOf(join.case, p, join.part[p]))
    BY <1>4 DEF Bounds, Whole
  <1>6. ASSUME NEW i
        PROVE  /\ AHolds(i, Right(p)) <=> LowerHolds(join.case, join.built[1], i, RowOf(join.case, p, join.part[p]))
               /\ BHolds(i, Right(p)) <=> UpperHolds(join.case, join.built[1], i, RowOf(join.case, p, join.part[p]))
    BY <1>4 DEF AHolds, BHolds, LowerHolds, UpperHolds, Below, Bounds, Built
  <1>. QED BY <1>1, <1>2, <1>3, <1>4, <1>5, <1>6

\* The test that ends a scan, of the constant parts of the state.
LEMMA MayMatchReads ==
  ASSUME JoinStrong, NEW p \in Partitions
  PROVE  MayMatch(p) <=>
           /\ join.part[p].cur.i <= Len(join.built[1].order)
           /\ UpperHolds(join.case, join.built[1], join.built[1].suffixMin[join.part[p].cur.i],
                         RowOf(join.case, p, join.part[p]))
  <1>1. \A i : BHolds(i, Right(p)) <=> UpperHolds(join.case, join.built[1], i, RowOf(join.case, p, join.part[p]))
    BY JoinReads
  <1>. QED BY <1>1 DEF MayMatch, Candidates, Built

\* The first partition to poll builds for all of them, or fails where the pool has no room.
LEMMA BuildMoves == ASSUME JoinStrong, NEW p \in Partitions, Build(p) PROVE JoinStrong'
  <1>1. /\ join = [case |-> join.case, built |-> join.built, token |-> join.token, part |-> join.part]
        /\ join.case \in JoinCase /\ Taken(join.case) /\ join.part \in [Partitions -> Parts]
        /\ BuiltInv(join.case, join.built, join.part)
        /\ \A q \in Partitions : PartInv(join.case, join.built, q, join.part[q])
    BY DEF JoinStrong
  <1>2. join.built = <<>> /\ join.part[p].state = "open"
    BY DEF Build, At
  <1>3. \A q \in Partitions : Fresh(join.part[q])
    BY <1>1, <1>2 DEF BuiltInv
  <1>4. CASE BuildBytes(join.case) > JoinPool
    <2>1. join' = [join EXCEPT !.part[p].state = "error"]
      BY <1>4 DEF Build
    <2>2. PICK t : t = [join.part[p] EXCEPT !.state = "error"]
      OBVIOUS
    <2>3. PICK part : part = [join.part EXCEPT ![p] = t]
      OBVIOUS
    <2>4. join' = [case |-> join.case, built |-> join.built, token |-> join.token, part |-> part]
      BY <1>1, <2>1, <2>2, <2>3
    <2>5. join'.case = join.case /\ join'.built = join.built /\ join'.token = join.token /\ join'.part = part
      BY <2>4
    <2>6. Fresh(t)
      <3>1. join.part[p] \in Parts /\ Fresh(join.part[p])
        BY <1>3 DEF Fresh
      <3>2. t \in Parts
        BY <2>2, <3>1 DEF Parts
      <3>3. t.cur = join.part[p].cur /\ t.out = join.part[p].out /\ t.chunk = join.part[p].chunk
            /\ t.steps = join.part[p].steps /\ t.state = "error"
        BY <2>2, <3>1 DEF Parts
      <3>. QED BY <3>1, <3>2, <3>3 DEF Fresh
    <2>7. part \in [Partitions -> Parts] /\ \A q \in Partitions : Fresh(part[q])
      <3>1. \A q \in Partitions : part[q] = IF q = p THEN t ELSE join.part[q]
        BY <1>1, <2>3
      <3>2. t \in Parts
        BY <2>6 DEF Fresh
      <3>. QED BY <1>1, <1>3, <2>3, <2>6, <3>1, <3>2
    <2>8. \A q \in Partitions : PartInv(join.case, join.built, q, part[q])
      BY <1>1, <2>7, FreshKeeps
    <2>9. BuiltInv(join.case, join.built, part)
      BY <1>2, <2>7 DEF BuiltInv
    <2>. QED BY <1>1, <2>4, <2>5, <2>7, <2>8, <2>9 DEF JoinStrong
  <1>5. CASE ~(BuildBytes(join.case) > JoinPool)
    <2>1. PICK o \in Orders(join.case, Bounds) : join' = [join EXCEPT !.built = <<BuiltOf(join.case, Bounds, o)>>]
      BY <1>5 DEF Build
    <2>2. PICK B, built : B = BuiltOf(join.case, BoundsOf(join.case)[1], o) /\ built = <<B>>
      OBVIOUS
    <2>3. BuiltShape(join.case, B)
      BY <1>1, <2>1, <2>2, BuildsShape DEF Bounds
    <2>4. join' = [case |-> join.case, built |-> built, token |-> join.token, part |-> join.part]
      BY <1>1, <2>1, <2>2 DEF Bounds
    <2>5. join'.case = join.case /\ join'.built = built /\ join'.token = join.token /\ join'.part = join.part
      BY <2>4
    <2>6. BuiltInv(join.case, built, join.part)
      BY <2>2, <2>3 DEF BuiltInv
    <2>7. \A q \in Partitions : PartInv(join.case, built, q, join.part[q])
      BY <1>1, <1>3, FreshKeeps
    <2>. QED BY <1>1, <2>4, <2>5, <2>6, <2>7 DEF JoinStrong
  <1>. QED BY <1>4, <1>5

\* The token is set.
LEMMA CancelMoves == ASSUME JoinStrong, Cancel PROVE JoinStrong'
  <1>1. /\ join = [case |-> join.case, built |-> join.built, token |-> join.token, part |-> join.part]
        /\ join' = [join EXCEPT !.token = TRUE]
    BY DEF JoinStrong, Cancel
  <1>2. /\ join' = [case |-> join.case, built |-> join.built, token |-> TRUE, part |-> join.part]
    BY <1>1
  <1>3. join'.case = join.case /\ join'.built = join.built /\ join'.token = TRUE /\ join'.part = join.part
    BY <1>2
  <1>. QED BY <1>2, <1>3 DEF JoinStrong

\* A probe is called.
LEMMA CallMoves == ASSUME JoinStrong, NEW p \in Partitions, Call(p) PROVE JoinStrong'
  <1>1. join.part[p].state = "open" /\ join.built # <<>>
    BY DEF Call, At
  <1>2. /\ PartInv(join.case, join.built, p, [join.part[p] EXCEPT !.state = "error"])
        /\ PartInv(join.case, join.built, p, [join.part[p] EXCEPT !.chunk = <<>>, !.steps = 0, !.state = "rows"])
    BY <1>1, JoinReads, CallKeeps
  <1>3. CASE join.token
    BY <1>1, <1>2, <1>3, PartMoves DEF Call
  <1>4. CASE ~join.token
    BY <1>1, <1>2, <1>4, PartMoves DEF Call
  <1>. QED BY <1>3, <1>4

\* A row is over, in the terms of its action.
LEMMA NextMoves ==
  ASSUME JoinStrong, NEW p \in Partitions, join.built # <<>>,
         join.part[p].cur.r <= Len(join.case.right[p]),
         Met(join.case, join.built, p, join.part[p]) = Matches(join.case, RowOf(join.case, p, join.part[p])),
         Moved(p, NextRow(join.part[p]))
  PROVE  JoinStrong'
  <1>1. /\ join.case \in JoinCase /\ join.part[p] \in Parts
        /\ PartInv(join.case, join.built, p, join.part[p])
    BY JoinReads
  <1>2. NextRow(join.part[p]) = RowAfter(join.case, join.part[p])
    <2>1. PICK t, e, cur : t = join.part[p] /\ e = <<Nobody, t.cur.r>> /\ cur = Start(t.cur.r + 1)
      OBVIOUS
    <2>2. t = [cur |-> t.cur, lo |-> t.lo, hi |-> t.hi, steps |-> t.steps, out |-> t.out,
               chunk |-> t.chunk, state |-> t.state]
      BY <1>1, <2>1, PartFields
    <2>3. CASE join.case.keep /\ ~t.cur.matched
      <3>1. NextRow(t) = [[t EXCEPT !.out = Append(t.out, e), !.chunk = Append(t.chunk, e)] EXCEPT !.cur = cur, !.state = "rows"]
        BY <2>1, <2>2, <2>3 DEF NextRow, HandOn
      <3>2. RowAfter(join.case, t) = [cur |-> cur, lo |-> t.lo, hi |-> t.hi, steps |-> t.steps,
                                      out |-> Append(t.out, e), chunk |-> Append(t.chunk, e), state |-> "rows"]
        BY <2>1, <2>3 DEF RowAfter
      <3>. QED BY <2>1, <2>2, <3>1, <3>2
    <2>4. CASE ~(join.case.keep /\ ~t.cur.matched)
      <3>1. NextRow(t) = [t EXCEPT !.cur = cur, !.state = "rows"]
        BY <2>1, <2>4 DEF NextRow
      <3>2. RowAfter(join.case, t) = [cur |-> cur, lo |-> t.lo, hi |-> t.hi, steps |-> t.steps,
                                      out |-> t.out, chunk |-> t.chunk, state |-> "rows"]
        BY <2>1, <2>4 DEF RowAfter
      <3>. QED BY <2>1, <2>2, <3>1, <3>2
    <2>. QED BY <2>3, <2>4
  <1>3. PartInv(join.case, join.built, p, NextRow(join.part[p]))
    BY <1>1, <1>2, NextKeeps
  <1>. QED BY <1>3, PartMoves

\* A row begins, goes on, or is over at once for want of a bound.
LEMMA RowBeginsMoves == ASSUME JoinStrong, NEW p \in Partitions, RowBegins(p) PROVE JoinStrong'
  <1>1. join.part[p].state = "rows" /\ join.part[p].cur.r <= Len(join.case.right[p])
    BY DEF RowBegins, At
  <1>2. /\ join.case \in JoinCase /\ Taken(join.case)
        /\ PartInv(join.case, join.built, p, join.part[p])
        /\ join.built # <<>> /\ BuiltShape(join.case, join.built[1])
        /\ Right(p)[Bounds.ra] = Null \/ Right(p)[Bounds.rb] = Null
             <=> ~Whole(join.case, RowOf(join.case, p, join.part[p]))
    <2>1. join.part[p].state \notin {"open", "error"}
      BY <1>1
    <2>. QED BY <2>1, JoinReads
  <1>3. CASE ~Whole(join.case, RowOf(join.case, p, join.part[p]))
    <2>1. Moved(p, NextRow(join.part[p]))
      BY <1>2, <1>3 DEF RowBegins
    <2>2. Met(join.case, join.built, p, join.part[p]) = Matches(join.case, RowOf(join.case, p, join.part[p]))
      BY <1>1, <1>2, <1>3, WithoutBound
    <2>. QED BY <1>1, <1>2, <2>1, <2>2, NextMoves
  <1>4. CASE Whole(join.case, RowOf(join.case, p, join.part[p])) /\ join.part[p].cur.i # 0
    <2>1. Moved(p, [join.part[p] EXCEPT !.state = "scan"])
      BY <1>2, <1>4 DEF RowBegins
    <2>2. PartInv(join.case, join.built, p, [join.part[p] EXCEPT !.state = "scan"])
      BY <1>1, <1>2, <1>4, BeginKeeps
    <2>. QED BY <1>2, <2>1, <2>2, PartMoves
  <1>5. CASE Whole(join.case, RowOf(join.case, p, join.part[p])) /\ join.part[p].cur.i = 0
    <2>1. Moved(p, [join.part[p] EXCEPT !.lo = 1, !.hi = Len(join.built[1].order) + 1, !.state = "search"])
      BY <1>2, <1>5 DEF RowBegins, Candidates, Built
    <2>2. PartInv(join.case, join.built, p, [join.part[p] EXCEPT !.lo = 1, !.hi = Len(join.built[1].order) + 1, !.state = "search"])
      BY <1>1, <1>2, <1>5, BeginKeeps
    <2>. QED BY <1>2, <2>1, <2>2, PartMoves
  <1>. QED BY <1>3, <1>4, <1>5

\* A search halves what is left.
LEMMA HalveMoves == ASSUME JoinStrong, NEW p \in Partitions, Halve(p) PROVE JoinStrong'
  <1>1. join.part[p].state = "search" /\ join.part[p].lo < join.part[p].hi
    BY DEF Halve, At
  <1>2. PICK mid : mid = (join.part[p].lo + join.part[p].hi) \div 2
    OBVIOUS
  <1>3. /\ join.case \in JoinCase /\ Taken(join.case)
        /\ PartInv(join.case, join.built, p, join.part[p])
        /\ join.built # <<>> /\ BuiltShape(join.case, join.built[1])
        /\ AHolds(mid, Right(p)) <=> LowerHolds(join.case, join.built[1], mid, RowOf(join.case, p, join.part[p]))
    <2>1. join.part[p].state \notin {"open", "error"}
      BY <1>1
    <2>. QED BY <2>1, JoinReads
  <1>4. /\ LowerHolds(join.case, join.built[1], mid, RowOf(join.case, p, join.part[p])) =>
             PartInv(join.case, join.built, p, [join.part[p] EXCEPT !.hi = mid])
        /\ ~LowerHolds(join.case, join.built[1], mid, RowOf(join.case, p, join.part[p])) =>
             PartInv(join.case, join.built, p, [join.part[p] EXCEPT !.lo = mid + 1])
    BY <1>1, <1>2, <1>3, HalveKeeps
  <1>5. CASE AHolds(mid, Right(p))
    <2>1. Moved(p, [join.part[p] EXCEPT !.hi = mid])
      BY <1>2, <1>5 DEF Halve
    <2>. QED BY <1>3, <1>4, <1>5, <2>1, PartMoves
  <1>6. CASE ~AHolds(mid, Right(p))
    <2>1. Moved(p, [join.part[p] EXCEPT !.lo = mid + 1])
      BY <1>2, <1>6 DEF Halve
    <2>. QED BY <1>3, <1>4, <1>6, <2>1, PartMoves
  <1>. QED BY <1>5, <1>6

\* A search ends.
LEMMA FoundMoves == ASSUME JoinStrong, NEW p \in Partitions, Found(p) PROVE JoinStrong'
  <1>1. /\ join.part[p].state = "search" /\ join.part[p].lo >= join.part[p].hi
        /\ Moved(p, [join.part[p] EXCEPT !.cur.i = join.part[p].lo, !.state = "scan"])
    BY DEF Found, At
  <1>2. /\ join.case \in JoinCase /\ PartInv(join.case, join.built, p, join.part[p])
        /\ join.built # <<>> /\ BuiltShape(join.case, join.built[1])
    <2>1. join.part[p].state \notin {"open", "error"}
      BY <1>1
    <2>. QED BY <2>1, JoinReads
  <1>3. PartInv(join.case, join.built, p, [join.part[p] EXCEPT !.cur.i = join.part[p].lo, !.state = "scan"])
    BY <1>1, <1>2, FoundKeeps
  <1>. QED BY <1>1, <1>2, <1>3, PartMoves

\* A call stops in the middle of a row.
LEMMA PauseMoves == ASSUME JoinStrong, NEW p \in Partitions, Pause(p) PROVE JoinStrong'
  <1>1. /\ join.part[p].state = "scan" /\ Moved(p, [join.part[p] EXCEPT !.state = "open"])
    BY DEF Pause, At
  <1>2. /\ join.case \in JoinCase /\ PartInv(join.case, join.built, p, join.part[p]) /\ join.built # <<>>
    <2>1. join.part[p].state \notin {"open", "error"}
      BY <1>1
    <2>. QED BY <2>1, JoinReads
  <1>3. PartInv(join.case, join.built, p, [join.part[p] EXCEPT !.state = "open"])
    <2>1. "open" \in {"open", "done"} /\ "open" # "done"
      OBVIOUS
    <2>. QED BY <1>2, <2>1, StopKeeps
  <1>. QED BY <1>1, <1>2, <1>3, PartMoves

\* A batch is over.
LEMMA BatchEndsMoves == ASSUME JoinStrong, NEW p \in Partitions, BatchEnds(p) PROVE JoinStrong'
  <1>1. /\ join.part[p].state = "rows" /\ join.part[p].cur.r > Len(join.case.right[p])
        /\ Moved(p, [join.part[p] EXCEPT !.state = "done"])
    BY DEF BatchEnds, At
  <1>2. /\ join.case \in JoinCase /\ PartInv(join.case, join.built, p, join.part[p]) /\ join.built # <<>>
    <2>1. join.part[p].state \notin {"open", "error"}
      BY <1>1
    <2>. QED BY <2>1, JoinReads
  <1>3. PartInv(join.case, join.built, p, [join.part[p] EXCEPT !.state = "done"])
    BY <1>1, <1>2, StopKeeps
  <1>. QED BY <1>1, <1>2, <1>3, PartMoves

\* A row is over.
LEMMA RowEndsMoves == ASSUME JoinStrong, NEW p \in Partitions, RowEnds(p) PROVE JoinStrong'
  <1>1. /\ join.part[p].state = "scan" /\ Moved(p, NextRow(join.part[p]))
        /\ ~(/\ join.part[p].cur.i <= Len(join.built[1].order)
             /\ UpperHolds(join.case, join.built[1], join.built[1].suffixMin[join.part[p].cur.i],
                           RowOf(join.case, p, join.part[p])))
    BY MayMatchReads DEF RowEnds, At
  <1>2. /\ join.case \in JoinCase /\ Taken(join.case) /\ PartInv(join.case, join.built, p, join.part[p])
        /\ join.built # <<>> /\ BuiltShape(join.case, join.built[1])
    <2>1. join.part[p].state \notin {"open", "error"}
      BY <1>1
    <2>. QED BY <2>1, JoinReads
  <1>3. /\ join.part[p].cur.r <= Len(join.case.right[p])
        /\ Met(join.case, join.built, p, join.part[p]) = Matches(join.case, RowOf(join.case, p, join.part[p]))
    BY <1>1, <1>2, ScanOver
  <1>. QED BY <1>1, <1>2, <1>3, NextMoves

\* A candidate is looked at.
LEMMA ExamineMoves == ASSUME JoinStrong, NEW p \in Partitions, Examine(p) PROVE JoinStrong'
  <1>1. PICK t : t = join.part[p]
    OBVIOUS
  <1>2. PICK next : next = [t EXCEPT !.cur.i = t.cur.i + 1, !.steps = @ + 1]
    OBVIOUS
  <1>3. /\ t.state = "scan" /\ ~CallFull(t) /\ MayMatch(p)
        /\ Moved(p, IF BHolds(t.cur.i, Right(p))
                    THEN HandOn([next EXCEPT !.cur.matched = TRUE], <<Built.order[t.cur.i], t.cur.r>>) ELSE next)
    BY <1>1, <1>2 DEF Examine, At
  <1>4. /\ join.case \in JoinCase /\ Taken(join.case) /\ PartInv(join.case, join.built, p, t) /\ t \in Parts
        /\ join.built # <<>> /\ BuiltShape(join.case, join.built[1])
        /\ BHolds(t.cur.i, Right(p)) <=> UpperHolds(join.case, join.built[1], t.cur.i, RowOf(join.case, p, t))
    <2>1. join.part[p].state \notin {"open", "error"}
      BY <1>1, <1>3
    <2>. QED BY <1>1, <2>1, JoinReads
  <1>5. t.cur.i <= Len(join.built[1].order)
    BY <1>1, <1>3, MayMatchReads
  <1>6. CASE ~BHolds(t.cur.i, Right(p))
    <2>1. Moved(p, next)
      BY <1>3, <1>6
    <2>2. t.steps < Steps
      <3>1. t.steps \in Nat /\ Steps \in Nat /\ ~(t.steps >= Steps)
        BY <1>3, <1>4, PartFields, RangeJoinAssumption DEF CallFull
      <3>. QED BY <3>1
    <2>3. PartInv(join.case, join.built, p, next)
      BY <1>2, <1>3, <1>4, <1>5, <1>6, <2>2, PassKeeps
    <2>. QED BY <1>4, <2>1, <2>3, PartMoves
  <1>7. CASE BHolds(t.cur.i, Right(p))
    <2>1. HandOn([next EXCEPT !.cur.matched = TRUE], <<Built.order[t.cur.i], t.cur.r>>) = AfterMatch(join.built, t)
      <3>1. PICK e, m, s, cur : /\ e = <<join.built[1].order[t.cur.i], t.cur.r>> /\ m = t.cur.i + 1 /\ s = t.steps + 1
                                /\ cur = [r |-> t.cur.r, i |-> m, matched |-> TRUE]
        OBVIOUS
      <3>2. /\ t = [cur |-> t.cur, lo |-> t.lo, hi |-> t.hi, steps |-> t.steps, out |-> t.out,
                    chunk |-> t.chunk, state |-> t.state]
            /\ t.cur = [r |-> t.cur.r, i |-> t.cur.i, matched |-> t.cur.matched]
        BY <1>4, PartFields
      <3>3. next = [t EXCEPT !.cur.i = m, !.steps = s]
        BY <1>2, <3>1
      <3>4. PICK moved : moved = [t.cur EXCEPT !.i = m]
        OBVIOUS
      <3>4a. next = [cur |-> moved, lo |-> t.lo, hi |-> t.hi, steps |-> s, out |-> t.out, chunk |-> t.chunk, state |-> t.state]
        BY <3>2, <3>3, <3>4
      <3>4b. cur = [moved EXCEPT !.matched = TRUE]
        <4>1. PICK r, f : r = t.cur.r /\ f = t.cur.matched
          OBVIOUS
        <4>2. moved = [r |-> r, i |-> m, matched |-> f]
          BY <3>2, <3>4, <4>1
        <4>3. cur = [r |-> r, i |-> m, matched |-> TRUE]
          BY <3>1, <4>1
        <4>4. PICK u : u = [moved EXCEPT !.matched = TRUE]
          OBVIOUS
        <4>5. u = [r |-> r, i |-> m, matched |-> TRUE]
          BY <4>2, <4>4
        <4>. QED BY <4>3, <4>4, <4>5
      <3>5. PICK w : w = [next EXCEPT !.cur.matched = TRUE]
        OBVIOUS
      <3>5a. w = [cur |-> cur, lo |-> t.lo, hi |-> t.hi, steps |-> s, out |-> t.out, chunk |-> t.chunk, state |-> t.state]
        BY <3>4a, <3>4b, <3>5
      <3>6. HandOn(w, e) = [cur |-> cur, lo |-> t.lo, hi |-> t.hi, steps |-> s, out |-> Append(t.out, e),
                            chunk |-> Append(t.chunk, e), state |-> t.state]
        <4>1. HandOn(w, e) = [w EXCEPT !.out = Append(w.out, e), !.chunk = Append(w.chunk, e)]
          BY DEF HandOn
        <4>2. w.out = t.out /\ w.chunk = t.chunk
          BY <3>5a
        <4>3. PICK o, ch : o = Append(t.out, e) /\ ch = Append(t.chunk, e)
          OBVIOUS
        <4>4. HandOn(w, e) = [w EXCEPT !.out = o, !.chunk = ch]
          BY <4>1, <4>2, <4>3
        <4>. QED BY <3>5a, <4>3, <4>4
      <3>7. AfterMatch(join.built, t) = [cur |-> cur, lo |-> t.lo, hi |-> t.hi, steps |-> s, out |-> Append(t.out, e),
                            chunk |-> Append(t.chunk, e), state |-> t.state]
        BY <3>1 DEF AfterMatch
      <3>. QED BY <3>1, <3>5, <3>6, <3>7 DEF Built
    <2>2. Moved(p, AfterMatch(join.built, t))
      BY <1>3, <1>7, <2>1
    <2>3. PartInv(join.case, join.built, p, AfterMatch(join.built, t))
      BY <1>3, <1>4, <1>5, <1>7, MatchKeeps
    <2>. QED BY <1>4, <2>2, <2>3, PartMoves
  <1>. QED BY <1>6, <1>7

\* Every step keeps the invariant.
LEMMA JoinMoves == JoinStrong /\ [JoinNext]_join => JoinStrong'
  <1> SUFFICES ASSUME JoinStrong, [JoinNext]_join PROVE JoinStrong'
    OBVIOUS
  <1>1. ASSUME NEW p \in Partitions, JoinSteps(p) PROVE JoinStrong'
    BY <1>1, BuildMoves, CallMoves, RowBeginsMoves, HalveMoves, FoundMoves, PauseMoves, ExamineMoves,
       RowEndsMoves, BatchEndsMoves DEF JoinSteps
  <1>2. CASE Cancel
    BY <1>2, CancelMoves
  <1>3. CASE UNCHANGED join
    BY <1>3 DEF JoinStrong
  <1>. QED BY <1>1, <1>2, <1>3 DEF JoinNext

\* Nothing was handed on that does not match, though the row is not over.
LEMMA MetAreMatches ==
  ASSUME NEW c \in JoinCase, Taken(c), NEW built, built # <<>> => BuiltShape(c, built[1]),
         NEW p \in Partitions, NEW t, PartInv(c, built, p, t), t.cur.r <= Len(c.right[p])
  PROVE  Met(c, built, p, t) \subseteq Matches(c, RowOf(c, p, t))
  <1>1. t \in Parts /\ CursorInv(c, built, p, t) /\ SearchInv(c, built, p, t)
    BY DEF PartInv
  <1>2. CASE t.cur.i = 0
    BY <1>2 DEF Met
  <1>3. CASE t.cur.i # 0
    <2>1. PICK B, n, y, i : B = built[1] /\ n = Len(B.order) /\ y = RowOf(c, p, t) /\ i = t.cur.i
      OBVIOUS
    <2>2. /\ Whole(c, y) /\ y \in JoinRow /\ BuiltShape(c, B)
      BY <1>1, <1>3, <2>1, PartFields DEF CursorInv
    <2>3. i \in Nat /\ n \in Nat /\ i <= n + 1
      <3>1. n \in Nat
        BY <2>1, <2>2 DEF BuiltShape
      <3>. QED BY <3>1, <1>1, <1>3, <2>1, PartFields DEF SearchInv
    <2>4. Matches(c, y) = {B.order[k] : k \in {j \in 1..n : LowerHolds(c, B, j, y) /\ UpperHolds(c, B, j, y)}}
      BY <2>1, <2>2, CandidatesMatch
    <2>5. Met(c, built, p, t) = {B.order[k] : k \in {j \in 1..(i - 1) : LowerHolds(c, B, j, y) /\ UpperHolds(c, B, j, y)}}
      BY <2>1 DEF Met
    <2>6. \A j \in 1..(i - 1) : j \in 1..n
      BY <2>3
    <2>. QED BY <2>1, <2>4, <2>5, <2>6
  <1>. QED BY <1>2, <1>3

\* The invariant says what the join answers.
LEMMA JoinEnough == JoinStrong => JoinInv
  <1> SUFFICES ASSUME JoinStrong PROVE JoinInv
    OBVIOUS
  <1>1. ASSUME NEW p \in Partitions
        PROVE  /\ \A r \in DOMAIN join.case.right[p] :
                    LET given == {k \in DOMAIN join.part[p].out : join.part[p].out[k][2] = r}
                    IN /\ join.part[p].state = "done" \/ r < join.part[p].cur.r =>
                            {join.part[p].out[k][1] : k \in given} = NestedLoop(p, r)
                       /\ {join.part[p].out[k][1] : k \in given} \subseteq NestedLoop(p, r)
                       /\ \A k, l \in given : join.part[p].out[k][1] = join.part[p].out[l][1] => k = l
               /\ \A k \in 1..(Len(join.part[p].out) - 1) : join.part[p].out[k][2] <= join.part[p].out[k + 1][2]
               /\ ChunkInv(join.part[p])
    <2>1. PICK c, built, t : c = join.case /\ built = join.built /\ t = join.part[p]
      OBVIOUS
    <2>2. /\ c \in JoinCase /\ Taken(c)
          /\ built # <<>> => BuiltShape(c, built[1])
          /\ PartInv(c, built, p, t) /\ t \in Parts
      BY <1>1, <2>1, JoinReads
    <2>3. CursorInv(c, built, p, t) /\ GivenInv(c, built, p, t) /\ ChunkInv(t)
      BY <2>2 DEF PartInv
    <2>4. PICK cr : cr = t.cur.r
      OBVIOUS
    <2>5. /\ cr \in Nat \ {0} /\ t.out \in GivenRows /\ Len(c.right[p]) \in Nat /\ DOMAIN c.right[p] = 1..Len(c.right[p])
      BY <1>1, <2>2, <2>4, PartFields
    <2>6. /\ \A r \in 1..(cr - 1) : GivenTo(t.out, r) = Wanted(c, p, r)
          /\ GivenTo(t.out, cr) = Met(c, built, p, t) /\ InOrder(t.out, cr)
      BY <2>3, <2>4 DEF GivenInv
    <2>7. \A k \in DOMAIN t.out : t.out[k] \in Nat \X Nat
      BY <2>5 DEF GivenRows
    <2>8. ASSUME NEW r \in DOMAIN c.right[p]
          PROVE  /\ t.state = "done" \/ r < cr => GivenTo(t.out, r) = Wanted(c, p, r)
                 /\ GivenTo(t.out, r) \subseteq Wanted(c, p, r)
                 /\ \A k, l \in DOMAIN t.out : t.out[k][2] = r /\ t.out[l][2] = r /\ t.out[k][1] = t.out[l][1] => k = l
      <3>1. r \in Nat /\ 1 <= r /\ r <= Len(c.right[p])
        BY <2>5
      <3>2. t.state = "done" => r < cr
        <4>1. t.state = "done" => cr > Len(c.right[p])
          BY <2>3, <2>4 DEF CursorInv
        <4>. QED BY <4>1, <3>1, <2>5
      <3>3. r < cr => GivenTo(t.out, r) = Wanted(c, p, r)
        BY <3>1, <2>5, <2>6
      <3>5. ASSUME r = cr PROVE GivenTo(t.out, r) \subseteq Wanted(c, p, r)
        <4>1. GivenTo(t.out, r) \subseteq Matches(c, c.right[p][r])
          BY <1>1, <3>1, <3>5, <2>2, <2>4, <2>6, MetAreMatches DEF RowOf
        <4>. QED BY <4>1 DEF Wanted
      <3>6. ASSUME r > cr PROVE GivenTo(t.out, r) = {}
        <4>1. \A k \in DOMAIN t.out : t.out[k][2] <= cr /\ t.out[k][2] \in Nat
          BY <2>6, <2>7 DEF InOrder
        <4>2. \A k \in DOMAIN t.out : t.out[k][2] # r
          BY <4>1, <3>1, <3>6, <2>5
        <4>. QED BY <4>2 DEF GivenTo
      <3>7. ASSUME NEW k \in DOMAIN t.out, NEW l \in DOMAIN t.out,
                   t.out[k][2] = r, t.out[l][2] = r, t.out[k][1] = t.out[l][1]
            PROVE  k = l
        <4>1. PICK e, f : e = t.out[k] /\ f = t.out[l]
          OBVIOUS
        <4>2. e \in Nat \X Nat /\ f \in Nat \X Nat
          BY <4>1, <3>7, <2>7
        <4>3. e[1] = f[1] /\ e[2] = f[2]
          BY <4>1, <3>7
        <4>4. e = f
          BY <4>2, <4>3
        <4>. QED BY <4>1, <4>4, <3>7, <2>6 DEF InOrder
      <3>8. r < cr \/ r = cr \/ r > cr
        BY <3>1, <2>5
      <3>9. GivenTo(t.out, r) \subseteq Wanted(c, p, r)
        BY <3>3, <3>5, <3>6, <3>8
      <3>. QED BY <3>2, <3>3, <3>7, <3>9
    <2>9. \A r : NestedLoop(p, r) = Wanted(c, p, r)
      BY <2>1 DEF NestedLoop, Wanted
    <2>10. \A k \in 1..(Len(t.out) - 1) : t.out[k][2] <= t.out[k + 1][2]
      BY <2>6 DEF InOrder
    <2>. QED BY <2>1, <2>3, <2>4, <2>8, <2>9, <2>10 DEF GivenTo
  <1>2. JoinIsTheNestedLoop
    BY <1>1 DEF JoinIsTheNestedLoop
  <1>3. ProbesAreBounded
    BY <1>1 DEF ProbesAreBounded, ChunkInv, MatchesFirst
  <1>. QED BY <1>2, <1>3 DEF JoinInv

\* The sorted join answers as the nested loop it replaces, and its probes are
\* bounded, for any inputs, filter, number of partitions and order of equal
\* bounds (rangejoin.rs, build and probe).
THEOREM JoinIsNestedLoop == JoinSpec => []JoinInv
  <1>1. JoinSpec => []JoinStrong
    BY JoinStarts, JoinMoves, PTL DEF JoinSpec
  <1>. QED BY <1>1, JoinEnough, PTL
=============================================================================
