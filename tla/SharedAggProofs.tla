--------------------------- MODULE SharedAggProofs ---------------------------
(***************************************************************************)
(* The aggregation for any workers, keys, partitions and rows, on words of *)
(* any size: the two-limb accumulator never loses or invents a unit, and   *)
(* it narrows back exactly when the value fits; no row is lost between the *)
(* buffers and the tables; and an answer is exact, within the budget.      *)
(***************************************************************************)
EXTENDS SharedAgg, TLAPS, FiniteSetTheorems, WellFoundedInduction

LEMMA UnsignedRange ==
  ASSUME NEW v \in Word
  PROVE  /\ Unsigned(v) \in 0..(Base - 1)
         /\ Signed(Unsigned(v)) = v
         /\ v = Unsigned(v) + SignLimb(v) * Base
  BY WordsAssumption, SMT DEF Word, Base, Unsigned, Signed, SignLimb

LEMMA SignedRange ==
  ASSUME NEW u \in 0..(Base - 1)
  PROVE  Signed(u) \in Word /\ Unsigned(Signed(u)) = u
  BY WordsAssumption, SMT DEF Word, Base, Unsigned, Signed

LEMMA AccFields ==
  ASSUME NEW w \in BOOLEAN, NEW h \in Int, NEW l \in Word
  PROVE  [wide |-> w, hi |-> h, lo |-> l] \in Acc
  BY DEF Acc

(* Widening an entry does not change what it holds: a negative running sum *)
(* starts with a high limb of -1 (src/exec/agg.rs, PartTable::add).        *)
THEOREM WidenKeepsValue ==
  ASSUME NEW acc \in Acc, ~acc.wide
  PROVE  ValueOf(Widen(acc)) = ValueOf(acc)
  <1>1. acc.lo \in Word BY DEF Acc
  <1>2. acc.lo = Unsigned(acc.lo) + SignLimb(acc.lo) * Base
    BY <1>1, UnsignedRange
  <1>3. Widen(acc).wide /\ Widen(acc).hi = SignLimb(acc.lo) /\ Widen(acc).lo = acc.lo
    BY DEF Widen, Acc, SignLimb
  <1>4. ValueOf(Widen(acc)) = SignLimb(acc.lo) * Base + Unsigned(acc.lo)
    BY <1>3 DEF ValueOf
  <1>5. SignLimb(acc.lo) * Base \in Int /\ Unsigned(acc.lo) \in Int
    BY <1>1, WordsAssumption DEF SignLimb, Base, Unsigned, Word
  <1>. QED
    BY <1>2, <1>4, <1>5 DEF ValueOf

(* Adding to a wide entry adds exactly the word that was added.            *)
THEOREM WideAddExact ==
  ASSUME NEW acc \in Acc, acc.wide, NEW v \in Word
  PROVE  WideAdd(acc, v) \in Acc /\ ValueOf(WideAdd(acc, v)) = ValueOf(acc) + v
  <1> DEFINE s == Unsigned(acc.lo) + Unsigned(v)
             u == s % Base
             new == WideAdd(acc, v)
  <1>b. Base \in Nat /\ Base > 0 BY WordsAssumption DEF Base
  <1>1. acc.lo \in Word /\ acc.hi \in Int BY DEF Acc
  <1>2. /\ Unsigned(acc.lo) \in 0..(Base - 1)
        /\ Unsigned(v) \in 0..(Base - 1)
        /\ v = Unsigned(v) + SignLimb(v) * Base
    BY <1>1, UnsignedRange
  <1>3. u \in 0..(Base - 1) /\ s = u + Carry(acc.lo, v) * Base
    <2>1. CASE s < Base
      BY <2>1, <1>2, <1>b DEF Carry
    <2>2. CASE s >= Base
      <3>1. s - Base \in 0..(Base - 1) /\ s \in Nat
        BY <2>2, <1>2, <1>b
      <3>2. s % Base = s - Base
        BY <3>1, <1>b
      <3>. QED BY <3>1, <3>2, <2>2, <1>b DEF Carry
    <2>. QED BY <2>1, <2>2, <1>2, <1>b
  <1>4. Signed(u) \in Word /\ Unsigned(Signed(u)) = u
    BY <1>3, SignedRange
  <1>5. /\ new.wide = acc.wide /\ new.lo = Signed(u)
        /\ new.hi = acc.hi + SignLimb(v) + Carry(acc.lo, v)
        /\ new \in Acc
    <2> DEFINE h == acc.hi + SignLimb(v) + Carry(acc.lo, v)
    <2>2. new = [wide |-> TRUE, hi |-> h, lo |-> Signed(u)]
      BY DEF WideAdd
    <2>3. h \in Int
      BY <1>1 DEF SignLimb, Carry
    <2>4. Signed(u) \in Word BY <1>4
    <2>. HIDE DEF new, u, h
    <2>5. new \in Acc
      BY <2>2, <2>3, <2>4, AccFields
    <2>6. new.wide = acc.wide /\ new.lo = Signed(u) /\ new.hi = h
      BY <2>2
    <2>. QED BY <2>5, <2>6 DEF h
  <1>6. ValueOf(new) = (acc.hi + SignLimb(v) + Carry(acc.lo, v)) * Base + u
    <2>1. new.wide = TRUE BY <1>5
    <2>. HIDE DEF new, u
    <2>. QED BY <2>1, <1>4, <1>5 DEF ValueOf
  <1>7. ValueOf(acc) = acc.hi * Base + Unsigned(acc.lo)
    BY DEF ValueOf
  <1>8. SignLimb(v) \in {-1, 0} /\ Carry(acc.lo, v) \in {0, 1}
    BY DEF SignLimb, Carry
  <1>9. (acc.hi + SignLimb(v) + Carry(acc.lo, v)) * Base
          = acc.hi * Base + SignLimb(v) * Base + Carry(acc.lo, v) * Base
    BY <1>1, <1>8, <1>b
  <1>10. ValueOf(new) = ValueOf(acc) + v
    <2>1. u \in Int /\ acc.hi * Base \in Int /\ SignLimb(v) * Base \in Int
          /\ Carry(acc.lo, v) * Base \in Int /\ v \in Int
          /\ Unsigned(acc.lo) \in Int /\ Unsigned(v) \in Int
      BY <1>1, <1>2, <1>3, <1>8, <1>b
    <2>2. u = Unsigned(acc.lo) + Unsigned(v) - Carry(acc.lo, v) * Base
      BY <1>3, <2>1
    <2>. HIDE DEF new, u
    <2>. QED BY <1>2, <1>6, <1>7, <1>9, <2>1, <2>2
  <1>. QED BY <1>5, <1>10

(* An entry's final sum is refused exactly when the value it holds does    *)
(* not fit, and is that value otherwise.                                   *)
THEOREM FinalSumExact ==
  ASSUME NEW acc \in Acc
  PROVE  FinalSum(acc) = IF ValueOf(acc) \in Word THEN ValueOf(acc) ELSE NoWord
  <1>b. Base \in Nat /\ Base > 0 /\ Half \in Nat /\ Half > 0 /\ Base = 2 * Half
    BY WordsAssumption DEF Base
  <1>1. acc.lo \in Word /\ acc.hi \in Int BY DEF Acc
  <1>2. /\ Unsigned(acc.lo) \in 0..(Base - 1)
        /\ acc.lo = Unsigned(acc.lo) + SignLimb(acc.lo) * Base
    BY <1>1, UnsignedRange
  <1>3. CASE ~acc.wide
    BY <1>1, <1>3 DEF FinalSum, ValueOf
  <1>4. CASE acc.wide
    <2>v. ValueOf(acc) = acc.hi * Base + Unsigned(acc.lo)
      BY <1>4 DEF ValueOf
    <2>1. CASE acc.hi = 0
      BY <2>1, <2>v, <1>4, <1>1, <1>2, <1>b, SMT
      DEF FinalSum, Narrow, Word, Unsigned, NoWord
    <2>2. CASE acc.hi = -1
      BY <2>2, <2>v, <1>4, <1>1, <1>2, <1>b, SMT
      DEF FinalSum, Narrow, Word, Unsigned, NoWord
    <2>3. CASE acc.hi >= 1
      <3>1. acc.hi * Base >= Base BY <2>3, <1>1, <1>b
      <3>. QED
        BY <3>1, <2>3, <2>v, <1>4, <1>1, <1>2, <1>b DEF FinalSum, Narrow, Word, NoWord
    <2>4. CASE acc.hi <= -2
      <3>1. acc.hi * Base <= -2 * Base BY <2>4, <1>1, <1>b
      <3>. QED
        BY <3>1, <2>4, <2>v, <1>4, <1>1, <1>2, <1>b DEF FinalSum, Narrow, Word, NoWord
    <2>. QED BY <2>1, <2>2, <2>3, <2>4, <1>1
  <1>. QED BY <1>3, <1>4

-----------------------------------------------------------------------------
(* Induction over the naturals, for a set.                                 *)
LEMMA ByInduction ==
  ASSUME NEW S, 0 \in S, \A n \in Nat : n \in S => n + 1 \in S
  PROVE  \A n \in Nat : n \in S
  <1> SUFFICES ASSUME NEW n \in Nat, n \notin S PROVE FALSE
    OBVIOUS
  <1> DEFINE Missing == Nat \ S
  <1>1. Missing \subseteq Nat /\ Missing # {}
    OBVIOUS
  <1>2. PICK m \in Missing : \A k \in Missing : ~(<<k, m>> \in OpToRel(<, Nat))
    BY <1>1, NatLessThanWellFounded, WFMin
  <1>3. \A k \in Missing : ~(k < m)
    BY <1>1, <1>2 DEF OpToRel
  <1>4. m \in Nat /\ m # 0 /\ m \notin S
    OBVIOUS
  <1>5. m - 1 \in Nat /\ m - 1 \in S
    BY <1>3, <1>4
  <1>6. (m - 1) + 1 \in S
    BY <1>5
  <1>. QED BY <1>4, <1>6

-----------------------------------------------------------------------------
(* Sums over a finite set, which the folds take one element at a time.     *)
One(s) == CHOOSE x \in s : TRUE
Adding(f, S, g) ==
  g = [s \in SUBSET S |-> IF s = {} THEN 0 ELSE f[One(s)] + g[s \ {One(s)}]]
Adder(f, S) == CHOOSE g : Adding(f, S, g)

LEMMA SumIs == \A f, S : SumFunctionOnSet(f, S) = Adder(f, S)[S]
  BY DEF SumFunctionOnSet, FoldFunctionOnSet, MapThenFoldSet, Adder, Adding, One
LEMMA OneLess ==
  ASSUME NEW s, IsFiniteSet(s), s # {}
  PROVE  /\ One(s) \in s /\ Cardinality(s) > 0 /\ Cardinality(s) \in Nat
         /\ IsFiniteSet(s \ {One(s)})
         /\ Cardinality(s \ {One(s)}) = Cardinality(s) - 1
  <1>1. One(s) \in s
    BY DEF One
  <1>2. Cardinality(s) # 0 /\ Cardinality(s) \in Nat
    BY FS_EmptySet, FS_CardinalityType
  <1>3. /\ IsFiniteSet(s \ {One(s)})
        /\ Cardinality(s \ {One(s)}) = Cardinality(s) - 1
    BY <1>1, FS_RemoveElement
  <1>. QED BY <1>1, <1>2, <1>3

LEMMA AdderAdds ==
  ASSUME NEW f, NEW S, IsFiniteSet(S)
  PROVE  Adding(f, S, Adder(f, S))
  <1> DEFINE Upto(n, g) == g = [s \in SUBSET S |->
                 IF s = {} THEN 0
                 ELSE IF Cardinality(s) <= n THEN f[One(s)] + g[s \ {One(s)}] ELSE 0]
             I == {n \in Nat : \E g : Upto(n, g)}
  <1>0. \A s \in SUBSET S : Cardinality(s) \in Nat /\ Cardinality(s) <= Cardinality(S)
    BY FS_Subset, FS_CardinalityType
  <1>00. \A s \in SUBSET S : s # {} =>
           /\ Cardinality(s) > 0 /\ s \ {One(s)} \in SUBSET S
           /\ Cardinality(s \ {One(s)}) = Cardinality(s) - 1
    BY OneLess, FS_Subset
  <1>1. 0 \in I
    <2>1. \A s \in SUBSET S : s # {} => ~(Cardinality(s) <= 0)
      <3> TAKE s \in SUBSET S
      <3>1. s # {} => Cardinality(s) > 0
        BY <1>00
      <3>2. Cardinality(s) \in Nat
        BY <1>0
      <3> HIDE DEF Upto, I
      <3>. QED BY <3>1, <3>2
    <2>2. Upto(0, [s \in SUBSET S |-> 0])
      BY <2>1
    <2>. QED BY <2>2
  <1>2. ASSUME NEW n \in Nat, n \in I PROVE n + 1 \in I
    <2>1. PICK g : Upto(n, g)
      BY <1>2
    <2> DEFINE h == [s \in SUBSET S |->
                       IF s = {} THEN 0
                       ELSE IF Cardinality(s) <= n + 1 THEN f[One(s)] + g[s \ {One(s)}] ELSE 0]
    <2>2. \A s \in SUBSET S : Cardinality(s) <= n => h[s] = g[s]
      <3> TAKE s \in SUBSET S
      <3> HAVE Cardinality(s) <= n
      <3>1. g[s] = IF s = {} THEN 0 ELSE f[One(s)] + g[s \ {One(s)}]
        BY <2>1
      <3>2. Cardinality(s) <= n + 1
        <4>1. Cardinality(s) \in Nat
          BY <1>0
        <4> HIDE DEF h, Upto
        <4>. QED BY <4>1
      <3>. QED BY <3>1, <3>2
    <2>3. \A s \in SUBSET S : s # {} /\ Cardinality(s) <= n + 1 =>
            h[s \ {One(s)}] = g[s \ {One(s)}]
      <3> TAKE s \in SUBSET S
      <3> HAVE s # {} /\ Cardinality(s) <= n + 1
      <3>1. s \ {One(s)} \in SUBSET S /\ Cardinality(s \ {One(s)}) <= n
        <4>1. Cardinality(s) \in Nat /\ s \ {One(s)} \in SUBSET S
              /\ Cardinality(s \ {One(s)}) = Cardinality(s) - 1
          BY <1>0, <1>00
        <4> HIDE DEF h, Upto
        <4>. QED BY <4>1
      <3>. QED BY <3>1, <2>2
    <2>4. Upto(n + 1, h)
      <3>1. h = [s \in SUBSET S |->
                   IF s = {} THEN 0
                   ELSE IF Cardinality(s) <= n + 1 THEN f[One(s)] + h[s \ {One(s)}] ELSE 0]
        BY <2>3
      <3>. QED BY <3>1
    <2> HIDE DEF h, Upto
    <2>5. \E k : Upto(n + 1, k)
      BY <2>4
    <2>6. n + 1 \in Nat
      BY <1>2
    <2>. QED BY <2>5, <2>6
  <1> HIDE DEF I
  <1>3. Cardinality(S) \in I
    BY <1>0, <1>1, <1>2, ByInduction, FS_CardinalityType
  <1>4. PICK g : Upto(Cardinality(S), g)
    BY <1>3 DEF I
  <1>5. \A s \in SUBSET S : Cardinality(s) <= Cardinality(S)
    BY <1>0
  <1>6. Adding(f, S, g)
    BY <1>4, <1>5 DEF Adding
  <1>. QED BY <1>6 DEF Adder

(* Two functions that differ at w alone have sums that differ by as much.  *)
LEMMA SumChange ==
  ASSUME NEW S, IsFiniteSet(S), NEW f \in [S -> Int], NEW g \in [S -> Int], NEW w \in S,
         \A x \in S \ {w} : f[x] = g[x]
  PROVE  /\ SumFunctionOnSet(f, S) \in Int
         /\ SumFunctionOnSet(g, S) = SumFunctionOnSet(f, S) + (g[w] - f[w])
  <1> DEFINE F == Adder(f, S)
             G == Adder(g, S)
             I == {n \in Nat : \A s \in SUBSET S : Cardinality(s) = n =>
                     /\ F[s] \in Int /\ G[s] \in Int
                     /\ w \in s => G[s] = F[s] + (g[w] - f[w])
                     /\ w \notin s => G[s] = F[s]}
  <1>1. /\ \A s \in SUBSET S : F[s] = IF s = {} THEN 0 ELSE f[One(s)] + F[s \ {One(s)}]
        /\ \A s \in SUBSET S : G[s] = IF s = {} THEN 0 ELSE g[One(s)] + G[s \ {One(s)}]
    <2>1. Adding(f, S, F) /\ Adding(g, S, G)
      BY AdderAdds
    <2> HIDE DEF F, G
    <2>. QED BY <2>1 DEF Adding
  <1> HIDE DEF F, G
  <1>2. 0 \in I
    <2> SUFFICES ASSUME NEW s \in SUBSET S, Cardinality(s) = 0
                 PROVE  F[s] = 0 /\ G[s] = 0 /\ w \notin s
      OBVIOUS
    <2>1. s = {}
      BY FS_EmptySet, FS_Subset
    <2>. QED BY <1>1, <2>1
  <1>3. ASSUME NEW n \in Nat, n \in I PROVE n + 1 \in I
    <2> SUFFICES ASSUME NEW s \in SUBSET S, Cardinality(s) = n + 1
                 PROVE  /\ F[s] \in Int /\ G[s] \in Int
                        /\ w \in s => G[s] = F[s] + (g[w] - f[w])
                        /\ w \notin s => G[s] = F[s]
      BY <1>3
    <2>1. s # {} /\ IsFiniteSet(s)
      BY FS_EmptySet, FS_Subset
    <2> DEFINE x == One(s)
               t == s \ {x}
    <2>2. x \in s
      BY <2>1 DEF One
    <2>3. t \in SUBSET S /\ Cardinality(t) = n
      BY <2>1, OneLess
    <2>4. F[s] = f[x] + F[t] /\ G[s] = g[x] + G[t]
      BY <1>1, <2>1
    <2> HIDE DEF x
    <2>5. /\ F[t] \in Int /\ G[t] \in Int
          /\ w \in t => G[t] = F[t] + (g[w] - f[w])
          /\ w \notin t => G[t] = F[t]
      BY <1>3, <2>3
    <2>6. f[x] \in Int /\ g[x] \in Int /\ f[w] \in Int /\ g[w] \in Int
      BY <2>2
    <2>7. CASE x = w
      <3>1. w \in s /\ w \notin t
        BY <2>2, <2>7
      <3>. HIDE DEF t
      <3>. QED BY <2>4, <2>5, <2>6, <2>7, <3>1
    <2>8. CASE x # w
      <3>1. f[x] = g[x] /\ (w \in s <=> w \in t)
        BY <2>2, <2>8
      <3>. HIDE DEF t
      <3>. QED BY <2>4, <2>5, <2>6, <3>1
    <2>. QED BY <2>7, <2>8
  <1>4. Cardinality(S) \in Nat
    BY FS_CardinalityType
  <1>5. Cardinality(S) \in I
    <2> HIDE DEF I
    <2>. QED BY <1>2, <1>3, <1>4, ByInduction
  <1>6. F[S] \in Int /\ G[S] = F[S] + (g[w] - f[w])
    BY <1>5
  <1>7. SumFunctionOnSet(f, S) = F[S] /\ SumFunctionOnSet(g, S) = G[S]
    BY SumIs DEF F, G
  <1>. QED BY <1>6, <1>7

(* A sum of zeros is zero.                                                 *)
LEMMA SumOfZeros ==
  ASSUME NEW S, IsFiniteSet(S)
  PROVE  SumFunctionOnSet([x \in S |-> 0], S) = 0
  <1> DEFINE f == [x \in S |-> 0]
             F == Adder(f, S)
             I == {n \in Nat : \A s \in SUBSET S : Cardinality(s) = n => F[s] = 0}
  <1>1. \A s \in SUBSET S : F[s] = IF s = {} THEN 0 ELSE f[One(s)] + F[s \ {One(s)}]
    <2>1. Adding(f, S, F)
      BY AdderAdds
    <2> HIDE DEF F, f
    <2>. QED BY <2>1 DEF Adding
  <1> HIDE DEF F
  <1>2. 0 \in I
    <2> SUFFICES ASSUME NEW s \in SUBSET S, Cardinality(s) = 0
                 PROVE  F[s] = 0
      OBVIOUS
    <2>1. s = {}
      BY FS_EmptySet, FS_Subset
    <2>. QED BY <1>1, <2>1
  <1>3. ASSUME NEW n \in Nat, n \in I PROVE n + 1 \in I
    <2> SUFFICES ASSUME NEW s \in SUBSET S, Cardinality(s) = n + 1
                 PROVE  F[s] = 0
      BY <1>3
    <2>1. s # {} /\ IsFiniteSet(s)
      BY FS_EmptySet, FS_Subset
    <2>2. One(s) \in s
      BY <2>1 DEF One
    <2>3. s \ {One(s)} \in SUBSET S /\ Cardinality(s \ {One(s)}) = n
      <3>1. Cardinality(s \ {One(s)}) = Cardinality(s) - 1
        BY <2>1, OneLess
      <3>2. Cardinality(s \ {One(s)}) = n
        <4> HIDE DEF I, f
        <4>. QED BY <3>1
      <3>. QED BY <3>2
    <2>4. F[s \ {One(s)}] = 0 /\ f[One(s)] = 0
      BY <1>3, <2>2, <2>3
    <2>. QED BY <1>1, <2>1, <2>4
  <1>4. Cardinality(S) \in Nat
    BY FS_CardinalityType
  <1>5. Cardinality(S) \in I
    <2> HIDE DEF I
    <2>. QED BY <1>2, <1>3, <1>4, ByInduction
  <1>6. SumFunctionOnSet(f, S) = F[S]
    BY SumIs DEF F
  <1>. QED BY <1>5, <1>6
-----------------------------------------------------------------------------
(* PartTable::add, on one row.                                             *)
Entry == [wide : BOOLEAN, hi : HiWord, lo : Word]
Slots == [ExtraAggs -> Word \cup {NoWord}]
Tables == [groups : SUBSET Keys, ok : BOOLEAN, acc : [Keys -> Entry], extra : [Keys -> Slots]]
Aggs == 0..(SumArity - 1)

HeldBy(st, k, a) ==
  IF a = 0 THEN ValueOf(st.acc[k]) ELSE IF st.extra[k][a] = NoWord THEN 0 ELSE st.extra[k][a]

LEMMA WordFacts ==
  /\ 0 \in Word /\ 0 \in HiWord /\ -1 \in HiWord /\ NoWord \notin Word
  /\ Word \subseteq Int /\ HiWord \subseteq Int /\ NoWord \in Int
  /\ Entry \subseteq Acc
  <1>1. /\ 0 \in Word /\ 0 \in HiWord /\ -1 \in HiWord /\ NoWord \notin Word
        /\ Word \subseteq Int /\ HiWord \subseteq Int /\ NoWord \in Int
    BY WordsAssumption DEF Word, HiWord, NoWord, Base
  <1>2. Entry \subseteq Acc
    BY <1>1 DEF Entry, Acc
  <1>. QED BY <1>1, <1>2

\* Writing one entry, one slot, or one new group of a table.
WithEntry(st, k, e) == [st EXCEPT !.acc[k] = e]
WithSlot(st, k, a, v) == [st EXCEPT !.extra[k][a] = v]
WithGroup(st, k, e, x) == [st EXCEPT !.groups = @ \cup {k}, !.acc[k] = e, !.extra[k] = x]
NotOk(st) == [st EXCEPT !.ok = FALSE]

LEMMA EntrySet ==
  ASSUME NEW st \in Tables, NEW k \in Keys, NEW e \in Entry,
         NEW t, t = WithEntry(st, k, e)
  PROVE  /\ t \in Tables /\ t.groups = st.groups /\ t.ok = st.ok /\ t.extra = st.extra
         /\ \A j \in Keys : t.acc[j] = IF j = k THEN e ELSE st.acc[j]
  BY DEF Tables, WithEntry

LEMMA SlotSet ==
  ASSUME NEW st \in Tables, NEW k \in Keys, NEW a \in ExtraAggs, NEW v \in Word,
         NEW t, t = WithSlot(st, k, a, v)
  PROVE  /\ t \in Tables /\ t.groups = st.groups /\ t.ok = st.ok /\ t.acc = st.acc
         /\ \A j \in Keys : \A b \in ExtraAggs :
              t.extra[j][b] = IF j = k /\ b = a THEN v ELSE st.extra[j][b]
  BY DEF Tables, WithSlot, Slots

LEMMA Refused ==
  ASSUME NEW st \in Tables, NEW t, t = NotOk(st)
  PROVE  t \in Tables /\ t.groups = st.groups /\ ~t.ok /\ t.acc = st.acc /\ t.extra = st.extra
  BY DEF Tables, NotOk

LEMMA GroupSet ==
  ASSUME NEW st \in Tables, NEW k \in Keys, NEW e \in Entry, NEW x \in Slots,
         NEW t, t = WithGroup(st, k, e, x)
  PROVE  /\ t \in Tables /\ t.groups = st.groups \cup {k} /\ t.ok = st.ok
         /\ \A j \in Keys : /\ t.acc[j] = IF j = k THEN e ELSE st.acc[j]
                            /\ t.extra[j] = IF j = k THEN x ELSE st.extra[j]
  BY DEF Tables, WithGroup

LEMMA TableFields ==
  ASSUME NEW st \in Tables
  PROVE  /\ st.groups \in SUBSET Keys /\ st.ok \in BOOLEAN
         /\ \A k \in Keys : st.acc[k] \in Entry /\ st.extra[k] \in Slots
  BY DEF Tables

LEMMA EntryFields ==
  ASSUME NEW e \in Entry
  PROVE  e.wide \in BOOLEAN /\ e.hi \in HiWord /\ e.lo \in Word /\ e \in Acc
  BY WordFacts DEF Entry

LEMMA EntryMade ==
  ASSUME NEW w \in BOOLEAN, NEW h \in HiWord, NEW l \in Word
  PROVE  [wide |-> w, hi |-> h, lo |-> l] \in Entry
  BY DEF Entry

(* An entry that is added to: a checked add while it fits, two limbs from  *)
(* then on, and refused only when the high limb is full.                   *)
LEMMA EntryAdds ==
  ASSUME NEW e \in Entry, NEW v \in Word,
         NEW w, w = (IF e.wide THEN e ELSE Widen(e))
  PROVE  /\ w \in Entry /\ w.wide /\ ValueOf(w) = ValueOf(e)
         /\ w.hi = (IF e.wide THEN e.hi ELSE IF e.lo < 0 THEN -1 ELSE 0)
         /\ WideAddFits(w.hi, w.lo, v) =>
              /\ WideAdd(w, v) \in Entry
              /\ ValueOf(WideAdd(w, v)) = ValueOf(e) + v
              /\ WideAdd(w, v).hi = w.hi + SignLimb(v) + Carry(w.lo, v)
  <1>1. /\ w \in Entry /\ w.wide /\ ValueOf(w) = ValueOf(e)
        /\ w.hi = (IF e.wide THEN e.hi ELSE IF e.lo < 0 THEN -1 ELSE 0)
    <2>1. CASE e.wide
      BY <2>1
    <2>2. CASE ~e.wide
      <3>1. w = Widen(e)
        BY <2>2
      <3>2. e.lo \in Word /\ e \in Acc
        BY EntryFields
      <3>3. ValueOf(w) = ValueOf(e)
        BY <2>2, <3>1, <3>2, WidenKeepsValue
      <3>4. /\ Widen(e) \in Entry /\ Widen(e).wide
            /\ Widen(e).hi = IF e.lo < 0 THEN -1 ELSE 0
        BY <3>2, WordFacts, EntryMade DEF Widen
      <3>. QED BY <2>2, <3>1, <3>3, <3>4
    <2>3. e.wide \in BOOLEAN
      BY EntryFields
    <2>. QED BY <2>1, <2>2, <2>3
  <1>2. ASSUME WideAddFits(w.hi, w.lo, v)
        PROVE  /\ WideAdd(w, v) \in Entry
               /\ ValueOf(WideAdd(w, v)) = ValueOf(e) + v
               /\ WideAdd(w, v).hi = w.hi + SignLimb(v) + Carry(w.lo, v)
    <2>1. w \in Acc
      BY <1>1, EntryFields
    <2>2. WideAdd(w, v) \in Acc /\ ValueOf(WideAdd(w, v)) = ValueOf(w) + v
      BY <1>1, <2>1, WideAddExact
    <2>3. WideAdd(w, v).hi = w.hi + SignLimb(v) + Carry(w.lo, v)
      BY DEF WideAdd
    <2>4. WideAdd(w, v).hi \in HiWord
      BY <1>2, <2>3 DEF WideAddFits
    <2>5. WideAdd(w, v) \in Entry
      BY <2>2, <2>4 DEF Acc, Entry
    <2>. QED BY <1>1, <2>2, <2>3, <2>5
  <1>. QED BY <1>1, <1>2
LEMMA RowFields ==
  ASSUME NEW r \in Row
  PROVE  /\ r.key \in Keys /\ r.agg \in Aggs /\ r.val \in Word
         /\ r.agg # 0 => r.agg \in ExtraAggs
  BY SharedAggAssumption DEF Row, Aggs, ExtraAggs

LEMMA HeldIsInt ==
  ASSUME NEW st \in Tables, NEW k \in Keys, NEW a \in Aggs
  PROVE  HeldBy(st, k, a) \in Int
  <1>1. st.acc[k] \in Entry /\ st.extra[k] \in Slots
    BY TableFields
  <1>2. CASE a = 0
    <2>1. /\ st.acc[k].wide \in BOOLEAN /\ st.acc[k].hi \in Int /\ st.acc[k].lo \in Word
      BY <1>1, EntryFields, WordFacts
    <2>2. ValueOf(st.acc[k]) \in Int
      <3>1. Base \in Int
        BY WordsAssumption DEF Base
      <3>2. Unsigned(st.acc[k].lo) \in Int /\ st.acc[k].lo \in Int
        <4>1. st.acc[k].lo \in Int
          BY <2>1, WordFacts
        <4>. QED BY <3>1, <4>1 DEF Unsigned
      <3>3. st.acc[k].hi * Base \in Int
        BY <2>1, <3>1
      <3>. QED BY <3>2, <3>3 DEF ValueOf
    <2>. QED BY <1>2, <2>2 DEF HeldBy
  <1>3. CASE a # 0
    <2>1. a \in ExtraAggs
      BY <1>3, SharedAggAssumption DEF Aggs, ExtraAggs
    <2>2. st.extra[k][a] \in Word \cup {NoWord}
      BY <1>1, <2>1 DEF Slots
    <2>. QED BY <1>3, <2>2, WordFacts DEF HeldBy
  <1>. QED BY <1>2, <1>3

\* What a row is worth to an aggregate of a key.
Worth(r, k, a) == IF k = r.key /\ a = r.agg THEN r.val ELSE 0
AddsUp(st, t, r) == \A k \in Keys : \A a \in Aggs : HeldBy(t, k, a) = HeldBy(st, k, a) + Worth(r, k, a)

LEMMA InsertAdds ==
  ASSUME NEW st \in Tables, NEW r \in Row, r.key \notin st.groups
  PROVE  LET t == Insert(st, r)
         IN  /\ t \in Tables /\ t.groups = st.groups \cup {r.key} /\ t.ok = st.ok
             /\ \A k \in Keys : t.acc[k].hi = IF k = r.key THEN 0 ELSE st.acc[k].hi
             /\ (\A a \in Aggs : HeldBy(st, r.key, a) = 0) => AddsUp(st, t, r)
  <1> DEFINE k == r.key
             e == Narrowed(IF r.agg = 0 THEN r.val ELSE 0)
             x == IF r.agg = 0 THEN st.extra[k] ELSE [st.extra[k] EXCEPT ![r.agg] = r.val]
             t == Insert(st, r)
  <1>r. /\ k \in Keys /\ r.agg \in Aggs /\ r.val \in Word
        /\ r.agg # 0 => r.agg \in ExtraAggs
    BY RowFields
  <1>s. st.extra[k] \in Slots /\ \A j \in Keys : st.extra[j] \in Slots
    BY <1>r, TableFields
  <1>e. e \in Entry /\ e.wide = FALSE /\ e.hi = 0 /\ e.lo = IF r.agg = 0 THEN r.val ELSE 0
    BY <1>r, WordFacts, EntryMade DEF Narrowed
  <1>x. /\ x \in Slots
        /\ \A a \in ExtraAggs : x[a] = IF a = r.agg THEN r.val ELSE st.extra[k][a]
    <2>1. CASE r.agg = 0
      <3>1. \A a \in ExtraAggs : a # r.agg
        BY <2>1 DEF ExtraAggs
      <3>. QED BY <1>s, <2>1, <3>1
    <2>2. CASE r.agg # 0
      BY <1>r, <1>s, <2>2 DEF Slots
    <2>. QED BY <2>1, <2>2
  <1>t. t = WithGroup(st, k, e, x)
    BY DEF Insert, WithGroup
  <1> HIDE DEF t, e, x
  <1>1. /\ t \in Tables /\ t.groups = st.groups \cup {k} /\ t.ok = st.ok
        /\ \A j \in Keys : /\ t.acc[j] = IF j = k THEN e ELSE st.acc[j]
                           /\ t.extra[j] = IF j = k THEN x ELSE st.extra[j]
    BY <1>e, <1>r, <1>t, <1>x, GroupSet
  <1>2. \A j \in Keys : t.acc[j].hi = IF j = k THEN 0 ELSE st.acc[j].hi
    BY <1>1, <1>e
  <1>3. ASSUME \A a \in Aggs : HeldBy(st, k, a) = 0
        PROVE  AddsUp(st, t, r)
    <2> SUFFICES ASSUME NEW j \in Keys, NEW a \in Aggs
                 PROVE  HeldBy(t, j, a) = HeldBy(st, j, a) + Worth(r, j, a)
      BY DEF AddsUp
    <2>h. HeldBy(st, j, a) \in Int
      BY HeldIsInt
    <2>1. CASE j # k
      <3>1. HeldBy(t, j, a) = HeldBy(st, j, a) /\ Worth(r, j, a) = 0
        BY <1>1, <2>1 DEF HeldBy, Worth
      <3>. QED BY <2>h, <3>1
    <2>2. CASE j = k /\ a = 0
      <3>1. HeldBy(t, j, a) = e.lo
        BY <1>1, <1>e, <2>2, <1>r DEF HeldBy, ValueOf
      <3>2. HeldBy(st, j, a) = 0
        BY <1>3, <2>2
      <3>3. Worth(r, j, a) = e.lo
        BY <1>e, <2>2 DEF Worth
      <3>4. e.lo \in Int
        BY <1>e, <1>r, WordFacts
      <3>. QED BY <3>1, <3>2, <3>3, <3>4
    <2>3. CASE j = k /\ a # 0
      <3>1. a \in ExtraAggs
        BY <2>3, SharedAggAssumption DEF Aggs, ExtraAggs
      <3>2. HeldBy(st, j, a) = 0
        BY <1>3, <2>3
      <3>3. HeldBy(t, j, a) = IF x[a] = NoWord THEN 0 ELSE x[a]
        BY <1>1, <1>r, <2>3 DEF HeldBy
      <3>4. CASE a = r.agg
        <4>1. x[a] = r.val /\ r.val # NoWord
          BY <1>x, <1>r, <3>1, <3>4, WordFacts
        <4>2. Worth(r, j, a) = r.val
          BY <2>3, <3>4 DEF Worth
        <4>3. r.val \in Int
          BY <1>r, WordFacts
        <4>. QED BY <3>2, <3>3, <4>1, <4>2, <4>3
      <3>5. CASE a # r.agg
        <4>1. HeldBy(t, j, a) = HeldBy(st, j, a)
          BY <1>x, <2>3, <3>1, <3>3, <3>5 DEF HeldBy
        <4>2. Worth(r, j, a) = 0
          BY <3>5 DEF Worth
        <4>. QED BY <3>2, <4>1, <4>2
      <3>. QED BY <3>4, <3>5
    <2>. QED BY <2>1, <2>2, <2>3
  <1>. QED BY <1>1, <1>2, <1>3 DEF t

LEMMA InlineAdds ==
  ASSUME NEW st \in Tables, NEW r \in Row, r.agg = 0
  PROVE  LET t == AddInline(st, r)
         IN  /\ t \in Tables /\ t.groups = st.groups
             /\ t.ok => AddsUp(st, t, r)
             /\ \A c \in Nat :
                  c >= 1 /\ -c <= st.acc[r.key].hi /\ st.acc[r.key].hi <= c =>
                    /\ \A k \in Keys : k # r.key => t.acc[k] = st.acc[k]
                    /\ -(c + 1) <= t.acc[r.key].hi /\ t.acc[r.key].hi <= c + 1
                    /\ st.ok /\ c + 1 < HiHalf => t.ok
  <1> DEFINE k == r.key
             v == r.val
             e == st.acc[k]
             w == IF e.wide THEN e ELSE Widen(e)
             sum == CheckedAdd(e.lo, v)
             n == [e EXCEPT !.lo = sum]
             t == AddInline(st, r)
  <1>r. k \in Keys /\ v \in Word /\ 0 \in Aggs
    BY RowFields, SharedAggAssumption DEF Aggs
  <1>e. e \in Entry /\ e.hi \in Int /\ e.lo \in Word /\ e.wide \in BOOLEAN
    BY <1>r, TableFields, EntryFields, WordFacts
  <1>w. /\ w \in Entry /\ w.wide /\ w.hi = (IF e.wide THEN e.hi ELSE IF e.lo < 0 THEN -1 ELSE 0)
        /\ WideAddFits(w.hi, w.lo, v) =>
             /\ WideAdd(w, v) \in Entry
             /\ ValueOf(WideAdd(w, v)) = ValueOf(e) + v
             /\ WideAdd(w, v).hi = w.hi + SignLimb(v) + Carry(w.lo, v)
    BY <1>e, <1>r, EntryAdds
  <1>t. t = IF ~e.wide /\ sum # NoWord THEN WithEntry(st, k, n)
            ELSE IF WideAddFits(w.hi, w.lo, v) THEN WithEntry(st, k, WideAdd(w, v))
            ELSE NotOk(st)
    BY DEF AddInline, WithEntry, NotOk
  <1>n. ~e.wide /\ sum # NoWord =>
          n \in Entry /\ ValueOf(n) = ValueOf(e) + v /\ n.hi = e.hi
    <2> HAVE ~e.wide /\ sum # NoWord
    <2>1. sum \in Word /\ sum = e.lo + v
      BY DEF CheckedAdd
    <2>2. n \in Entry /\ n.wide = e.wide /\ n.lo = sum /\ n.hi = e.hi
      BY <1>e, <2>1 DEF Entry
    <2>. QED BY <2>1, <2>2 DEF ValueOf
  <1>h. \A b \in Aggs : \A j \in Keys : HeldBy(st, j, b) \in Int
    BY HeldIsInt
  <1>v. v \in Int
    BY <1>r, WordFacts
  <1> HIDE DEF t, w, n, sum
  \* Writing an entry worth v more is adding the row.
  <1>1. ASSUME NEW f \in Entry, t = WithEntry(st, k, f), ValueOf(f) = ValueOf(e) + v
        PROVE  /\ t \in Tables /\ t.groups = st.groups /\ t.ok = st.ok /\ t.acc[k] = f
               /\ \A j \in Keys : j # k => t.acc[j] = st.acc[j]
               /\ AddsUp(st, t, r)
    <2>1. /\ t \in Tables /\ t.groups = st.groups /\ t.ok = st.ok /\ t.extra = st.extra
          /\ \A j \in Keys : t.acc[j] = IF j = k THEN f ELSE st.acc[j]
      BY <1>1, <1>r, EntrySet
    <2>2. AddsUp(st, t, r)
      <3> SUFFICES ASSUME NEW j \in Keys, NEW b \in Aggs
                   PROVE  HeldBy(t, j, b) = HeldBy(st, j, b) + Worth(r, j, b)
        BY DEF AddsUp
      <3>1. CASE j = k /\ b = 0
        <4>1. HeldBy(t, j, b) = ValueOf(f) /\ HeldBy(st, j, b) = ValueOf(e) /\ Worth(r, j, b) = v
          BY <2>1, <3>1, <1>r DEF HeldBy, Worth
        <4>. QED BY <4>1, <1>1
      <3>2. CASE ~(j = k /\ b = 0)
        <4>1. HeldBy(t, j, b) = HeldBy(st, j, b)
          BY <2>1, <3>2 DEF HeldBy
        <4>2. Worth(r, j, b) = 0
          BY <3>2 DEF Worth
        <4>. QED BY <1>h, <4>1, <4>2
      <3>. QED BY <3>1, <3>2
    <2>. QED BY <2>1, <2>2, <1>r
  <1>2. CASE ~e.wide /\ sum # NoWord
    <2>1. t = WithEntry(st, k, n) /\ n \in Entry /\ ValueOf(n) = ValueOf(e) + v /\ n.hi = e.hi
      BY <1>2, <1>n, <1>t
    <2>2. /\ t \in Tables /\ t.groups = st.groups /\ t.ok = st.ok /\ t.acc[k] = n
          /\ \A j \in Keys : j # k => t.acc[j] = st.acc[j]
          /\ AddsUp(st, t, r)
      BY <1>1, <2>1
    <2>3. \A c \in Nat : -c <= e.hi /\ e.hi <= c => -(c + 1) <= n.hi /\ n.hi <= c + 1
      BY <1>e, <2>1
    <2>. QED BY <2>2, <2>3 DEF t
  <1>3. CASE ~(~e.wide /\ sum # NoWord) /\ WideAddFits(w.hi, w.lo, v)
    <2> DEFINE f == WideAdd(w, v)
    <2>1. /\ t = WithEntry(st, k, f) /\ f \in Entry /\ ValueOf(f) = ValueOf(e) + v
          /\ f.hi = w.hi + SignLimb(v) + Carry(w.lo, v)
      BY <1>3, <1>t, <1>w
    <2> HIDE DEF f
    <2>2. /\ t \in Tables /\ t.groups = st.groups /\ t.ok = st.ok /\ t.acc[k] = f
          /\ \A j \in Keys : j # k => t.acc[j] = st.acc[j]
          /\ AddsUp(st, t, r)
      BY <1>1, <2>1
    <2>3. \A c \in Nat : c >= 1 /\ -c <= e.hi /\ e.hi <= c => -(c + 1) <= f.hi /\ f.hi <= c + 1
      <3>1. SignLimb(v) \in {-1, 0} /\ Carry(w.lo, v) \in {0, 1}
        BY DEF SignLimb, Carry
      <3>2. w.hi = e.hi \/ w.hi \in {-1, 0}
        BY <1>w
      <3>. QED BY <1>e, <2>1, <3>1, <3>2
    <2>. QED BY <2>2, <2>3 DEF t
  <1>4. CASE ~(~e.wide /\ sum # NoWord) /\ ~WideAddFits(w.hi, w.lo, v)
    <2>1. t = NotOk(st)
      BY <1>4, <1>t
    <2>2. t \in Tables /\ t.groups = st.groups /\ ~t.ok /\ t.acc = st.acc
      BY <2>1, Refused
    <2>3. \A c \in Nat : -c <= e.hi /\ e.hi <= c => -(c + 1) <= e.hi /\ e.hi <= c + 1
      BY <1>e
    <2>4. ASSUME NEW c \in Nat, c >= 1, -c <= e.hi, e.hi <= c, c + 1 < HiHalf
          PROVE  FALSE
      <3>1. SignLimb(v) \in {-1, 0} /\ Carry(w.lo, v) \in {0, 1}
        BY DEF SignLimb, Carry
      <3>2. w.hi = e.hi \/ w.hi \in {-1, 0}
        BY <1>w
      <3>3. WideAddFits(w.hi, w.lo, v)
        BY <1>e, <2>4, <3>1, <3>2, WordsAssumption DEF WideAddFits, HiWord
      <3>. QED BY <1>4, <3>3
    <2>. QED BY <2>2, <2>3, <2>4 DEF t
  <1>. QED BY <1>2, <1>3, <1>4

LEMMA ExtraAdds ==
  ASSUME NEW st \in Tables, NEW r \in Row, r.agg # 0
  PROVE  LET t == AddExtra(st, r)
         IN  /\ t \in Tables /\ t.groups = st.groups /\ t.acc = st.acc
             /\ t.ok => AddsUp(st, t, r)
  <1> DEFINE k == r.key
             a == r.agg
             v == r.val
             slot == st.extra[k][a]
             old == IF slot = NoWord THEN 0 ELSE slot
             sum == CheckedAdd(old, v)
             t == AddExtra(st, r)
  <1>r. k \in Keys /\ v \in Word /\ a \in ExtraAggs /\ a \in Aggs /\ v \in Int
    BY RowFields, WordFacts
  <1>s. old \in Word /\ HeldBy(st, k, a) = old
    <2>1. st.extra[k] \in Slots
      BY <1>r, TableFields
    <2>2. slot \in Word \cup {NoWord}
      BY <1>r, <2>1 DEF Slots
    <2>. QED BY <2>2, WordFacts DEF HeldBy
  <1>t. t = IF sum = NoWord THEN NotOk(st) ELSE WithSlot(st, k, a, sum)
    BY DEF AddExtra, WithSlot, NotOk
  <1>n. sum # NoWord => sum \in Word /\ sum = old + v
    BY DEF CheckedAdd
  <1> HIDE DEF t, sum, old
  <1>1. CASE sum = NoWord
    <2>1. t \in Tables /\ t.groups = st.groups /\ ~t.ok /\ t.acc = st.acc
      BY <1>1, <1>t, Refused
    <2>. QED BY <2>1 DEF t
  <1>2. CASE sum # NoWord
    <2>1. /\ t \in Tables /\ t.groups = st.groups /\ t.ok = st.ok /\ t.acc = st.acc
          /\ \A j \in Keys : \A b \in ExtraAggs :
               t.extra[j][b] = IF j = k /\ b = a THEN sum ELSE st.extra[j][b]
      BY <1>2, <1>n, <1>r, <1>t, SlotSet
    <2>2. AddsUp(st, t, r)
      <3> SUFFICES ASSUME NEW j \in Keys, NEW b \in Aggs
                   PROVE  HeldBy(t, j, b) = HeldBy(st, j, b) + Worth(r, j, b)
        BY DEF AddsUp
      <3>1. CASE j = k /\ b = a
        <4>1. t.extra[j][b] = sum /\ sum # NoWord
          BY <1>2, <1>r, <2>1, <3>1
        <4>2. HeldBy(t, j, b) = sum /\ HeldBy(st, j, b) = old /\ Worth(r, j, b) = v
          BY <4>1, <3>1, <1>s DEF HeldBy, Worth
        <4>. QED BY <4>2, <1>n, <1>2
      <3>2. CASE ~(j = k /\ b = a)
        <4>1. b = 0 \/ b \in ExtraAggs
          BY SharedAggAssumption DEF Aggs, ExtraAggs
        <4>2. HeldBy(t, j, b) = HeldBy(st, j, b)
          BY <2>1, <3>2, <4>1 DEF HeldBy
        <4>3. Worth(r, j, b) = 0
          BY <3>2 DEF Worth
        <4>4. HeldBy(st, j, b) \in Int
          BY HeldIsInt
        <4>. QED BY <4>2, <4>3, <4>4
      <3>. QED BY <3>1, <3>2
    <2>. QED BY <2>1, <2>2 DEF t
  <1>. QED BY <1>1, <1>2
\* High limbs within c of zero.
Within(st, c) == \A k \in Keys : -c <= st.acc[k].hi /\ st.acc[k].hi <= c

(* PartTable::add keeps a table a table, takes the row's key alone, adds   *)
(* the row's value to the row's aggregate alone, and moves a high limb by  *)
(* one at most.                                                            *)
LEMMA RowAdded ==
  ASSUME NEW st \in Tables, NEW r \in Row, NEW t, t = AddRow(st, r)
  PROVE  /\ t \in Tables
         /\ st.groups \subseteq t.groups /\ t.groups \subseteq st.groups \cup {r.key}
         /\ t.ok => st.ok
         /\ t.ok /\ (r.key \notin st.groups => \A a \in Aggs : HeldBy(st, r.key, a) = 0) =>
              t.groups = st.groups \cup {r.key} /\ AddsUp(st, t, r)
         /\ \A c \in Nat : (r.key \in st.groups => c >= 1) /\ Within(st, c) =>
              /\ Within(t, c + 1)
              /\ st.ok /\ r.agg = 0 /\ c + 1 < HiHalf => t.ok
  <1>r. r.key \in Keys
    BY RowFields
  <1>h. \A c \in Nat : \A h \in Int : -c <= h /\ h <= c => -(c + 1) <= h /\ h <= c + 1
    OBVIOUS
  <1>i. \A k \in Keys : st.acc[k].hi \in Int
    BY TableFields, EntryFields, WordFacts
  <1>w. \A c \in Nat : Within(st, c) => Within(st, c + 1)
    BY <1>h, <1>i DEF Within
  <1>1. CASE ~st.ok
    <2>1. t = st
      BY <1>1 DEF AddRow
    <2>. QED BY <1>1, <1>w, <2>1
  <1>2. CASE st.ok /\ r.key \notin st.groups
    <2>1. t = Insert(st, r)
      BY <1>2 DEF AddRow
    <2>2. /\ t \in Tables /\ t.groups = st.groups \cup {r.key} /\ t.ok = st.ok
          /\ \A k \in Keys : t.acc[k].hi = IF k = r.key THEN 0 ELSE st.acc[k].hi
          /\ (\A a \in Aggs : HeldBy(st, r.key, a) = 0) => AddsUp(st, t, r)
      <3>1. r.key \notin st.groups
        BY <1>2
      <3>. QED BY <2>1, <3>1, InsertAdds
    <2>3. \A c \in Nat : -(c + 1) <= 0 /\ 0 <= c + 1
      OBVIOUS
    <2>4. \A c \in Nat : Within(st, c) => Within(t, c + 1)
      BY <1>w, <2>2, <2>3 DEF Within
    <2>. QED BY <1>2, <2>2, <2>4
  <1>3. CASE st.ok /\ r.key \in st.groups /\ r.agg = 0
    <2>1. t = AddInline(st, r)
      BY <1>3 DEF AddRow
    <2>2. /\ t \in Tables /\ t.groups = st.groups
          /\ t.ok => AddsUp(st, t, r)
          /\ \A c \in Nat :
               c >= 1 /\ -c <= st.acc[r.key].hi /\ st.acc[r.key].hi <= c =>
                 /\ \A k \in Keys : k # r.key => t.acc[k] = st.acc[k]
                 /\ -(c + 1) <= t.acc[r.key].hi /\ t.acc[r.key].hi <= c + 1
                 /\ st.ok /\ c + 1 < HiHalf => t.ok
      BY <1>3, <2>1, InlineAdds
    <2>3. \A c \in Nat : c >= 1 /\ Within(st, c) =>
            /\ Within(t, c + 1)
            /\ st.ok /\ c + 1 < HiHalf => t.ok
      <3> SUFFICES ASSUME NEW c \in Nat, c >= 1, Within(st, c)
                   PROVE  Within(t, c + 1) /\ (st.ok /\ c + 1 < HiHalf => t.ok)
        OBVIOUS
      <3>1. /\ \A k \in Keys : k # r.key => t.acc[k] = st.acc[k]
            /\ -(c + 1) <= t.acc[r.key].hi /\ t.acc[r.key].hi <= c + 1
            /\ st.ok /\ c + 1 < HiHalf => t.ok
        BY <1>r, <2>2 DEF Within
      <3>2. Within(st, c + 1)
        BY <1>w
      <3>. QED BY <3>1, <3>2 DEF Within
    <2>4. st.groups \cup {r.key} = st.groups
      BY <1>3
    <2>. QED BY <1>3, <2>2, <2>3, <2>4
  <1>4. CASE st.ok /\ r.key \in st.groups /\ r.agg # 0
    <2>1. t = AddExtra(st, r)
      BY <1>4 DEF AddRow
    <2>2. /\ t \in Tables /\ t.groups = st.groups /\ t.acc = st.acc
          /\ t.ok => AddsUp(st, t, r)
      BY <1>4, <2>1, ExtraAdds
    <2>3. \A c \in Nat : Within(st, c) => Within(t, c + 1)
      BY <1>w, <2>2 DEF Within
    <2>4. st.groups \cup {r.key} = st.groups
      BY <1>4
    <2>. QED BY <1>4, <2>2, <2>3, <2>4
  <1>. QED BY <1>1, <1>2, <1>3, <1>4

-----------------------------------------------------------------------------
(* What a set of rows adds up to.                                          *)
LEMMA PlacesFinite ==
  ASSUME input \in Inputs
  PROVE  /\ IsFiniteSet(Places)
         /\ \A x \in Places : RowAt(x) \in Row
         /\ \A w \in Workers : \A i \in 1..Len(input[w]) :
              <<w, i>> \in Places /\ RowAt(<<w, i>>) = input[w][i]
  <1> DEFINE Of(w) == {w} \X DOMAIN input[w]
             f == [w \in Workers |-> Of(w)]
             T == {Of(w) : w \in Workers}
  <1>1. \A w \in Workers : input[w] \in Seq(Row)
    BY SharedAggAssumption
  <1>2. \A w \in Workers : DOMAIN input[w] = 1..Len(input[w]) /\ Len(input[w]) \in Nat
    BY <1>1
  <1>3. \A w \in Workers : IsFiniteSet(Of(w))
    <2> TAKE w \in Workers
    <2>1. IsFiniteSet({w})
      BY FS_Singleton
    <2>2. IsFiniteSet(DOMAIN input[w])
      BY <1>2, FS_Interval
    <2>. QED BY <2>1, <2>2, FS_Product
  <1>4. IsFiniteSet(T)
    <2>1. f \in Surjection(Workers, T)
      BY DEF Surjection
    <2>2. IsFiniteSet(Workers)
      BY SharedAggAssumption
    <2> HIDE DEF f, T
    <2>. QED BY <2>1, <2>2, FS_Surjection
  <1>5. \A U \in T : IsFiniteSet(U)
    BY <1>3
  <1>6. IsFiniteSet(UNION T)
    <2> HIDE DEF T
    <2>. QED BY <1>4, <1>5, FS_UNION
  <1>7. Places = UNION T
    BY DEF Places
  <1>8. \A x \in Places : RowAt(x) \in Row
    <2> TAKE x \in Places
    <2>1. PICK w \in Workers : x \in {w} \X DOMAIN input[w]
      BY DEF Places
    <2>2. x[1] = w /\ x[2] \in 1..Len(input[w])
      BY <1>2, <2>1
    <2>3. input[w][x[2]] \in Row
      BY <1>1, <2>2
    <2>. QED BY <2>2, <2>3 DEF RowAt
  <1>9. \A w \in Workers : \A i \in 1..Len(input[w]) :
          <<w, i>> \in Places /\ RowAt(<<w, i>>) = input[w][i]
    BY <1>2 DEF Places, RowAt
  <1>. QED BY <1>6, <1>7, <1>8, <1>9

LEMMA SumAdds ==
  ASSUME input \in Inputs, NEW C \in SUBSET Places, NEW x \in Places \ C,
         NEW k \in Keys, NEW a \in Aggs
  PROVE  SumOf(C \cup {x}, k, a) = SumOf(C, k, a) + Worth(RowAt(x), k, a)
  <1> DEFINE f == [y \in Places |-> IF y \in C /\ RowAt(y).key = k /\ RowAt(y).agg = a
                                   THEN RowAt(y).val ELSE 0]
             g == [y \in Places |-> IF y \in C \cup {x} /\ RowAt(y).key = k /\ RowAt(y).agg = a
                                   THEN RowAt(y).val ELSE 0]
  <1>1. \A y \in Places : RowAt(y) \in Row
    BY PlacesFinite
  <1>2. \A y \in Places : RowAt(y).val \in Int
    BY <1>1, RowFields, WordFacts
  <1>3. f \in [Places -> Int] /\ g \in [Places -> Int]
    BY <1>2
  <1>4. \A y \in Places \ {x} : f[y] = g[y]
    OBVIOUS
  <1>5. f[x] = 0 /\ g[x] = Worth(RowAt(x), k, a)
    BY DEF Worth
  <1>6. SumOf(C, k, a) = SumFunctionOnSet(f, Places)
        /\ SumOf(C \cup {x}, k, a) = SumFunctionOnSet(g, Places)
    BY DEF SumOf
  <1>7. IsFiniteSet(Places) /\ x \in Places
    BY PlacesFinite
  <1>8. Worth(RowAt(x), k, a) \in Int
    BY <1>2 DEF Worth
  <1> HIDE DEF f, g
  <1>9. /\ SumFunctionOnSet(f, Places) \in Int
        /\ SumFunctionOnSet(g, Places) = SumFunctionOnSet(f, Places) + (g[x] - f[x])
    BY <1>3, <1>4, <1>7, SumChange
  <1>. QED BY <1>5, <1>6, <1>8, <1>9

LEMMA SumOfNone ==
  ASSUME input \in Inputs, NEW C, NEW k, NEW a, \A x \in C \cap Places : RowAt(x).key # k
  PROVE  SumOf(C, k, a) = 0
  <1>1. SumOf(C, k, a) = SumFunctionOnSet([x \in Places |-> 0], Places)
    <2>1. \A x \in Places : (IF x \in C /\ RowAt(x).key = k /\ RowAt(x).agg = a
                             THEN RowAt(x).val ELSE 0) = 0
      OBVIOUS
    <2>2. [x \in Places |-> IF x \in C /\ RowAt(x).key = k /\ RowAt(x).agg = a
                            THEN RowAt(x).val ELSE 0] = [x \in Places |-> 0]
      BY <2>1
    <2>. QED BY <2>2 DEF SumOf
  <1>. QED BY <1>1, PlacesFinite, SumOfZeros
-----------------------------------------------------------------------------
(* A table that holds the rows of C: their keys have groups, and every     *)
(* aggregate is their sum, with no more in a high limb than there are rows *)
(* to have carried into it.                                                *)
Holds(st, C) ==
  /\ st.groups = {RowAt(x).key : x \in C}
  /\ \A k \in Keys : \A a \in Aggs : HeldBy(st, k, a) = SumOf(C, k, a)
  /\ Within(st, Cardinality(C))

\* Rows that no high limb is too small for.
Light(r) == r.agg = 0 /\ RowsFit

LEMMA HoldsOneMore ==
  ASSUME input \in Inputs, NEW st \in Tables, NEW C \in SUBSET Places, NEW x \in Places \ C,
         Holds(st, C), NEW t, t = AddRow(st, RowAt(x))
  PROVE  /\ t.ok => Holds(t, C \cup {x})
         /\ st.ok /\ Light(RowAt(x)) => t.ok
  <1> DEFINE r == RowAt(x)
             c == Cardinality(C)
  <1>r. r \in Row
    BY PlacesFinite
  <1>c. c \in Nat /\ Cardinality(C \cup {x}) = c + 1 /\ c + 1 <= Cardinality(Places)
        /\ (C # {} => c >= 1)
    <2>1. IsFiniteSet(C) /\ IsFiniteSet(C \cup {x}) /\ IsFiniteSet(Places)
      BY PlacesFinite, FS_Subset
    <2>2. Cardinality(C \cup {x}) = c + 1 /\ c \in Nat
      BY <2>1, FS_AddElement, FS_CardinalityType
    <2>3. Cardinality(C \cup {x}) <= Cardinality(Places)
      BY <2>1, FS_Subset
    <2>4. C # {} => c # 0
      BY <2>1, FS_EmptySet
    <2>. QED BY <2>2, <2>3, <2>4
  <1>g. (r.key \in st.groups => c >= 1) /\ Within(st, c)
    <2>1. st.groups # {} => C # {}
      BY DEF Holds
    <2>. QED BY <1>c, <2>1 DEF Holds
  <1>z. r.key \notin st.groups => \A a \in Aggs : HeldBy(st, r.key, a) = 0
    <2> SUFFICES ASSUME r.key \notin st.groups, NEW a \in Aggs
                 PROVE  HeldBy(st, r.key, a) = 0
      OBVIOUS
    <2>1. \A y \in C \cap Places : RowAt(y).key # r.key
      BY DEF Holds
    <2>2. SumOf(C, r.key, a) = 0
      BY <2>1, SumOfNone
    <2>3. r.key \in Keys
      BY <1>r, RowFields
    <2>. QED BY <2>2, <2>3 DEF Holds
  <1>a. /\ t \in Tables
        /\ t.ok => t.groups = st.groups \cup {r.key} /\ AddsUp(st, t, r)
        /\ Within(t, c + 1)
        /\ st.ok /\ r.agg = 0 /\ c + 1 < HiHalf => t.ok
    BY <1>r, <1>c, <1>g, <1>z, RowAdded
  <1>1. ASSUME t.ok PROVE Holds(t, C \cup {x})
    <2>1. t.groups = {RowAt(y).key : y \in C \cup {x}}
      BY <1>1, <1>a DEF Holds
    <2>2. ASSUME NEW k \in Keys, NEW a \in Aggs
          PROVE  HeldBy(t, k, a) = SumOf(C \cup {x}, k, a)
      <3>1. HeldBy(t, k, a) = HeldBy(st, k, a) + Worth(r, k, a)
        BY <1>1, <1>a DEF AddsUp
      <3>2. SumOf(C \cup {x}, k, a) = SumOf(C, k, a) + Worth(r, k, a)
        BY SumAdds
      <3>3. HeldBy(st, k, a) = SumOf(C, k, a)
        BY DEF Holds
      <3>. QED BY <3>1, <3>2, <3>3
    <2>3. Within(t, Cardinality(C \cup {x}))
      BY <1>a, <1>c
    <2>. QED BY <2>1, <2>2, <2>3 DEF Holds
  <1>2. ASSUME st.ok, Light(r) PROVE t.ok
    <2>1. c + 1 < HiHalf
      <3>1. Cardinality(Places) < HiHalf
        BY <1>2 DEF Light, RowsFit
      <3>2. Cardinality(Places) \in Nat
        BY PlacesFinite, FS_CardinalityType
      <3>. HIDE DEF c
      <3>. QED BY <1>c, <3>1, <3>2, WordsAssumption
    <2>. QED BY <1>2, <1>a, <2>1 DEF Light
  <1>. QED BY <1>1, <1>2

-----------------------------------------------------------------------------
(* A partition's run of rows, one after the other.                         *)
Next1(st, rows, run, n) == IF n \in run THEN AddRow(st, rows[n]) ELSE st
Adds(b, rows, run, m) ==
  CHOOSE u : u = [n \in 0..m |-> IF n = 0 THEN b ELSE Next1(u[n - 1], rows, run, n)]

LEMMA AddsRun ==
  ASSUME NEW b, NEW rows, NEW run, NEW m \in Nat
  PROVE  /\ Adds(b, rows, run, m)[0] = b
         /\ \A n \in 1..m : Adds(b, rows, run, m)[n] =
                              Next1(Adds(b, rows, run, m)[n - 1], rows, run, n)
  <1> DEFINE Runs(j, u) == u = [n \in 0..j |-> IF n = 0 THEN b ELSE Next1(u[n - 1], rows, run, n)]
             I == {j \in Nat : \E u : Runs(j, u)}
  <1>1. 0 \in I
    <2>1. Runs(0, [n \in 0..0 |-> b])
      OBVIOUS
    <2>. QED BY <2>1
  <1>2. ASSUME NEW j \in Nat, j \in I PROVE j + 1 \in I
    <2>1. PICK u : Runs(j, u)
      BY <1>2
    <2> DEFINE v == [n \in 0..(j + 1) |-> IF n = j + 1 THEN Next1(u[j], rows, run, j + 1) ELSE u[n]]
    <2>2. \A n \in 0..(j + 1) : v[n] = IF n = 0 THEN b ELSE Next1(v[n - 1], rows, run, n)
      <3> SUFFICES ASSUME NEW n \in 0..(j + 1)
                   PROVE  v[n] = IF n = 0 THEN b ELSE Next1(v[n - 1], rows, run, n)
        OBVIOUS
      <3>1. CASE n = j + 1
        <4>1. v[n] = Next1(u[j], rows, run, j + 1) /\ v[n - 1] = u[j] /\ n # 0
          BY <3>1
        <4>. QED BY <4>1, <3>1
      <3>2. CASE n # j + 1
        <4>1. n \in 0..j
          BY <3>2
        <4>2. u[n] = IF n = 0 THEN b ELSE Next1(u[n - 1], rows, run, n)
          BY <4>1, <2>1
        <4>3. v[n] = u[n] /\ (n # 0 => v[n - 1] = u[n - 1])
          BY <4>1
        <4>. QED BY <4>2, <4>3
      <3>. QED BY <3>1, <3>2
    <2>3. Runs(j + 1, v)
      BY <2>2
    <2> HIDE DEF v, Runs
    <2>4. \E z : Runs(j + 1, z)
      BY <2>3
    <2>5. j + 1 \in Nat
      BY <1>2
    <2>. QED BY <2>4, <2>5
  <1>3. m \in I
    <2> HIDE DEF I
    <2>. QED BY <1>1, <1>2, ByInduction
  <1> DEFINE u == Adds(b, rows, run, m)
  <1>4. Runs(m, u)
    BY <1>3 DEF Adds
  <1> HIDE DEF u
  <1>5. u[0] = b /\ \A n \in 1..m : u[n] = Next1(u[n - 1], rows, run, n)
    BY <1>4
  <1>. QED BY <1>5 DEF u

LEMMA AddedIs == \A w, run : Added(w, run) = Adds(table, input[w], run, read[w])[read[w]]
  BY DEF Added, Adds, Next1

\* The rows of w's run up to its n-th, as places.
RowsOf(w, run) == {x \in Places : x[1] = w /\ x[2] \in run}
RowsUpto(w, run, n) == {x \in Places : x[1] = w /\ x[2] \in run /\ x[2] <= n}

\* st is the table with the rows of E added, all of partition p; the table was
\* to hold those of C.
Onto(st, C, E, p) ==
  /\ st \in Tables
  /\ table.groups \subseteq st.groups
  /\ \A k \in st.groups : k \in table.groups \/ (PartOf[k] = p /\ E # {})
  /\ Holds(table, C) /\ st.ok => Holds(st, C \cup E)
  /\ Holds(table, C) /\ table.ok /\ OneSum /\ RowsFit => st.ok

LEMMA OntoOneMore ==
  ASSUME input \in Inputs, NEW C \in SUBSET Places, NEW E \in SUBSET Places, NEW p, NEW st,
         Onto(st, C, E, p), NEW x \in Places \ (C \cup E), PartOf[RowAt(x).key] = p,
         OneSum => RowAt(x).agg = 0, NEW t, t = AddRow(st, RowAt(x))
  PROVE  Onto(t, C, E \cup {x}, p)
  <1>1. RowAt(x) \in Row /\ st \in Tables
    BY PlacesFinite DEF Onto
  <1>2. /\ t \in Tables /\ st.groups \subseteq t.groups
        /\ t.groups \subseteq st.groups \cup {RowAt(x).key}
        /\ t.ok => st.ok
    BY <1>1, RowAdded
  <1>3. ASSUME Holds(table, C), t.ok PROVE Holds(t, C \cup (E \cup {x}))
    <2>1. Holds(st, C \cup E)
      BY <1>2, <1>3 DEF Onto
    <2>2. Holds(t, (C \cup E) \cup {x})
      BY <1>1, <1>3, <2>1, HoldsOneMore
    <2>3. (C \cup E) \cup {x} = C \cup (E \cup {x})
      OBVIOUS
    <2>. QED BY <2>2, <2>3
  <1>4. ASSUME Holds(table, C), table.ok, OneSum, RowsFit PROVE t.ok
    <2>1. st.ok
      BY <1>4 DEF Onto
    <2>2. Holds(st, C \cup E)
      BY <1>4, <2>1 DEF Onto
    <2>3. Light(RowAt(x))
      BY <1>4 DEF Light
    <2>. QED BY <1>1, <2>1, <2>2, <2>3, HoldsOneMore
  <1>5. \A k \in t.groups : k \in table.groups \/ (PartOf[k] = p /\ E \cup {x} # {})
    BY <1>2 DEF Onto
  <1>6. table.groups \subseteq t.groups
    BY <1>2 DEF Onto
  <1>. QED BY <1>2, <1>3, <1>4, <1>5, <1>6 DEF Onto

LEMMA InRange ==
  ASSUME NEW m \in Nat, NEW run \in SUBSET (1..m)
  PROVE  \A i \in run : i \in Nat /\ 1 <= i /\ i <= m /\ ~(i <= 0)
  OBVIOUS

LEMMA AddedKeeps ==
  ASSUME input \in Inputs, table \in Tables, NEW w \in Workers, NEW p,
         read[w] \in Nat, read[w] <= Len(input[w]),
         NEW run \in SUBSET (1..read[w]), \A i \in run : PartOf[input[w][i].key] = p,
         NEW C \in SUBSET Places, \A x \in C : ~(x[1] = w /\ x[2] \in run),
         NEW t, t = Added(w, run)
  PROVE  Onto(t, C, RowsOf(w, run), p)
  <1> DEFINE m == read[w]
             rows == input[w]
             u == Adds(table, rows, run, m)
             I == {n \in Nat : n <= m => Onto(u[n], C, RowsUpto(w, run, n), p)}
  <1>m. m \in Nat /\ m <= Len(rows)
    OBVIOUS
  <1>l. Len(rows) \in Nat /\ \A i \in 1..Len(rows) : i \in DOMAIN rows /\ rows[i] \in Row
    BY SharedAggAssumption
  <1>u. u[0] = table /\ \A n \in 1..m : u[n] = Next1(u[n - 1], rows, run, n)
    BY <1>m, AddsRun
  <1>p. \A i \in 1..m : <<w, i>> \in Places /\ RowAt(<<w, i>>) = rows[i]
    BY <1>m, <1>l, PlacesFinite
  <1>x. \A x \in Places : x[1] = w => x = <<w, x[2]>>
    BY DEF Places
  <1>r. \A i \in run : i \in Nat /\ 1 <= i /\ i <= m /\ ~(i <= 0)
    BY <1>m, InRange
  <1>t. t = u[m]
    BY AddedIs
  <1> HIDE DEF u, m
  <1>1. 0 \in I
    <2>1. RowsUpto(w, run, 0) = {}
      BY <1>r DEF RowsUpto
    <2>2. C \cup {} = C
      OBVIOUS
    <2>3. Onto(table, C, {}, p)
      BY <2>2 DEF Onto
    <2>. QED BY <1>u, <2>1, <2>3
  <1>2. ASSUME NEW n \in Nat, n \in I PROVE n + 1 \in I
    <2>0. n + 1 \in Nat
      OBVIOUS
    <2> SUFFICES ASSUME n + 1 <= m PROVE Onto(u[n + 1], C, RowsUpto(w, run, n + 1), p)
      BY <2>0
    <2>1. n <= m /\ n + 1 \in 1..m /\ (n + 1) - 1 = n
      BY <1>m
    <2> DEFINE st == u[n]
               t2 == u[n + 1]
               x == <<w, n + 1>>
               E == RowsUpto(w, run, n)
               F == RowsUpto(w, run, n + 1)
    <2>2. Onto(st, C, E, p)
      BY <1>2, <2>1
    <2>3. t2 = Next1(st, rows, run, n + 1)
      BY <1>u, <2>1
    <2>4. x \in Places /\ RowAt(x) = rows[n + 1] /\ x[1] = w /\ x[2] = n + 1
      BY <1>p, <2>1
    <2>r. \A i \in run : i \in Nat
      BY <1>r
    <2>5. CASE n + 1 \notin run
      <3>1. t2 = st
        BY <2>3, <2>5 DEF Next1
      <3>2. \A i \in run : i <= n + 1 <=> i <= n
        BY <2>5, <2>r
      <3>3. F = E
        BY <3>2 DEF RowsUpto
      <3> HIDE DEF E, F, st, t2
      <3>. QED BY <2>2, <3>1, <3>3 DEF F, t2
    <2>6. CASE n + 1 \in run
      <3>1. t2 = AddRow(st, RowAt(x))
        BY <2>3, <2>4, <2>6 DEF Next1
      <3>2. \A i \in run : i <= n + 1 <=> i <= n \/ i = n + 1
        BY <2>r
      <3>3. \A y \in Places : y[1] = w /\ y[2] = n + 1 <=> y = x
        BY <1>x, <2>4
      <3>4. F = E \cup {x}
        <4>1. \A y \in Places : y \in F <=> y \in E \/ (y[1] = w /\ y[2] = n + 1)
          <5> HIDE DEF x, st, t2
          <5>. QED BY <2>6, <3>2 DEF RowsUpto
        <4>2. F \subseteq Places /\ E \subseteq Places
          BY DEF RowsUpto
        <4> HIDE DEF E, F, x, st, t2
        <4>. QED BY <2>4, <3>3, <4>1, <4>2
      <3>5. x \notin C
        BY <2>4, <2>6
      <3>6. x \notin E
        BY <2>4 DEF RowsUpto
      <3>7. PartOf[RowAt(x).key] = p
        BY <2>4, <2>6
      <3>8. OneSum => RowAt(x).agg = 0
        <4>1. n + 1 \in DOMAIN input[w]
          BY <1>l, <1>m, <2>1
        <4>. QED BY <2>4, <4>1 DEF OneSum
      <3>9. E \in SUBSET Places
        BY DEF RowsUpto
      <3> HIDE DEF E, F, st, t2, x
      <3>10. Onto(t2, C, E \cup {x}, p)
        BY <2>2, <2>4, <3>1, <3>5, <3>6, <3>7, <3>8, <3>9, OntoOneMore
      <3>. QED BY <3>4, <3>10 DEF F, t2
    <2>. QED BY <2>5, <2>6
  <1>3. Onto(u[m], C, RowsUpto(w, run, m), p)
    <2>1. m \in I
      <3> HIDE DEF I
      <3>. QED BY <1>1, <1>2, <1>m, ByInduction
    <2>. QED BY <2>1, <1>m
  <1>4. RowsUpto(w, run, m) = RowsOf(w, run)
    <2>1. \A i \in run : i <= m
      BY <1>r
    <2>. QED BY <2>1 DEF RowsOf, RowsUpto
  <1>. QED BY <1>3, <1>4, <1>t

-----------------------------------------------------------------------------
(* The inductive invariant: buffers are empty when they have to be, the    *)
(* published counters and the tables agree but for a spill, somebody still *)
(* has a check to make when the tables are over the budget, and the tables *)
(* hold what has left the buffers.                                         *)
Failed == \E v \in Workers : pc[v] \in Errors
Spilled == \E v \in Workers : pc[v] = "Overflow"
Pending(w) == pc[w] \in {"flush", "check"} \/ (pc[w] = "scan" /\ from[w] < read[w])
AllDone == \A v \in Workers : pc[v] = "done"

BufferOK(w) ==
  /\ from[w] <= read[w] /\ read[w] <= Len(input[w])
  /\ scatter[w] \subseteq 1..read[w] /\ Cardinality(scatter[w]) <= FlushRows

PhaseOK(w) ==
  /\ pc[w] = "scan" => /\ Cardinality(scatter[w]) < FlushRows
                       /\ read[w] = from[w] => scatter[w] = {}
  /\ pc[w] = "flush" => /\ \A i \in scatter[w] : at[w] <= PartOf[input[w][i].key]
                        /\ ends[w] \/ from[w] < read[w]
  /\ pc[w] \in {"check", "done"} => scatter[w] = {}
  /\ pc[w] = "done" => read[w] = Len(input[w]) \/ Failed

BufferInv == \A w \in Workers : BufferOK(w) /\ PhaseOK(w)

PublishedInv ==
  \A p \in 0..(Parts - 1) :
    bytes[p] <= Size(table, p) /\ (bytes[p] = Size(table, p) \/ Spilled)

BudgetInv ==
  Cardinality(table.groups) <= MemPool \/ Failed \/ \E w \in Workers : Pending(w)

SumsInv == Spilled \/ Holds(table, Counted)

SpillInv == OneSum /\ RowsFit => ~Spilled

AnswerInv ==
  /\ answer.outcome # "none" => Settled
  /\ answer.outcome = "rows" =>
       /\ AllDone /\ \A k \in table.groups : FinalSum(table.acc[k]) # NoWord
       /\ answer.rows = {<<k, SumsOf(k)>> : k \in {g \in table.groups : Kept(g)}}
  /\ answer.outcome = "Overflow" =>
       \/ Spilled
       \/ AllDone /\ \E k \in table.groups : FinalSum(table.acc[k]) = NoWord

IInv ==
  TypeOK /\ BufferInv /\ PublishedInv /\ BudgetInv /\ SumsInv /\ SpillInv /\ AnswerInv

LEMMA TypeFacts ==
  ASSUME TypeOK
  PROVE  /\ input \in Inputs /\ table \in Tables /\ table.ok
         /\ table.groups \subseteq Keys /\ IsFiniteSet(table.groups)
         /\ \A w \in Workers :
              /\ read[w] \in Nat /\ from[w] \in Nat /\ at[w] \in 0..(Parts - 1)
              /\ input[w] \in Seq(Row) /\ Len(input[w]) \in Nat
              /\ DOMAIN input[w] = 1..Len(input[w])
  <1>1. input \in Inputs /\ table \in Tables /\ table.ok /\ table.groups \subseteq Keys
    BY DEF TypeOK, Tables, Entry, Slots
  <1>2. IsFiniteSet(table.groups)
    BY <1>1, SharedAggAssumption, FS_Subset
  <1>3. ASSUME NEW w \in Workers
        PROVE  /\ read[w] \in Nat /\ from[w] \in Nat /\ at[w] \in 0..(Parts - 1)
               /\ input[w] \in Seq(Row) /\ Len(input[w]) \in Nat
               /\ DOMAIN input[w] = 1..Len(input[w])
    <2>1. input[w] \in Seq(Row)
      BY <1>1, SharedAggAssumption
    <2>. QED BY <2>1 DEF TypeOK
  <1>. QED BY <1>1, <1>2, <1>3

LEMMA SameRows ==
  ASSUME input' = input
  PROVE  /\ Places' = Places
         /\ \A x : RowAt(x)' = RowAt(x)
         /\ \A C, k, a : SumOf(C, k, a)' = SumOf(C, k, a)
         /\ (OneSum' <=> OneSum) /\ (RowsFit' <=> RowsFit)
  <1>1. Places' = Places
    BY DEF Places
  <1>2. \A x : RowAt(x)' = RowAt(x)
    BY DEF RowAt
  <1>3. \A C, k, a : SumOf(C, k, a)' = SumOf(C, k, a)
    BY <1>1, <1>2 DEF SumOf
  <1>4. OneSum' <=> OneSum
    BY DEF OneSum
  <1>5. RowsFit' <=> RowsFit
    BY <1>1 DEF RowsFit
  <1>. QED BY <1>1, <1>2, <1>3, <1>4, <1>5

\* A table and a set of rows that are the next ones.
LEMMA HoldsNext ==
  ASSUME input' = input, NEW st, NEW C, st = table', C = Counted', Holds(st, C)
  PROVE  SumsInv'
  <1>1. st.groups = {RowAt(x)'.key : x \in C}
    BY SameRows DEF Holds
  <1>2. \A k \in Keys : \A a \in Aggs : HeldBy(st, k, a) = SumOf(C, k, a)'
    BY SameRows DEF Holds
  <1>3. Within(st, Cardinality(C))
    BY DEF Holds
  <1>. QED BY <1>1, <1>2, <1>3 DEF SumsInv, Holds
-----------------------------------------------------------------------------
(* The partitions' sizes add up to the number of groups.                   *)
InPart(G, p) == {k \in G : PartOf[k] = p}
Sizes(G) == [p \in 0..(Parts - 1) |-> Cardinality(InPart(G, p))]

LEMMA PartFinite ==
  ASSUME NEW G \in SUBSET Keys, NEW p
  PROVE  IsFiniteSet(InPart(G, p)) /\ Cardinality(InPart(G, p)) \in Nat
  BY SharedAggAssumption, FS_Subset, FS_CardinalityType DEF InPart

LEMMA SizesAddUp ==
  ASSUME NEW G \in SUBSET Keys
  PROVE  SumFunction(Sizes(G)) = Cardinality(G)
  <1> DEFINE P == 0..(Parts - 1)
             I == {n \in Nat : \A H \in SUBSET Keys :
                     Cardinality(H) = n => SumFunctionOnSet(Sizes(H), P) = n}
  <1>f. \A H \in SUBSET Keys : IsFiniteSet(H)
    BY SharedAggAssumption, FS_Subset
  <1>p. IsFiniteSet(P)
    BY SharedAggAssumption, FS_Interval
  <1>1. 0 \in I
    <2> SUFFICES ASSUME NEW H \in SUBSET Keys, Cardinality(H) = 0
                 PROVE  SumFunctionOnSet(Sizes(H), P) = 0
      OBVIOUS
    <2>1. H = {}
      BY <1>f, FS_EmptySet
    <2>2. \A p \in P : Cardinality(InPart(H, p)) = 0
      <3> TAKE p \in P
      <3>1. InPart(H, p) = {}
        BY <2>1 DEF InPart
      <3>. QED BY <3>1, FS_EmptySet
    <2>3. Sizes(H) = [p \in P |-> 0]
      BY <2>2 DEF Sizes
    <2>. QED BY <1>p, <2>3, SumOfZeros
  <1>2. ASSUME NEW n \in Nat, n \in I PROVE n + 1 \in I
    <2>0. n + 1 \in Nat
      OBVIOUS
    <2> SUFFICES ASSUME NEW H \in SUBSET Keys, Cardinality(H) = n + 1
                 PROVE  SumFunctionOnSet(Sizes(H), P) = n + 1
      BY <2>0
    <2>1. PICK k : k \in H
      BY FS_EmptySet
    <2> DEFINE L == H \ {k}
               q == PartOf[k]
    <2>2. L \in SUBSET Keys /\ Cardinality(L) = n
      <3>1. Cardinality(L) = Cardinality(H) - 1
        BY <1>f, <2>1, FS_RemoveElement
      <3> HIDE DEF L, I
      <3>2. Cardinality(L) = n
        BY <3>1
      <3>. QED BY <3>2 DEF L
    <2>3. SumFunctionOnSet(Sizes(L), P) = n
      BY <1>2, <2>2
    <2>4. q \in P
      BY <2>1, SharedAggAssumption
    <2>5. \A p \in P \ {q} : Sizes(L)[p] = Sizes(H)[p]
      <3> TAKE p \in P \ {q}
      <3>1. InPart(L, p) = InPart(H, p)
        BY DEF InPart
      <3>. QED BY <3>1 DEF Sizes
    <2>6. Sizes(H)[q] = Sizes(L)[q] + 1
      <3>1. InPart(H, q) = InPart(L, q) \cup {k} /\ k \notin InPart(L, q)
        BY <2>1 DEF InPart
      <3>2. IsFiniteSet(InPart(L, q))
        BY <2>2, PartFinite
      <3>3. Cardinality(InPart(H, q)) = Cardinality(InPart(L, q)) + 1
        BY <3>1, <3>2, FS_AddElement
      <3>. QED BY <2>4, <3>3 DEF Sizes
    <2>7. Sizes(L) \in [P -> Int] /\ Sizes(H) \in [P -> Int]
      BY <2>2, PartFinite DEF Sizes
    <2>8. Sizes(L)[q] \in Int
      BY <2>4, <2>7
    <2> HIDE DEF L, P, q
    <2>9. SumFunctionOnSet(Sizes(H), P) = SumFunctionOnSet(Sizes(L), P) + (Sizes(H)[q] - Sizes(L)[q])
      BY <1>p, <2>4, <2>5, <2>7, SumChange
    <2>. QED BY <2>3, <2>6, <2>8, <2>9
  <1>3. Cardinality(G) \in I
    <2>1. Cardinality(G) \in Nat
      BY <1>f, FS_CardinalityType
    <2> HIDE DEF I
    <2>. QED BY <1>1, <1>2, <2>1, ByInduction
  <1>4. SumFunction(Sizes(G)) = SumFunctionOnSet(Sizes(G), P)
    BY DEF SumFunction, Sizes
  <1>. QED BY <1>3, <1>4

LEMMA SizeFacts ==
  ASSUME table.groups \subseteq Keys
  PROVE  \A p : Size(table, p) = Cardinality(InPart(table.groups, p))
  BY DEF Size, InPart

\* What is published when nothing has spilled.
LEMMA PublishedIs ==
  ASSUME TypeOK, PublishedInv, ~Spilled
  PROVE  Published = Cardinality(table.groups)
  <1>1. \A p \in 0..(Parts - 1) : bytes[p] = Cardinality(InPart(table.groups, p))
    BY TypeFacts, SizeFacts DEF PublishedInv
  <1>2. bytes = Sizes(table.groups)
    BY <1>1 DEF TypeOK, Sizes
  <1>3. table.groups \in SUBSET Keys
    BY TypeFacts
  <1>. QED BY <1>2, <1>3, SizesAddUp DEF Published

-----------------------------------------------------------------------------
(* What one worker's step leaves of the others.                            *)
Apart(w) ==
  /\ input' = input
  /\ \A v \in Workers : v # w =>
       /\ read'[v] = read[v] /\ from'[v] = from[v] /\ scatter'[v] = scatter[v]
       /\ pc'[v] = pc[v] /\ at'[v] = at[v] /\ ends'[v] = ends[v]

LEMMA OthersKeep ==
  ASSUME BufferInv, NEW w \in Workers, Apart(w), pc[w] \notin Errors,
         BufferOK(w)', PhaseOK(w)'
  PROVE  BufferInv'
  <1> SUFFICES ASSUME NEW v \in Workers PROVE BufferOK(v)' /\ PhaseOK(v)'
    BY DEF BufferInv
  <1>1. CASE v = w
    BY <1>1
  <1>2. CASE v # w
    <2>1. /\ input' = input
          /\ read'[v] = read[v] /\ from'[v] = from[v] /\ scatter'[v] = scatter[v]
          /\ pc'[v] = pc[v] /\ at'[v] = at[v] /\ ends'[v] = ends[v]
      BY <1>2 DEF Apart
    <2>2. BufferOK(v) /\ PhaseOK(v)
      BY DEF BufferInv
    <2>3. Failed => Failed'
      BY DEF Apart, Failed
    <2>4. BufferOK(v)'
      BY <2>1, <2>2 DEF BufferOK
    <2>5. PhaseOK(v)'
      BY <2>1, <2>2, <2>3 DEF PhaseOK
    <2>. QED BY <2>4, <2>5
  <1>. QED BY <1>1, <1>2

\* A step that touches neither tables nor answer, and does not spill.
LEMMA QuietKeeps ==
  ASSUME IInv, NEW w \in Workers, Apart(w), pc[w] \in {"scan", "check"}, pc'[w] # "Overflow",
         table' = table, bytes' = bytes, answer' = answer, Counted' = Counted
  PROVE  PublishedInv' /\ SumsInv' /\ SpillInv' /\ AnswerInv'
  <1>i. TypeOK /\ PublishedInv /\ SumsInv /\ SpillInv /\ AnswerInv
    BY DEF IInv
  <1>s. Spilled' <=> Spilled
    BY DEF Spilled, Apart
  <1>1. PublishedInv'
    BY <1>i, <1>s DEF PublishedInv, Size
  <1>2. SumsInv'
    <2>1. CASE Spilled
      BY <1>s, <2>1 DEF SumsInv
    <2>2. CASE ~Spilled
      <3>1. Holds(table, Counted) /\ input' = input
        BY <1>i, <2>2 DEF SumsInv, Apart
      <3>. QED BY <3>1, HoldsNext
    <2>. QED BY <2>1, <2>2
  <1>3. SpillInv'
    <2>1. input' = input
      BY DEF Apart
    <2>. QED BY <1>i, <1>s, <2>1, SameRows DEF SpillInv
  <1>4. AnswerInv'
    <2>1. ~Settled
      BY DEF Settled, Errors
    <2>2. answer.outcome = "none"
      BY <1>i, <2>1 DEF AnswerInv
    <2>. QED BY <2>2 DEF AnswerInv
  <1>. QED BY <1>1, <1>2, <1>3, <1>4
\* A buffer's rows are rows, and a partition takes them.
LEMMA BufferFacts ==
  ASSUME TypeOK, BufferInv, NEW w \in Workers
  PROVE  /\ IsFiniteSet(scatter[w]) /\ Cardinality(scatter[w]) \in Nat
         /\ \A i \in scatter[w] : i \in Nat /\ 1 <= i /\ i <= read[w]
         /\ \A i \in 1..Len(input[w]) :
              /\ input[w][i] \in Row
              /\ PartOf[input[w][i].key] \in 0..(Parts - 1)
         /\ \A i \in scatter[w] : PartOf[input[w][i].key] \in 0..(Parts - 1)
         /\ read[w] \in Nat /\ from[w] \in Nat /\ Len(input[w]) \in Nat
         /\ from[w] <= read[w] /\ read[w] <= Len(input[w])
         /\ scatter[w] \subseteq 1..read[w]
  <1>1. /\ read[w] \in Nat /\ from[w] \in Nat /\ Len(input[w]) \in Nat
        /\ input[w] \in Seq(Row)
    BY TypeFacts
  <1>2. BufferOK(w)
    BY DEF BufferInv
  <1>3. /\ from[w] <= read[w] /\ read[w] <= Len(input[w])
        /\ scatter[w] \in SUBSET (1..read[w])
    BY <1>2 DEF BufferOK
  <1>4. IsFiniteSet(scatter[w]) /\ Cardinality(scatter[w]) \in Nat
    <2>0. read[w] \in Int /\ 1 \in Int
      BY <1>1
    <2>1. IsFiniteSet(1..read[w])
      BY <2>0, FS_Interval
    <2>. QED BY <1>3, <2>1, FS_Subset, FS_CardinalityType
  <1>5. \A i \in scatter[w] : i \in Nat /\ 1 <= i /\ i <= read[w]
    BY <1>1, <1>3, InRange
  <1>6. \A i \in 1..Len(input[w]) :
          /\ input[w][i] \in Row
          /\ PartOf[input[w][i].key] \in 0..(Parts - 1)
    <2> TAKE i \in 1..Len(input[w])
    <2>1. input[w][i] \in Row
      BY <1>1
    <2>2. input[w][i].key \in Keys
      BY <2>1, RowFields
    <2>. QED BY <2>1, <2>2, SharedAggAssumption
  <1>7. \A i \in scatter[w] : i \in 1..Len(input[w])
    BY <1>1, <1>3, <1>5
  <1>. QED BY <1>1, <1>3, <1>4, <1>5, <1>6, <1>7

LEMMA CountedStays ==
  ASSUME input' = input, read' = read, scatter' = scatter
  PROVE  Counted' = Counted
  BY SameRows DEF Counted

LEMMA PushKeeps ==
  ASSUME IInv, NEW w \in Workers, Push(w)
  PROVE  IInv'
  <1>i. TypeOK /\ BufferInv
    BY DEF IInv
  <1>1. /\ pc[w] = "scan" /\ read[w] < Len(input[w])
        /\ UNCHANGED <<input, from, table, bytes, answer>>
    BY DEF Push
  <1>b. BufferOK(w) /\ PhaseOK(w)
    BY <1>i DEF BufferInv
  <1>f. /\ IsFiniteSet(scatter[w]) /\ Cardinality(scatter[w]) \in Nat
        /\ \A i \in scatter[w] : i \in Nat /\ 1 <= i /\ i <= read[w]
        /\ \A i \in 1..Len(input[w]) : PartOf[input[w][i].key] \in 0..(Parts - 1)
        /\ read[w] \in Nat /\ from[w] \in Nat /\ Len(input[w]) \in Nat
        /\ from[w] <= read[w] /\ read[w] <= Len(input[w])
        /\ scatter[w] \subseteq 1..read[w]
    BY <1>i, BufferFacts
  <1>e. pc[w] \notin Errors
    BY <1>1 DEF Errors
  <1>2. CASE input[w][read[w] + 1].key \in LongKeys
    <2>1. /\ pc' = [pc EXCEPT ![w] = "LimitExceeded"]
          /\ UNCHANGED <<read, scatter, at, ends>>
      BY <1>2 DEF Push
    <2>2. TypeOK'
      BY <1>i, <1>1, <2>1 DEF TypeOK, Errors
    <2>p. pc'[w] = "LimitExceeded" /\ \A v \in Workers : v # w => pc'[v] = pc[v]
      BY <1>i, <2>1 DEF TypeOK
    <2>3. Apart(w)
      BY <1>1, <2>1, <2>p DEF Apart
    <2>4. BufferOK(w)' /\ PhaseOK(w)'
      <3>1. BufferOK(w)'
        BY <1>1, <1>b, <2>1 DEF BufferOK
      <3>2. PhaseOK(w)'
        BY <2>p DEF PhaseOK
      <3>. QED BY <3>1, <3>2
    <2>5. BufferInv'
      BY <1>i, <1>e, <2>3, <2>4, OthersKeep
    <2>6. BudgetInv'
      BY <2>p DEF BudgetInv, Failed, Errors
    <2>7. Counted' = Counted
      BY <1>1, <2>1, CountedStays
    <2>8. PublishedInv' /\ SumsInv' /\ SpillInv' /\ AnswerInv'
      BY <1>1, <2>3, <2>7, <2>p, QuietKeeps
    <2>. QED BY <2>2, <2>5, <2>6, <2>8 DEF IInv
  <1>3. CASE input[w][read[w] + 1].key \notin LongKeys
    <2> DEFINE n == read[w] + 1
               full == Cardinality(scatter[w]) + 1 >= FlushRows
    <2>1. /\ read' = [read EXCEPT ![w] = n]
          /\ scatter' = [scatter EXCEPT ![w] = @ \cup {n}]
          /\ full => /\ pc' = [pc EXCEPT ![w] = "flush"]
                     /\ at' = [at EXCEPT ![w] = 0]
                     /\ ends' = [ends EXCEPT ![w] = FALSE]
          /\ ~full => UNCHANGED <<pc, at, ends>>
      BY <1>3 DEF Push
    <2>n. n \in Nat /\ n <= Len(input[w]) /\ from[w] < n /\ n \notin scatter[w]
      BY <1>1, <1>f
    <2>2. /\ read'[w] = n /\ scatter'[w] = scatter[w] \cup {n}
          /\ full => pc'[w] = "flush" /\ at'[w] = 0
          /\ ~full => pc'[w] = "scan"
          /\ input' = input /\ from'[w] = from[w]
      BY <1>1, <1>i, <2>1 DEF TypeOK
    <2>q. pc'[w] \in {"flush", "scan"}
      BY <2>2
    <2>3. TypeOK'
      <3>1. read' \in [Workers -> Nat]
        BY <1>i, <2>1, <2>n DEF TypeOK
      <3>2. scatter' \in [Workers -> SUBSET Nat]
        BY <1>i, <2>1, <2>n DEF TypeOK
      <3>3. pc' \in [Workers -> {"scan", "flush", "check", "done"} \cup Errors]
        BY <1>i, <2>1 DEF TypeOK
      <3>4. at' \in [Workers -> 0..(Parts - 1)]
        <4>1. 0 \in 0..(Parts - 1) /\ at \in [Workers -> 0..(Parts - 1)]
          BY <1>i, SharedAggAssumption DEF TypeOK
        <4> HIDE DEF full
        <4>2. at' = at \/ at' = [at EXCEPT ![w] = 0]
          BY <2>1
        <4>. QED BY <4>1, <4>2
      <3>5. ends' \in [Workers -> BOOLEAN]
        BY <1>i, <2>1 DEF TypeOK
      <3>. QED BY <1>i, <1>1, <3>1, <3>2, <3>3, <3>4, <3>5 DEF TypeOK
    <2>4. Apart(w)
      BY <1>1, <1>i, <2>1 DEF Apart, TypeOK
    <2>c. /\ IsFiniteSet(scatter[w] \cup {n})
          /\ Cardinality(scatter[w] \cup {n}) = Cardinality(scatter[w]) + 1
      BY <1>f, <2>n, FS_AddElement
    <2>5. BufferOK(w)'
      <3>1. scatter[w] \cup {n} \subseteq 1..n
        BY <1>f, <2>n
      <3>2. Cardinality(scatter[w]) + 1 <= FlushRows
        BY <1>b, <1>1, <1>f, SharedAggAssumption DEF PhaseOK
      <3>. HIDE DEF n
      <3>3. from[w] <= n
        BY <1>f, <2>n
      <3>. QED BY <2>2, <2>n, <2>c, <3>1, <3>2, <3>3 DEF BufferOK
    <2>6. PhaseOK(w)'
      <3>1. \A i \in scatter[w] \cup {n} : 0 <= PartOf[input[w][i].key]
        <4>1. \A i \in scatter[w] \cup {n} : i \in 1..Len(input[w])
          BY <1>f, <2>n
        <4>. QED BY <1>f, <4>1, SharedAggAssumption
      <3>2. ~full => Cardinality(scatter[w]) + 1 < FlushRows
        BY <1>f, SharedAggAssumption
      <3>3. from[w] < n /\ n # from[w]
        BY <1>f, <2>n
      <3>. HIDE DEF n, full
      <3>4. CASE full
        BY <2>2, <3>1, <3>3, <3>4 DEF PhaseOK
      <3>5. CASE ~full
        <4>1. Cardinality(scatter'[w]) < FlushRows /\ read'[w] # from'[w] /\ pc'[w] = "scan"
          BY <2>2, <2>c, <3>2, <3>3, <3>5
        <4>. QED BY <4>1 DEF PhaseOK
      <3>. QED BY <3>4, <3>5
    <2>7. BufferInv'
      BY <1>i, <1>e, <2>4, <2>5, <2>6, OthersKeep
    <2>8. BudgetInv'
      <3>1. Pending(w)'
        BY <2>2, <2>n, <2>q DEF Pending
      <3>. QED BY <3>1 DEF BudgetInv
    <2>9. Counted' = Counted
      <3>1. Places' = Places
        BY <1>1, SameRows
      <3>2. \A x \in Places : (x[2] <= read'[x[1]] /\ x[2] \notin scatter'[x[1]])
                              <=> (x[2] <= read[x[1]] /\ x[2] \notin scatter[x[1]])
        <4> TAKE x \in Places
        <4>1. x[1] \in Workers /\ x[2] \in Nat
          <5>1. PICK v \in Workers : x \in {v} \X DOMAIN input[v]
            BY DEF Places
          <5>2. DOMAIN input[v] = 1..Len(input[v]) /\ Len(input[v]) \in Nat
            BY <1>i, TypeFacts
          <5>. QED BY <5>1, <5>2
        <4>2. CASE x[1] = w
          <5>1. read'[x[1]] = n /\ scatter'[x[1]] = scatter[w] \cup {n}
            BY <2>2, <4>2
          <5>2. x[2] <= n /\ x[2] # n <=> x[2] <= read[w]
            BY <1>f, <4>1
          <5>3. x[2] = n => ~(x[2] <= read[w])
            BY <1>f
          <5> HIDE DEF n
          <5>. QED BY <4>2, <5>1, <5>2, <5>3
        <4>3. CASE x[1] # w
          <5>1. read'[x[1]] = read[x[1]] /\ scatter'[x[1]] = scatter[x[1]]
            BY <2>4, <4>1, <4>3 DEF Apart
          <5>. QED BY <5>1
        <4>. QED BY <4>2, <4>3
      <3>. QED BY <3>1, <3>2 DEF Counted
    <2>10. PublishedInv' /\ SumsInv' /\ SpillInv' /\ AnswerInv'
      BY <1>1, <2>4, <2>9, <2>q, QuietKeeps
    <2>. QED BY <2>3, <2>7, <2>8, <2>10 DEF IInv
  <1>. QED BY <1>2, <1>3

LEMMA EndBatchKeeps ==
  ASSUME IInv, NEW w \in Workers, EndBatch(w)
  PROVE  IInv'
  <1>i. TypeOK /\ BufferInv
    BY DEF IInv
  <1>1. /\ pc[w] = "scan"
        /\ pc' = [pc EXCEPT ![w] = "flush"]
        /\ at' = [at EXCEPT ![w] = 0]
        /\ ends' = [ends EXCEPT ![w] = TRUE]
        /\ UNCHANGED <<input, read, from, scatter, table, bytes, answer>>
    BY DEF EndBatch
  <1>2. pc'[w] = "flush" /\ at'[w] = 0 /\ ends'[w]
    BY <1>i, <1>1 DEF TypeOK
  <1>3. TypeOK'
    <2>1. pc' \in [Workers -> {"scan", "flush", "check", "done"} \cup Errors]
      BY <1>i, <1>1 DEF TypeOK
    <2>2. at' \in [Workers -> 0..(Parts - 1)]
      BY <1>i, <1>1, SharedAggAssumption DEF TypeOK
    <2>3. ends' \in [Workers -> BOOLEAN]
      BY <1>i, <1>1 DEF TypeOK
    <2>. QED BY <1>i, <1>1, <2>1, <2>2, <2>3 DEF TypeOK
  <1>4. Apart(w)
    BY <1>1, <1>i DEF Apart, TypeOK
  <1>5. BufferOK(w)'
    <2>1. BufferOK(w)
      BY <1>i DEF BufferInv
    <2>. QED BY <1>1, <2>1 DEF BufferOK
  <1>6. PhaseOK(w)'
    <2>1. \A i \in scatter[w] : 0 <= PartOf[input[w][i].key]
      BY <1>i, BufferFacts, SharedAggAssumption
    <2>. QED BY <1>1, <1>2, <2>1 DEF PhaseOK
  <1>7. BufferInv'
    BY <1>i, <1>1, <1>4, <1>5, <1>6, OthersKeep DEF Errors
  <1>8. BudgetInv'
    BY <1>2 DEF BudgetInv, Pending
  <1>9. Counted' = Counted
    BY <1>1, CountedStays
  <1>10. PublishedInv' /\ SumsInv' /\ SpillInv' /\ AnswerInv'
    BY <1>1, <1>2, <1>4, <1>9, QuietKeeps
  <1>. QED BY <1>3, <1>7, <1>8, <1>10 DEF IInv

(* check_budget: what it reads is what the tables hold, unless a sum has   *)
(* overflowed, and then there is no answer.                                *)
LEMMA CheckBudgetKeeps ==
  ASSUME IInv, NEW w \in Workers, CheckBudget(w)
  PROVE  IInv'
  <1>i. TypeOK /\ BufferInv /\ PublishedInv
    BY DEF IInv
  <1> DEFINE q == IF Published > MemPool THEN "LimitExceeded"
                  ELSE IF read[w] = Len(input[w]) THEN "done" ELSE "scan"
  <1>1. /\ pc[w] = "check"
        /\ pc' = [pc EXCEPT ![w] = q]
        /\ from' = [from EXCEPT ![w] = read[w]]
        /\ UNCHANGED <<input, read, scatter, at, ends, table, bytes, answer>>
    BY DEF CheckBudget
  <1>2. pc'[w] = q /\ from'[w] = read[w] /\ \A v \in Workers : v # w => pc'[v] = pc[v]
    BY <1>i, <1>1 DEF TypeOK
  <1>3. TypeOK'
    <2>1. pc' \in [Workers -> {"scan", "flush", "check", "done"} \cup Errors]
      BY <1>i, <1>1 DEF TypeOK, Errors
    <2>2. from' \in [Workers -> Nat]
      BY <1>i, <1>1 DEF TypeOK
    <2>. QED BY <1>i, <1>1, <2>1, <2>2 DEF TypeOK
  <1>4. Apart(w)
    BY <1>1, <1>i DEF Apart, TypeOK
  <1>b. BufferOK(w) /\ PhaseOK(w)
    BY <1>i DEF BufferInv
  <1>s. scatter[w] = {}
    BY <1>1, <1>b DEF PhaseOK
  <1>5. BufferOK(w)'
    <2>1. read[w] <= read[w]
      BY <1>i, TypeFacts
    <2>. QED BY <1>1, <1>2, <1>b, <2>1 DEF BufferOK
  <1>6. PhaseOK(w)'
    <2>1. Cardinality(scatter'[w]) < FlushRows /\ scatter'[w] = {}
      <3>1. scatter'[w] = {}
        BY <1>1, <1>s
      <3>2. Cardinality(scatter'[w]) = 0
        BY <3>1, FS_EmptySet
      <3>. QED BY <3>1, <3>2, SharedAggAssumption
    <2>2. pc'[w] # "flush" /\ (pc'[w] = "done" => read'[w] = Len(input'[w]))
      BY <1>1, <1>2
    <2>. QED BY <2>1, <2>2 DEF PhaseOK
  <1>7. BufferInv'
    BY <1>i, <1>1, <1>4, <1>5, <1>6, OthersKeep DEF Errors
  <1>8. BudgetInv'
    <2>1. CASE Published > MemPool
      <3>1. Failed'
        BY <1>2, <2>1 DEF Failed, Errors
      <3>. QED BY <3>1 DEF BudgetInv
    <2>2. CASE ~(Published > MemPool) /\ Spilled
      <3>1. Failed'
        BY <1>1, <1>2, <2>2 DEF Failed, Errors, Spilled
      <3>. QED BY <3>1 DEF BudgetInv
    <2>3. CASE ~(Published > MemPool) /\ ~Spilled
      <3>1. Published = Cardinality(table.groups)
        BY <1>i, <2>3, PublishedIs
      <3>2. Cardinality(table.groups) \in Nat
        BY <1>i, TypeFacts, FS_CardinalityType
      <3>3. Cardinality(table.groups) <= MemPool
        BY <2>3, <3>1, <3>2, SharedAggAssumption
      <3>. QED BY <1>1, <3>3 DEF BudgetInv
    <2>. QED BY <2>1, <2>2, <2>3
  <1>9. Counted' = Counted
    BY <1>1, CountedStays
  <1>10. PublishedInv' /\ SumsInv' /\ SpillInv' /\ AnswerInv'
    BY <1>1, <1>2, <1>4, <1>9, QuietKeeps
  <1>. QED BY <1>3, <1>7, <1>8, <1>10 DEF IInv

LEMMA AbandonKeeps ==
  ASSUME IInv, NEW w \in Workers, Abandon(w)
  PROVE  IInv'
  <1>i. TypeOK /\ BufferInv
    BY DEF IInv
  <1>1. /\ pc[w] = "scan" /\ read[w] = from[w] /\ Failed
        /\ pc' = [pc EXCEPT ![w] = "done"]
        /\ UNCHANGED <<input, read, from, scatter, at, ends, table, bytes, answer>>
    BY DEF Abandon, Failed
  <1>2. pc'[w] = "done" /\ \A v \in Workers : v # w => pc'[v] = pc[v]
    BY <1>i, <1>1 DEF TypeOK
  <1>3. TypeOK'
    <2>1. pc' \in [Workers -> {"scan", "flush", "check", "done"} \cup Errors]
      BY <1>i, <1>1 DEF TypeOK
    <2>. QED BY <1>i, <1>1, <2>1 DEF TypeOK
  <1>4. Apart(w)
    BY <1>1, <1>2 DEF Apart
  <1>b. BufferOK(w) /\ PhaseOK(w)
    BY <1>i DEF BufferInv
  <1>f. Failed'
    BY <1>1, <1>2 DEF Failed, Errors
  <1>5. BufferOK(w)'
    BY <1>1, <1>b DEF BufferOK
  <1>6. PhaseOK(w)'
    <2>1. scatter[w] = {}
      BY <1>1, <1>b DEF PhaseOK
    <2>. QED BY <1>1, <1>2, <1>f, <2>1 DEF PhaseOK
  <1>7. BufferInv'
    BY <1>i, <1>1, <1>4, <1>5, <1>6, OthersKeep DEF Errors
  <1>8. BudgetInv'
    BY <1>f DEF BudgetInv
  <1>9. Counted' = Counted
    BY <1>1, CountedStays
  <1>10. PublishedInv' /\ SumsInv' /\ SpillInv' /\ AnswerInv'
    BY <1>1, <1>2, <1>4, <1>9, QuietKeeps
  <1>. QED BY <1>3, <1>7, <1>8, <1>10 DEF IInv
(* A flush takes its rows from the buffer and puts them in the tables.     *)
LEMMA FlushKeeps ==
  ASSUME IInv, NEW w \in Workers, Flush(w)
  PROVE  IInv'
  <1>i. TypeOK /\ BufferInv /\ PublishedInv /\ SumsInv /\ SpillInv /\ AnswerInv
    BY DEF IInv
  <1> DEFINE p == at[w]
             run == Run(w, p)
             t == Added(w, run)
  <1>1. /\ pc[w] = "flush"
        /\ table' = [t EXCEPT !.ok = TRUE]
        /\ t.ok => /\ bytes' = IF run = {} THEN bytes ELSE [bytes EXCEPT ![p] = Size(t, p)]
                   /\ scatter' = [scatter EXCEPT ![w] = @ \ run]
                   /\ pc' = [pc EXCEPT ![w] = NextAfter(w, p)]
        /\ ~t.ok => /\ pc' = [pc EXCEPT ![w] = "Overflow"]
                    /\ UNCHANGED <<bytes, scatter>>
        /\ at' = [at EXCEPT ![w] = IF p < Parts - 1 THEN p + 1 ELSE 0]
        /\ UNCHANGED <<input, read, from, ends, answer>>
    BY DEF Flush, Drain
  <1>t. /\ input \in Inputs /\ table \in Tables /\ table.ok
        /\ table.groups \subseteq Keys
        /\ read[w] \in Nat /\ p \in 0..(Parts - 1)
    BY <1>i, TypeFacts
  <1>f. /\ \A i \in scatter[w] : i \in Nat /\ 1 <= i /\ i <= read[w]
        /\ \A i \in scatter[w] : PartOf[input[w][i].key] \in 0..(Parts - 1)
        /\ read[w] \in Nat /\ from[w] \in Nat /\ Len(input[w]) \in Nat
        /\ from[w] <= read[w] /\ read[w] <= Len(input[w])
        /\ scatter[w] \subseteq 1..read[w]
        /\ IsFiniteSet(scatter[w]) /\ Cardinality(scatter[w]) \in Nat
    BY <1>i, BufferFacts
  <1>b. BufferOK(w) /\ PhaseOK(w)
    BY <1>i DEF BufferInv
  <1>r. /\ run \in SUBSET scatter[w] /\ run \in SUBSET (1..read[w])
        /\ \A i \in scatter[w] : i \in run <=> PartOf[input[w][i].key] = p
    BY <1>f DEF Run
  <1>c. Counted \in SUBSET Places /\ \A x \in Counted : ~(x[1] = w /\ x[2] \in run)
    BY <1>r DEF Counted
  <1>o. Onto(t, Counted, RowsOf(w, run), p)
    <2>1. \A i \in run : PartOf[input[w][i].key] = p
      BY <1>r
    <2> HIDE DEF p, run, t
    <2>. QED BY <1>t, <1>f, <1>r, <1>c, <2>1, AddedKeeps DEF t
  <1>e. pc[w] \notin Errors
    BY <1>1 DEF Errors
  <1>n. NextAfter(w, p) = IF p < Parts - 1 THEN "flush" ELSE IF ends[w] THEN "check" ELSE "scan"
    BY DEF NextAfter
  <1> HIDE DEF t, run, p
  \* The tables.
  <1>2. /\ table' \in Tables /\ table'.ok /\ table'.groups = t.groups
        /\ table'.acc = t.acc /\ table'.extra = t.extra
        /\ table' \in [groups : SUBSET Keys, ok : {TRUE}, acc : [Keys -> Entry],
                       extra : [Keys -> Slots]]
    <2>1. t \in Tables
      BY <1>o DEF Onto
    <2>. QED BY <1>1, <2>1 DEF Tables
  <1>3. /\ table.groups \subseteq table'.groups /\ table'.groups \subseteq Keys
        /\ \A k \in table'.groups : k \in table.groups \/ (PartOf[k] = p /\ RowsOf(w, run) # {})
    BY <1>2, <1>o DEF Onto, Tables
  <1>4. \A C : Holds(t, C) => Holds(table', C)
    <2> SUFFICES ASSUME NEW C, Holds(t, C), NEW st, st = table' PROVE Holds(st, C)
      OBVIOUS
    <2>1. st.groups = t.groups /\ st.acc = t.acc /\ st.extra = t.extra
      BY <1>2
    <2>. QED BY <2>1 DEF Holds, HeldBy, Within
  <1>i2. input' = input /\ Places' = Places
    BY <1>1, SameRows
  \* Their sizes.
  <1>5. \A q : /\ Size(table', q) = Cardinality(InPart(table'.groups, q))
               /\ Size(table, q) = Cardinality(InPart(table.groups, q))
               /\ Size(t, q) = Cardinality(InPart(table'.groups, q))
    BY <1>2 DEF Size, InPart
  <1>6. \A q : /\ Cardinality(InPart(table'.groups, q)) \in Nat
               /\ Cardinality(InPart(table.groups, q)) \in Nat
               /\ Cardinality(InPart(table.groups, q)) <= Cardinality(InPart(table'.groups, q))
    <2> TAKE q
    <2>1. /\ IsFiniteSet(InPart(table'.groups, q))
          /\ Cardinality(InPart(table'.groups, q)) \in Nat
          /\ Cardinality(InPart(table.groups, q)) \in Nat
      BY <1>3, <1>t, PartFinite
    <2>2. InPart(table.groups, q) \in SUBSET InPart(table'.groups, q)
      BY <1>3 DEF InPart
    <2>. QED BY <2>1, <2>2, FS_Subset
  <1>7. \A q : q # p \/ run = {} => InPart(table'.groups, q) = InPart(table.groups, q)
    <2>1. run = {} => RowsOf(w, run) = {}
      BY DEF RowsOf
    <2>. QED BY <1>3, <2>1 DEF InPart
  \* The worker.
  <1>8. /\ pc'[w] = IF t.ok THEN NextAfter(w, p) ELSE "Overflow"
        /\ at'[w] = IF p < Parts - 1 THEN p + 1 ELSE 0
        /\ \A v \in Workers : v # w => pc'[v] = pc[v] /\ at'[v] = at[v]
    BY <1>i, <1>1 DEF TypeOK
  <1>9. scatter'[w] = (IF t.ok THEN scatter[w] \ run ELSE scatter[w])
        /\ \A v \in Workers : v # w => scatter'[v] = scatter[v]
    BY <1>i, <1>1 DEF TypeOK
  <1>10. Apart(w)
    BY <1>1, <1>8, <1>9 DEF Apart
  <1>11. (~t.ok => Spilled') /\ (Spilled => Spilled') /\ (t.ok => (Spilled' => Spilled))
    <2>1. ~t.ok => Spilled'
      BY <1>8 DEF Spilled
    <2>2. Spilled => Spilled'
      BY <1>1, <1>8 DEF Spilled
    <2>3. t.ok => (Spilled' => Spilled)
      <3>1. NextAfter(w, p) # "Overflow"
        BY <1>n
      <3>. QED BY <1>8, <3>1 DEF Spilled
    <2>. QED BY <2>1, <2>2, <2>3
  <1>12. TypeOK'
    <2>1. pc' \in [Workers -> {"scan", "flush", "check", "done"} \cup Errors]
      <3>1. pc' = [pc EXCEPT ![w] = "Overflow"] \/ pc' = [pc EXCEPT ![w] = NextAfter(w, p)]
        BY <1>1
      <3>2. NextAfter(w, p) \in {"scan", "flush", "check"}
        BY <1>n
      <3>. QED BY <1>i, <3>1, <3>2 DEF TypeOK, Errors
    <2>2. at' \in [Workers -> 0..(Parts - 1)]
      <3>1. (IF p < Parts - 1 THEN p + 1 ELSE 0) \in 0..(Parts - 1)
        BY <1>t, SharedAggAssumption
      <3>2. at \in [Workers -> 0..(Parts - 1)]
        BY <1>i DEF TypeOK
      <3>. QED BY <1>1, <3>1, <3>2
    <2>3. scatter' \in [Workers -> SUBSET Nat]
      <3>1. scatter \in [Workers -> SUBSET Nat]
        BY <1>i DEF TypeOK
      <3>2. scatter' = scatter \/ scatter' = [scatter EXCEPT ![w] = @ \ run]
        BY <1>1
      <3>. QED BY <3>1, <3>2
    <2>4. bytes' \in [0..(Parts - 1) -> Nat]
      <3>1. bytes \in [0..(Parts - 1) -> Nat] /\ Size(t, p) \in Nat
        BY <1>i, <1>5, <1>6 DEF TypeOK
      <3>2. bytes' = bytes \/ bytes' = [bytes EXCEPT ![p] = Size(t, p)]
        BY <1>1
      <3>. QED BY <3>1, <3>2
    <2>. QED BY <1>i, <1>1, <1>2, <2>1, <2>2, <2>3, <2>4 DEF TypeOK, Entry, Slots
  <1>13. BufferOK(w)'
    <2>1. scatter'[w] \in SUBSET scatter[w]
      BY <1>9
    <2>2. Cardinality(scatter'[w]) <= Cardinality(scatter[w]) /\ Cardinality(scatter'[w]) \in Nat
      BY <1>f, <2>1, FS_Subset, FS_CardinalityType
    <2>3. Cardinality(scatter[w]) <= FlushRows
      BY <1>b DEF BufferOK
    <2>4. Cardinality(scatter'[w]) <= FlushRows
      BY <1>f, <2>2, <2>3, SharedAggAssumption
    <2>5. scatter'[w] \subseteq 1..read[w]
      BY <1>f, <2>1
    <2>. QED BY <1>1, <1>f, <2>4, <2>5 DEF BufferOK
  <1>14. PhaseOK(w)'
    <2>1. CASE ~t.ok
      <3>1. pc'[w] = "Overflow"
        BY <1>8, <2>1
      <3>. QED BY <3>1 DEF PhaseOK
    <2>2. CASE t.ok /\ p < Parts - 1
      <3>1. /\ pc'[w] = "flush" /\ at'[w] = p + 1 /\ scatter'[w] = scatter[w] \ run
        BY <1>8, <1>9, <1>n, <2>2
      <3>2. \A i \in scatter[w] : p <= PartOf[input[w][i].key]
        BY <1>1, <1>b DEF PhaseOK, p
      <3>3. \A i \in scatter[w] \ run : p + 1 <= PartOf[input[w][i].key]
        <4> TAKE i \in scatter[w] \ run
        <4>1. /\ PartOf[input[w][i].key] \in 0..(Parts - 1) /\ PartOf[input[w][i].key] # p
              /\ p <= PartOf[input[w][i].key]
          BY <1>f, <1>r, <3>2
        <4>. QED BY <4>1, <1>t, SharedAggAssumption
      <3>4. ends[w] \/ from[w] < read[w]
        BY <1>1, <1>b DEF PhaseOK
      <3>. QED BY <1>1, <3>1, <3>3, <3>4 DEF PhaseOK
    <2>3. CASE t.ok /\ ~(p < Parts - 1)
      <3>1. /\ pc'[w] = (IF ends[w] THEN "check" ELSE "scan") /\ scatter'[w] = scatter[w] \ run
        BY <1>8, <1>9, <1>n, <2>3
      <3>2. \A i \in scatter[w] : p <= PartOf[input[w][i].key]
        BY <1>1, <1>b DEF PhaseOK, p
      <3>3. scatter[w] \ run = {}
        <4> SUFFICES ASSUME NEW i \in scatter[w] PROVE i \in run
          OBVIOUS
        <4>1. /\ PartOf[input[w][i].key] \in 0..(Parts - 1)
              /\ p <= PartOf[input[w][i].key]
          BY <1>f, <3>2
        <4>2. PartOf[input[w][i].key] = p
          BY <4>1, <1>t, <2>3, SharedAggAssumption
        <4>. QED BY <1>r, <4>2
      <3>4. Cardinality({}) < FlushRows
        BY FS_EmptySet, SharedAggAssumption
      <3>5. scatter'[w] = {} /\ pc'[w] \in {"check", "scan"}
        BY <3>1, <3>3
      <3>. QED BY <3>4, <3>5 DEF PhaseOK
    <2>. QED BY <2>1, <2>2, <2>3
  <1>15. BufferInv'
    BY <1>i, <1>e, <1>10, <1>13, <1>14, OthersKeep
  <1>16. PublishedInv'
    <2> SUFFICES ASSUME NEW q \in 0..(Parts - 1)
                 PROVE  bytes'[q] <= Size(table', q) /\ (bytes'[q] = Size(table', q) \/ Spilled')
      BY DEF PublishedInv
    <2> DEFINE s == Cardinality(InPart(table.groups, q))
               s2 == Cardinality(InPart(table'.groups, q))
    <2>0. bytes \in [0..(Parts - 1) -> Nat]
      BY <1>i DEF TypeOK
    <2>1. s \in Nat /\ s2 \in Nat /\ s <= s2 /\ Size(table', q) = s2 /\ bytes[q] \in Nat
      BY <1>5, <1>6, <2>0
    <2>2. bytes[q] <= s /\ (bytes[q] = s \/ Spilled)
      BY <1>i, <1>5 DEF PublishedInv
    <2>3. CASE ~t.ok
      <3>1. bytes'[q] = bytes[q] /\ Spilled'
        BY <1>1, <1>11, <2>3
      <3> HIDE DEF s, s2
      <3>. QED BY <2>1, <2>2, <3>1
    <2>4. CASE t.ok /\ (run = {} \/ q # p)
      <3>1. bytes'[q] = bytes[q] /\ s2 = s
        BY <1>1, <1>7, <2>0, <2>4
      <3> HIDE DEF s, s2
      <3>. QED BY <1>11, <2>1, <2>2, <3>1
    <2>5. CASE t.ok /\ run # {} /\ q = p
      <3>1. bytes'[q] = s2
        BY <1>1, <1>5, <2>0, <2>5
      <3> HIDE DEF s, s2
      <3>. QED BY <2>1, <3>1
    <2>. QED BY <2>3, <2>4, <2>5
  <1>17. BudgetInv'
    <2>1. CASE ~t.ok
      <3>1. Failed'
        BY <1>11, <2>1 DEF Failed, Spilled, Errors
      <3>. QED BY <3>1 DEF BudgetInv
    <2>2. CASE t.ok
      <3>1. ends[w] \/ from[w] < read[w]
        BY <1>1, <1>b DEF PhaseOK
      <3>2. Pending(w)'
        BY <1>1, <1>8, <1>n, <2>2, <3>1 DEF Pending
      <3>. QED BY <3>2 DEF BudgetInv
    <2>. QED BY <2>1, <2>2
  <1>18. SumsInv'
    <2>1. CASE ~t.ok \/ Spilled
      BY <1>11, <2>1 DEF SumsInv
    <2>2. CASE t.ok /\ ~Spilled
      <3>1. Holds(table, Counted)
        BY <1>i, <2>2 DEF SumsInv
      <3>2. Holds(t, Counted \cup RowsOf(w, run))
        BY <1>o, <2>2, <3>1 DEF Onto
      <3>3. Counted' = Counted \cup RowsOf(w, run)
        <4>1. \A x \in Places : (x[2] <= read'[x[1]] /\ x[2] \notin scatter'[x[1]]) <=>
                (x[2] <= read[x[1]] /\ x[2] \notin scatter[x[1]]) \/ (x[1] = w /\ x[2] \in run)
          <5> TAKE x \in Places
          <5>0. x[1] \in Workers
            BY DEF Places
          <5>1. read' = read
            BY <1>1
          <5>2. CASE x[1] # w
            BY <1>9, <5>0, <5>1, <5>2
          <5>3. CASE x[1] = w
            <6>1. scatter'[x[1]] = scatter[w] \ run
              BY <1>9, <2>2, <5>3
            <6>2. x[2] \in run => x[2] <= read[w] /\ x[2] \in scatter[w]
              BY <1>f, <1>r
            <6>. QED BY <5>1, <5>3, <6>1, <6>2
          <5>. QED BY <5>2, <5>3
        <4>. QED BY <1>i2, <4>1 DEF Counted, RowsOf
      <3>4. Holds(table', Counted \cup RowsOf(w, run))
        BY <1>4, <3>2
      <3>. QED BY <1>i2, <3>3, <3>4, HoldsNext
    <2>. QED BY <2>1, <2>2
  <1>19. SpillInv'
    <2> SUFFICES ASSUME OneSum, RowsFit PROVE ~Spilled'
      BY <1>i2, SameRows DEF SpillInv
    <2>1. ~Spilled
      BY <1>i DEF SpillInv
    <2>2. Holds(table, Counted)
      BY <1>i, <2>1 DEF SumsInv
    <2>3. t.ok
      BY <1>o, <1>t, <2>2 DEF Onto
    <2>. QED BY <1>11, <2>1, <2>3
  <1>20. AnswerInv'
    <2>1. ~Settled
      BY <1>1 DEF Settled, Errors
    <2>2. answer.outcome = "none"
      BY <1>i, <2>1 DEF AnswerInv
    <2>. QED BY <1>1, <2>2 DEF AnswerInv
  <1>. QED BY <1>12, <1>15, <1>16, <1>17, <1>18, <1>19, <1>20 DEF IInv
-----------------------------------------------------------------------------
(* The answer.                                                             *)
LEMMA RestKeeps ==
  ASSUME IInv, UNCHANGED <<input, read, from, scatter, pc, at, ends, table, bytes>>,
         answer'.outcome \in {"none", "rows"} \cup Errors, AnswerInv'
  PROVE  IInv'
  <1>i. TypeOK /\ BufferInv /\ PublishedInv /\ BudgetInv /\ SumsInv /\ SpillInv
    BY DEF IInv
  <1>1. TypeOK'
    BY <1>i DEF TypeOK
  <1>f. (Failed' <=> Failed) /\ (Spilled' <=> Spilled)
    BY DEF Failed, Spilled
  <1>2. BufferInv'
    BY <1>i, <1>f DEF BufferInv, BufferOK, PhaseOK
  <1>3. PublishedInv'
    BY <1>i, <1>f DEF PublishedInv, Size
  <1>4. BudgetInv'
    BY <1>i, <1>f DEF BudgetInv, Pending
  <1>5. SumsInv'
    <2>1. CASE Spilled
      BY <1>f, <2>1 DEF SumsInv
    <2>2. CASE ~Spilled
      <3>1. Holds(table, Counted)
        BY <1>i, <2>2 DEF SumsInv
      <3>2. Counted' = Counted
        BY CountedStays
      <3>. QED BY <3>1, <3>2, HoldsNext
    <2>. QED BY <2>1, <2>2
  <1>6. SpillInv'
    BY <1>i, <1>f, SameRows DEF SpillInv
  <1>. QED BY <1>1, <1>2, <1>3, <1>4, <1>5, <1>6 DEF IInv

LEMMA FailKeeps ==
  ASSUME IInv, Fail
  PROVE  IInv'
  <1>1. PICK w \in Workers : pc[w] \in Errors /\ answer' = [outcome |-> pc[w], rows |-> {}]
    BY DEF Fail
  <1>2. Settled /\ UNCHANGED <<input, read, from, scatter, pc, at, ends, table, bytes>>
    BY DEF Fail
  <1>3. answer'.outcome = pc[w] /\ pc[w] # "rows"
    BY <1>1 DEF Errors
  <1>4. Settled'
    BY <1>2 DEF Settled
  <1>5. answer'.outcome = "Overflow" => Spilled'
    BY <1>2, <1>3 DEF Spilled
  <1>6. AnswerInv'
    BY <1>3, <1>4, <1>5 DEF AnswerInv
  <1>. QED BY <1>1, <1>2, <1>3, <1>6, RestKeeps

LEMMA IntoRowsKeeps ==
  ASSUME IInv, IntoRows
  PROVE  IInv'
  <1> DEFINE lost == \E k \in table.groups : FinalSum(table.acc[k]) = NoWord
             rows == {<<k, SumsOf(k)>> : k \in {g \in table.groups : Kept(g)}}
  <1>1. /\ AllDone
        /\ answer' = IF lost THEN [outcome |-> "Overflow", rows |-> {}]
                     ELSE [outcome |-> "rows", rows |-> rows]
        /\ UNCHANGED <<input, read, from, scatter, pc, at, ends, table, bytes>>
    BY DEF IntoRows, AllDone
  <1>2. Settled' /\ AllDone'
    BY <1>1 DEF Settled, AllDone
  <1>k. \A k : SumsOf(k)' = SumsOf(k) /\ (Kept(k)' <=> Kept(k))
    BY <1>1 DEF SumsOf, Kept
  <1>3. CASE lost
    <2>1. answer'.outcome = "Overflow"
      BY <1>1, <1>3
    <2>2. \E k \in table'.groups : FinalSum(table'.acc[k]) = NoWord
      BY <1>1, <1>3
    <2>3. AnswerInv'
      BY <1>2, <2>1, <2>2 DEF AnswerInv
    <2>. QED BY <1>1, <2>1, <2>3, RestKeeps DEF Errors
  <1>4. CASE ~lost
    <2>1. answer'.outcome = "rows" /\ answer'.rows = rows
      BY <1>1, <1>4
    <2>2. \A k \in table'.groups : FinalSum(table'.acc[k]) # NoWord
      BY <1>1, <1>4
    <2>3. rows = {<<k, SumsOf(k)'>> : k \in {g \in table'.groups : Kept(g)'}}
      BY <1>1, <1>k
    <2> HIDE DEF rows, lost
    <2>4. AnswerInv'
      BY <1>2, <2>1, <2>2, <2>3 DEF AnswerInv
    <2>. QED BY <1>1, <2>1, <2>4, RestKeeps
  <1>. QED BY <1>3, <1>4

LEMMA Starts ==
  ASSUME Init
  PROVE  IInv
  <1>1. TypeOK
    <2>1. table \in [groups : SUBSET Keys, ok : {TRUE},
                acc : [Keys -> [wide : BOOLEAN, hi : HiWord, lo : Word]],
                extra : [Keys -> [ExtraAggs -> Word \cup {NoWord}]]]
      <3>1. Narrowed(0) \in [wide : BOOLEAN, hi : HiWord, lo : Word]
        BY WordFacts DEF Narrowed
      <3>2. [k \in Keys |-> Narrowed(0)] \in [Keys -> [wide : BOOLEAN, hi : HiWord, lo : Word]]
        BY <3>1
      <3>3. [k \in Keys |-> [a \in ExtraAggs |-> NoWord]]
              \in [Keys -> [ExtraAggs -> Word \cup {NoWord}]]
        OBVIOUS
      <3>. QED BY <3>2, <3>3 DEF Init
    <2>2. 0 \in 0..(Parts - 1)
      BY SharedAggAssumption
    <2>3. at \in [Workers -> 0..(Parts - 1)]
      BY <2>2 DEF Init
    <2>4. scatter \in [Workers -> SUBSET Nat] /\ ends \in [Workers -> BOOLEAN]
          /\ read \in [Workers -> Nat] /\ from \in [Workers -> Nat]
          /\ pc \in [Workers -> {"scan", "flush", "check", "done"} \cup Errors]
      BY DEF Init
    <2>5. bytes \in [0..(Parts - 1) -> Nat]
      BY DEF Init
    <2>. QED BY <2>1, <2>3, <2>4, <2>5 DEF Init, TypeOK
  <1>2. BufferInv
    <2> SUFFICES ASSUME NEW w \in Workers PROVE BufferOK(w) /\ PhaseOK(w)
      BY DEF BufferInv
    <2>1. read[w] = 0 /\ from[w] = 0 /\ scatter[w] = {} /\ pc[w] = "scan"
      BY DEF Init
    <2>2. Len(input[w]) \in Nat
      BY <1>1, TypeFacts
    <2>3. Cardinality(scatter[w]) = 0
      BY <2>1, FS_EmptySet
    <2>4. BufferOK(w)
      BY <2>1, <2>2, <2>3, SharedAggAssumption DEF BufferOK
    <2>5. PhaseOK(w)
      BY <2>1, <2>3, SharedAggAssumption DEF PhaseOK
    <2>. QED BY <2>4, <2>5
  <1>g. table.groups = {}
    BY DEF Init
  <1>3. PublishedInv
    <2>1. \A p : Size(table, p) = 0
      <3>1. \A p : {k \in table.groups : PartOf[k] = p} = {}
        BY <1>g
      <3>. QED BY <3>1, FS_EmptySet DEF Size
    <2>2. \A p \in 0..(Parts - 1) : bytes[p] = 0
      BY DEF Init
    <2>. QED BY <2>1, <2>2 DEF PublishedInv
  <1>4. BudgetInv
    <2>1. Cardinality(table.groups) = 0
      BY <1>g, FS_EmptySet
    <2>. QED BY <2>1, SharedAggAssumption DEF BudgetInv
  <1>5. SumsInv
    <2>1. Counted = {}
      <3> SUFFICES ASSUME NEW x \in Counted PROVE FALSE
        OBVIOUS
      <3>1. PICK v \in Workers : x \in {v} \X DOMAIN input[v]
        BY DEF Counted, Places
      <3>2. DOMAIN input[v] = 1..Len(input[v]) /\ Len(input[v]) \in Nat
        BY <1>1, TypeFacts
      <3>3. x[1] = v /\ x[2] \in 1..Len(input[v]) /\ x[2] <= read[v]
        BY <3>1, <3>2 DEF Counted
      <3>4. read[v] = 0
        BY DEF Init
      <3>. QED BY <3>2, <3>3, <3>4
    <2>2. \A k \in Keys : \A a \in Aggs : HeldBy(table, k, a) = SumOf({}, k, a)
      <3> SUFFICES ASSUME NEW k \in Keys, NEW a \in Aggs
                   PROVE  HeldBy(table, k, a) = SumOf({}, k, a)
        OBVIOUS
      <3>1. SumOf({}, k, a) = 0
        BY <1>1, TypeFacts, SumOfNone
      <3>2. HeldBy(table, k, a) = 0
        <4>1. CASE a = 0
          <5>1. table.acc[k] = Narrowed(0)
            BY DEF Init
          <5>2. ValueOf(Narrowed(0)) = 0
            BY DEF Narrowed, ValueOf
          <5>. QED BY <4>1, <5>1, <5>2 DEF HeldBy
        <4>2. CASE a # 0
          <5>1. a \in ExtraAggs
            BY <4>2, SharedAggAssumption DEF Aggs, ExtraAggs
          <5>2. table.extra[k][a] = NoWord
            BY <5>1 DEF Init
          <5>. QED BY <4>2, <5>2 DEF HeldBy
        <4>. QED BY <4>1, <4>2
      <3>. QED BY <3>1, <3>2
    <2>3. Within(table, Cardinality({}))
      <3>1. Cardinality({}) = 0
        BY FS_EmptySet
      <3>2. \A k \in Keys : table.acc[k].hi = 0
        BY DEF Init, Narrowed
      <3>. QED BY <3>1, <3>2 DEF Within
    <2>4. Holds(table, {})
      BY <1>g, <2>2, <2>3 DEF Holds
    <2>. QED BY <2>1, <2>4 DEF SumsInv
  <1>6. SpillInv
    <2>1. \A v \in Workers : pc[v] = "scan"
      BY DEF Init
    <2>. QED BY <2>1 DEF SpillInv, Spilled
  <1>7. AnswerInv
    <2>1. answer.outcome = "none"
      BY DEF Init
    <2>. QED BY <2>1 DEF AnswerInv
  <1>. QED BY <1>1, <1>2, <1>3, <1>4, <1>5, <1>6, <1>7 DEF IInv

LEMMA StepKeeps ==
  ASSUME IInv, [Next]_vars
  PROVE  IInv'
  <1>1. CASE UNCHANGED vars
    <2>1. UNCHANGED <<input, read, from, scatter, pc, at, ends, table, bytes>> /\ answer' = answer
      BY <1>1 DEF vars
    <2>2. AnswerInv /\ answer.outcome \in {"none", "rows"} \cup Errors
      BY DEF IInv, TypeOK
    <2>k. \A k : SumsOf(k)' = SumsOf(k) /\ (Kept(k)' <=> Kept(k))
      BY <2>1 DEF SumsOf, Kept
    <2>s. (Settled' <=> Settled) /\ (AllDone' <=> AllDone) /\ (Spilled' <=> Spilled)
      BY <2>1 DEF Settled, AllDone, Spilled
    <2>3. AnswerInv'
      BY <2>1, <2>2, <2>k, <2>s DEF AnswerInv
    <2>. QED BY <2>1, <2>2, <2>3, RestKeeps
  <1>2. ASSUME NEW w \in Workers, WorkerStep(w) PROVE IInv'
    BY <1>2, PushKeeps, EndBatchKeeps, FlushKeeps, CheckBudgetKeeps, AbandonKeeps DEF WorkerStep
  <1>. QED BY <1>1, <1>2, FailKeeps, IntoRowsKeeps DEF Next
-----------------------------------------------------------------------------
LEMMA Invariant == Spec => []IInv
  <1>1. Init => IInv
    BY Starts
  <1>2. IInv /\ [Next]_vars => IInv'
    BY StepKeeps
  <1>. QED BY <1>1, <1>2, PTL DEF Spec

(* No row is lost or counted twice: until a sum overflows, a group holds   *)
(* the sum of the rows that are in no buffer any more.                     *)
THEOREM RowsAreConserved == Spec => []RowsConserved
  <1>1. IInv => RowsConserved
    <2> SUFFICES ASSUME IInv PROVE RowsConserved
      OBVIOUS
    <2>1. TypeOK /\ BufferInv /\ SumsInv
      BY DEF IInv
    <2>2. Buffers
      BY <2>1 DEF BufferInv, BufferOK, Buffers
    <2>3. Conserved
      <3> SUFFICES ASSUME \A w \in Workers : pc[w] # "Overflow",
                          NEW k \in Keys, NEW a \in 0..(SumArity - 1)
                   PROVE  Held(k, a) = SumOf(Counted, k, a)
        BY DEF Conserved
      <3>1. Holds(table, Counted)
        BY <2>1 DEF SumsInv, Spilled
      <3>2. HeldBy(table, k, a) = SumOf(Counted, k, a)
        BY <3>1 DEF Holds, Aggs
      <3>. QED BY <3>2 DEF Held, HeldBy
    <2>. QED BY <2>1, <2>2, <2>3 DEF RowsConserved
  <1>. QED BY <1>1, Invariant, PTL

(* The budget: an answer is never larger than mem_pool_bytes, though the   *)
(* counters it is checked against lag behind the tables.                   *)
THEOREM BudgetIsKept == Spec => []BudgetKept
  <1>1. IInv => BudgetKept
    <2> SUFFICES ASSUME IInv PROVE BudgetKept
      OBVIOUS
    <2>1. BudgetHolds
      <3> SUFFICES ASSUME answer.outcome = "rows"
                   PROVE  Cardinality(table.groups) <= MemPool
        BY DEF BudgetHolds
      <3>1. AllDone
        BY DEF IInv, AnswerInv
      <3>2. ~Failed /\ \A w \in Workers : ~Pending(w)
        BY <3>1 DEF AllDone, Failed, Errors, Pending
      <3>. QED BY <3>2 DEF IInv, BudgetInv
    <2>2. PublishedIsALowerBound
      <3>1. DOMAIN bytes = 0..(Parts - 1)
        BY DEF IInv, TypeOK
      <3>. QED BY <3>1 DEF IInv, PublishedInv, PublishedIsALowerBound
    <2>. QED BY <2>1, <2>2 DEF BudgetKept
  <1>. QED BY <1>1, Invariant, PTL

\* When every worker is done, the tables hold all the rows there are.
LEMMA AllCounted ==
  ASSUME IInv, AllDone
  PROVE  /\ Holds(table, Places)
         /\ \A k \in Keys : Seen(k) <=> k \in table.groups
  <1>i. TypeOK /\ BufferInv /\ SumsInv
    BY DEF IInv
  <1>1. ~Failed /\ ~Spilled
    BY DEF AllDone, Failed, Spilled, Errors
  <1>2. \A w \in Workers : read[w] = Len(input[w]) /\ scatter[w] = {}
    BY <1>1, <1>i DEF AllDone, BufferInv, PhaseOK
  <1>p. \A x : x \in Places <=> \E v \in Workers : x \in {v} \X DOMAIN input[v]
    BY DEF Places
  <1>d. \A v \in Workers : DOMAIN input[v] = 1..Len(input[v]) /\ Len(input[v]) \in Nat
    BY <1>i, TypeFacts
  <1>3. Counted = Places
    <2> SUFFICES ASSUME NEW x \in Places PROVE x[2] <= read[x[1]] /\ x[2] \notin scatter[x[1]]
      BY DEF Counted
    <2>1. PICK v \in Workers : x \in {v} \X DOMAIN input[v]
      BY <1>p
    <2>2. x[1] = v /\ x[2] \in 1..Len(input[v])
      BY <1>d, <2>1
    <2>. QED BY <1>2, <1>d, <2>2
  <1>4. Holds(table, Places)
    BY <1>1, <1>3, <1>i DEF SumsInv
  <1>5. table.groups = {RowAt(x).key : x \in Places}
    BY <1>4 DEF Holds
  <1>6. ASSUME NEW k \in Keys PROVE Seen(k) <=> k \in table.groups
    <2>1. ASSUME Seen(k) PROVE k \in table.groups
      <3>1. PICK v \in Workers : \E i \in DOMAIN input[v] : input[v][i].key = k
        BY <2>1 DEF Seen
      <3>2. PICK i \in DOMAIN input[v] : input[v][i].key = k
        BY <3>1
      <3>3. <<v, i>> \in Places /\ RowAt(<<v, i>>).key = k
        BY <1>p, <3>2 DEF RowAt
      <3>. QED BY <1>5, <3>3
    <2>2. ASSUME k \in table.groups PROVE Seen(k)
      <3>1. PICK x \in Places : RowAt(x).key = k
        BY <1>5, <2>2
      <3>2. PICK v \in Workers : x \in {v} \X DOMAIN input[v]
        BY <1>p
      <3>3. x[1] = v /\ x[2] \in DOMAIN input[v]
        BY <3>2
      <3>. QED BY <3>1, <3>3 DEF Seen, RowAt
    <2>. QED BY <2>1, <2>2
  <1>. QED BY <1>4, <1>6

(* What is answered is exact, whatever the running sums did and in         *)
(* whatever order the rows came; and a query with one sum is refused only  *)
(* when an answer does not fit.                                            *)
THEOREM AnswersAreHonest == Spec => []AnswerHonest
  <1>w. \A k \in Keys : table \in Tables => table.acc[k] \in Acc
    BY TableFields, WordFacts
  <1>f. \A acc \in Acc : FinalSum(acc) = IF ValueOf(acc) \in Word THEN ValueOf(acc) ELSE NoWord
    BY FinalSumExact
  <1>1. IInv => AnswerExact
    <2> SUFFICES ASSUME IInv, answer.outcome = "rows"
                 PROVE  answer.rows =
                          {<<k, [a \in 0..(SumArity - 1) |-> Exact(k, a)]>> :
                             k \in {g \in Keys : Seen(g) /\ (DropZero => Exact(g, 0) # 0)}}
      BY DEF AnswerExact
    <2>1. /\ AllDone /\ \A k \in table.groups : FinalSum(table.acc[k]) # NoWord
          /\ answer.rows = {<<k, SumsOf(k)>> : k \in {g \in table.groups : Kept(g)}}
      BY DEF IInv, AnswerInv
    <2>2. /\ Holds(table, Places)
          /\ \A k \in Keys : Seen(k) <=> k \in table.groups
      BY <2>1, AllCounted
    <2>3. table \in Tables /\ table.groups \subseteq Keys
      BY TypeFacts DEF IInv
    <2>4. \A k \in Keys : \A a \in 0..(SumArity - 1) : HeldBy(table, k, a) = Exact(k, a)
      BY <2>2 DEF Holds, Exact, Aggs
    <2>z. 0 \in 0..(SumArity - 1)
      BY SharedAggAssumption
    <2>5. \A k \in table.groups : FinalSum(table.acc[k]) = Exact(k, 0)
      <3> TAKE k \in table.groups
      <3>1. FinalSum(table.acc[k]) = ValueOf(table.acc[k])
        BY <1>w, <1>f, <2>1, <2>3
      <3>2. HeldBy(table, k, 0) = ValueOf(table.acc[k])
        BY DEF HeldBy
      <3>. QED BY <2>3, <2>4, <2>z, <3>1, <3>2
    <2>6. \A k \in table.groups : SumsOf(k) = [a \in 0..(SumArity - 1) |-> Exact(k, a)]
      <3> TAKE k \in table.groups
      <3>1. \A a \in 0..(SumArity - 1) :
              (IF a = 0 THEN FinalSum(table.acc[k])
               ELSE IF table.extra[k][a] = NoWord THEN 0 ELSE table.extra[k][a]) = Exact(k, a)
        <4> TAKE a \in 0..(SumArity - 1)
        <4>1. CASE a = 0
          BY <2>5, <4>1
        <4>2. CASE a # 0
          <5>1. HeldBy(table, k, a) = Exact(k, a)
            BY <2>3, <2>4
          <5>. QED BY <4>2, <5>1 DEF HeldBy
        <4>. QED BY <4>1, <4>2
      <3>. QED BY <3>1 DEF SumsOf
    <2>7. {g \in table.groups : Kept(g)} = {g \in Keys : Seen(g) /\ (DropZero => Exact(g, 0) # 0)}
      <3>1. \A g \in table.groups : Kept(g) <=> (DropZero => Exact(g, 0) # 0)
        BY <2>5 DEF Kept
      <3>. QED BY <2>2, <2>3, <3>1
    <2> DEFINE G == {g \in table.groups : Kept(g)}
               H == {g \in Keys : Seen(g) /\ (DropZero => Exact(g, 0) # 0)}
               Row2(k) == [a \in 0..(SumArity - 1) |-> Exact(k, a)]
    <2>8. answer.rows = {<<k, SumsOf(k)>> : k \in G} /\ G = H
          /\ \A k \in G : SumsOf(k) = Row2(k)
      BY <2>1, <2>6, <2>7
    <2> HIDE DEF G, H, Row2
    <2>9. answer.rows = {<<k, Row2(k)>> : k \in H}
      BY <2>8
    <2>. QED BY <2>9 DEF H, Row2
  <1>2. IInv => OneSumRefusedForTheAnswer
    <2> SUFFICES ASSUME IInv, OneSum, RowsFit, answer.outcome = "Overflow"
                 PROVE  \E k \in Keys : \E a \in 0..(SumArity - 1) : Exact(k, a) \notin Word
      BY DEF OneSumRefusedForTheAnswer, RefusedOnlyForTheAnswer
    <2>1. ~Spilled
      BY DEF IInv, SpillInv
    <2>2. AllDone /\ \E k \in table.groups : FinalSum(table.acc[k]) = NoWord
      BY <2>1 DEF IInv, AnswerInv
    <2>3. PICK k \in table.groups : FinalSum(table.acc[k]) = NoWord
      BY <2>2
    <2>4. table \in Tables /\ k \in Keys
      BY TypeFacts DEF IInv
    <2>5. ValueOf(table.acc[k]) \notin Word
      BY <1>w, <1>f, <2>3, <2>4, WordFacts
    <2>6. 0 \in 0..(SumArity - 1)
      BY SharedAggAssumption
    <2>7. Exact(k, 0) = ValueOf(table.acc[k])
      BY <2>2, <2>4, <2>6, AllCounted DEF Holds, HeldBy, Exact, Aggs
    <2>. QED BY <2>4, <2>5, <2>6, <2>7
  <1>3. IInv => AnswerHonest
    BY <1>1, <1>2 DEF AnswerHonest
  <1>. QED BY <1>3, Invariant, PTL
=============================================================================
