---------------------------- MODULE FoldPoolProofs ----------------------------
(***************************************************************************)
(* The pool for any threads, queries, files and tables.                    *)
(***************************************************************************)
EXTENDS FoldPool, TLAPS, FiniteSetTheorems, WellFoundedInduction

(* Induction over the naturals, for a set.                                 *)
LEMMA ByInduction ==
  ASSUME NEW S, 0 \in S, \A n \in Nat : n \in S => n + 1 \in S
  PROVE  \A n \in Nat : n \in S
  <1> SUFFICES ASSUME NEW n \in Nat, n \notin S PROVE FALSE
    OBVIOUS
  <1> DEFINE Missing == Nat \ S
  <1>1. Missing \subseteq Nat /\ Missing # {}
    OBVIOUS
  <1>2. PICK m \in Missing : \A k \in Missing : ~(<<k, m>> \in OpToRel(<, Nat))
    BY <1>1, NatLessThanWellFounded, WFMin
  <1>3. \A k \in Missing : ~(k < m)
    BY <1>1, <1>2 DEF OpToRel
  <1>4. m \in Nat /\ m # 0 /\ m \notin S
    OBVIOUS
  <1>5. m - 1 \in Nat /\ m - 1 \in S
    BY <1>3, <1>4
  <1>6. (m - 1) + 1 \in S
    BY <1>5
  <1>. QED BY <1>4, <1>6

-----------------------------------------------------------------------------
(* coalesce: the loop cuts behind morsels of the table, and, when the      *)
(* query shares the pool, fewer times than it may have slices.             *)
Started == [cuts |-> {}, rows |-> 0]
Turns(d, n) == CHOOSE f : f = [m \in 0..n |-> IF m = 0 THEN Started ELSE Grown(d, f[m - 1], m)]

LEMMA LoopRuns ==
  ASSUME NEW d, NEW n \in Nat
  PROVE  Turns(d, n) = [m \in 0..n |-> IF m = 0 THEN Started ELSE Grown(d, Turns(d, n)[m - 1], m)]
  <1> DEFINE Runs(k, f) == f = [m \in 0..k |-> IF m = 0 THEN Started ELSE Grown(d, f[m - 1], m)]
             S == {k \in Nat : \E f : Runs(k, f)}
  <1>1. 0 \in S
    <2>1. Runs(0, [m \in 0..0 |-> Started])
      OBVIOUS
    <2>. QED BY <2>1
  <1>2. ASSUME NEW k \in Nat, k \in S PROVE k + 1 \in S
    <2>1. PICK f : Runs(k, f)
      BY <1>2
    <2> DEFINE g == [m \in 0..(k + 1) |-> IF m = k + 1 THEN Grown(d, f[k], k + 1) ELSE f[m]]
    <2>2. \A m \in 0..(k + 1) : g[m] = IF m = 0 THEN Started ELSE Grown(d, g[m - 1], m)
      <3> SUFFICES ASSUME NEW m \in 0..(k + 1)
                   PROVE  g[m] = IF m = 0 THEN Started ELSE Grown(d, g[m - 1], m)
        OBVIOUS
      <3>1. CASE m = k + 1
        <4>1. g[m] = Grown(d, f[k], k + 1) /\ g[m - 1] = f[k] /\ m # 0
          BY <3>1
        <4>. QED BY <4>1, <3>1
      <3>2. CASE m # k + 1
        <4>1. m \in 0..k
          BY <3>2
        <4>2. f[m] = IF m = 0 THEN Started ELSE Grown(d, f[m - 1], m)
          BY <4>1, <2>1
        <4>3. g[m] = f[m] /\ (m # 0 => g[m - 1] = f[m - 1])
          BY <4>1
        <4>. QED BY <4>2, <4>3
      <3>. QED BY <3>1, <3>2
    <2>3. Runs(k + 1, g)
      BY <2>2
    <2> HIDE DEF g, Runs
    <2>4. \E h : Runs(k + 1, h)
      BY <2>3
    <2>5. k + 1 \in Nat
      BY <1>2
    <2>. QED BY <2>4, <2>5
  <1>3. n \in S
    BY <1>1, <1>2, ByInduction
  <1>. QED BY <1>3 DEF Turns

LEMMA CutsAre == \A d : Cuts(d) = Turns(d, Len(lens))[Len(lens)].cuts
  BY DEF Cuts, Turns, Started

\* What the loop has at each turn.
Turn(d, n, acc) ==
  /\ acc.cuts \in SUBSET (1..n) /\ acc.rows \in Nat
  /\ IsFiniteSet(acc.cuts)
  /\ d > 0 => Cardinality(acc.cuts) + 1 <= d * Oversub

LEMMA TurnGrows ==
  ASSUME NEW d \in Nat, NEW n \in Nat, NEW acc, Turn(d, n, acc), lens[n + 1] \in Nat,
         acc = [cuts |-> acc.cuts, rows |-> acc.rows]
  PROVE  /\ Turn(d, n + 1, Grown(d, acc, n + 1))
         /\ Grown(d, acc, n + 1) = [cuts |-> Grown(d, acc, n + 1).cuts,
                                    rows |-> Grown(d, acc, n + 1).rows]
  <1> DEFINE rows == acc.rows + lens[n + 1]
             next == Grown(d, acc, n + 1)
             wide == [cuts |-> acc.cuts \cup {n + 1}, rows |-> 0]
             same == [cuts |-> acc.cuts, rows |-> rows]
             full == rows >= Target(d) /\ (d > 0 => Cardinality(acc.cuts) + 1 < d * Oversub)
  <1>1. next = IF full THEN wide ELSE same
    BY DEF Grown
  <1>2. /\ acc.cuts \in SUBSET (1..n) /\ acc.rows \in Nat /\ IsFiniteSet(acc.cuts)
        /\ d > 0 => Cardinality(acc.cuts) + 1 <= d * Oversub
    BY DEF Turn
  <1>3. ASSUME full PROVE Turn(d, n + 1, wide)
    <2>1. n + 1 \notin acc.cuts
      BY <1>2
    <2>2. /\ IsFiniteSet(acc.cuts \cup {n + 1})
          /\ Cardinality(acc.cuts \cup {n + 1}) = Cardinality(acc.cuts) + 1
      BY <1>2, <2>1, FS_AddElement
    <2>3. Cardinality(acc.cuts) \in Nat
      BY <1>2, FS_CardinalityType
    <2>4. d > 0 => (Cardinality(acc.cuts) + 1) + 1 <= d * Oversub
      BY <1>3, <2>3 DEF Oversub
    <2>5. acc.cuts \cup {n + 1} \in SUBSET (1..(n + 1))
      BY <1>2
    <2>. QED BY <2>2, <2>4, <2>5 DEF Turn
  <1>4. Turn(d, n + 1, same)
    <2>1. acc.cuts \in SUBSET (1..(n + 1)) /\ rows \in Nat
      BY <1>2
    <2>. QED BY <1>2, <2>1 DEF Turn
  <1>. HIDE DEF full
  <1>5. CASE full
    BY <1>1, <1>3, <1>5
  <1>6. CASE ~full
    BY <1>1, <1>4, <1>6
  <1>. QED BY <1>5, <1>6

(* The cuts are behind morsels of the table, and leave room for the last   *)
(* slice of a share.                                                       *)
LEMMA CutsKept ==
  ASSUME lens \in Seq(Nat), NEW d \in Nat
  PROVE  /\ Cuts(d) \subseteq Morsels /\ IsFiniteSet(Cuts(d))
         /\ d > 0 => Cardinality(Cuts(d)) + 1 <= d * Oversub
  <1> DEFINE N == Len(lens)
             turn == Turns(d, N)
             Right(n) == /\ Turn(d, n, turn[n])
                         /\ turn[n] = [cuts |-> turn[n].cuts, rows |-> turn[n].rows]
             S == {n \in Nat : n <= N => Right(n)}
  <1>1. N \in Nat /\ Morsels = 1..N /\ \A n \in 1..N : lens[n] \in Nat
    BY DEF Morsels
  <1>2. turn = [m \in 0..N |-> IF m = 0 THEN Started ELSE Grown(d, turn[m - 1], m)]
    BY <1>1, LoopRuns
  <1> HIDE DEF N, turn
  <1>3. 0 \in S
    <2>1. turn[0] = Started
      BY <1>1, <1>2
    <2>2. Turn(d, 0, Started)
      BY FS_EmptySet DEF Turn, Started, Oversub
    <2>3. Started = [cuts |-> Started.cuts, rows |-> Started.rows]
      BY DEF Started
    <2>. QED BY <2>1, <2>2, <2>3
  <1>4. ASSUME NEW n \in Nat, n \in S PROVE n + 1 \in S
    <2> SUFFICES ASSUME n + 1 <= N PROVE Right(n + 1)
      BY <1>4
    <2>1. Right(n)
      BY <1>4, <1>1
    <2>2. turn[n + 1] = Grown(d, turn[n], n + 1)
      BY <1>1, <1>2, <1>4
    <2>3. lens[n + 1] \in Nat
      BY <1>1, <1>4
    <2>. QED BY <2>1, <2>2, <2>3, <1>4, TurnGrows
  <1>5. N \in S
    BY <1>1, <1>3, <1>4, ByInduction
  <1>6. Turn(d, N, turn[N])
    BY <1>1, <1>5
  <1>7. Cuts(d) = turn[N].cuts
    BY CutsAre DEF N, turn
  <1>. QED BY <1>1, <1>6, <1>7 DEF Turn

\* What a slice is.
LEMMA SliceIs ==
  ASSUME lens \in Seq(Nat), NEW d, NEW s \in Coalesce(d)
  PROVE  /\ s = [first |-> s.first, last |-> s.last]
         /\ s.first \in 1..Len(lens) /\ s.last \in 1..Len(lens) /\ s.first <= s.last
         /\ s.first = 1 \/ s.first - 1 \in Cuts(d)
         /\ s.last = Len(lens) \/ s.last \in Cuts(d)
         /\ \A m \in Cuts(d) : ~(s.first <= m /\ m < s.last)
  <1>1. Morsels = 1..Len(lens)
    BY DEF Morsels
  <1>. QED BY <1>1 DEF Coalesce

(* Every morsel is in a slice: the one from the last cut before it to the  *)
(* first at or behind it.                                                  *)
LEMMA SliceOf ==
  ASSUME lens \in Seq(Nat), NEW d \in Nat, NEW m \in Morsels
  PROVE  \E s \in Coalesce(d) : s.first <= m /\ m <= s.last
  <1> DEFINE N == Len(lens)
             C == Cuts(d)
             From(n, f) == f \in 1..n /\ (f = 1 \/ f - 1 \in C) /\ \A c \in C : ~(f <= c /\ c < n)
             To(n, l) == l \in n..N /\ (l = N \/ l \in C) /\ \A c \in C : ~(n <= c /\ c < l)
             S == {n \in Nat : n > 0 => \E f : From(n, f)}
             T == {k \in Nat : k < N => \E l : To(N - k, l)}
  <1>1. N \in Nat /\ Morsels = 1..N /\ C \subseteq 1..N
    BY CutsKept DEF Morsels
  <1> HIDE DEF N, C
  <1>2. 0 \in S
    OBVIOUS
  <1>3. ASSUME NEW n \in Nat, n \in S PROVE n + 1 \in S
    <2>1. CASE n = 0
      <3>1. From(1, 1)
        BY <1>1
      <3> HIDE DEF From
      <3>2. n + 1 = 1 /\ n + 1 \in Nat
        BY <2>1
      <3>3. \E f : From(n + 1, f)
        BY <3>1, <3>2
      <3>. QED BY <3>2, <3>3
    <2>2. CASE n # 0
      <3>1. PICK f : From(n, f)
        BY <1>3, <2>2
      <3>2. n \in C => From(n + 1, n + 1)
        BY <1>1, <1>3
      <3>3. n \notin C => From(n + 1, f)
        BY <1>1, <1>3, <3>1
      <3> HIDE DEF From
      <3>4. \E g : From(n + 1, g)
        BY <3>2, <3>3
      <3>5. n + 1 \in Nat
        BY <1>3
      <3>. QED BY <3>4, <3>5
    <2>. QED BY <2>1, <2>2
  <1>4. 0 \in T
    <2>1. N > 0 => To(N - 0, N)
      BY <1>1
    <2>. QED BY <2>1
  <1>5. ASSUME NEW k \in Nat, k \in T PROVE k + 1 \in T
    <2> SUFFICES ASSUME k + 1 < N PROVE \E l : To(N - (k + 1), l)
      BY <1>5
    <2>1. PICK l : To(N - k, l)
      BY <1>1, <1>5
    <2>2. CASE N - (k + 1) \in C
      <3>1. To(N - (k + 1), N - (k + 1))
        BY <1>1, <1>5, <2>2
      <3>. QED BY <3>1
    <2>3. CASE N - (k + 1) \notin C
      <3>1. To(N - (k + 1), l)
        BY <1>1, <1>5, <2>1, <2>3
      <3>. QED BY <3>1
    <2>. QED BY <2>2, <2>3
  <1>6. m \in 1..N /\ N - m \in Nat /\ N - m < N /\ N - (N - m) = m
    BY <1>1
  <1>7. m \in S /\ N - m \in T
    <2> HIDE DEF S, T
    <2>1. \A n \in Nat : n \in S
      BY <1>2, <1>3, ByInduction
    <2>2. \A n \in Nat : n \in T
      BY <1>4, <1>5, ByInduction
    <2>. QED BY <2>1, <2>2, <1>6
  <1>8. PICK f : From(m, f)
    BY <1>6, <1>7
  <1>9. PICK l : To(m, l)
    BY <1>6, <1>7
  <1>10. /\ f \in 1..N /\ l \in 1..N /\ f <= m /\ m <= l
         /\ f = 1 \/ f - 1 \in C
         /\ l = N \/ l \in C
         /\ \A c \in C : ~(f <= c /\ c < l)
    BY <1>1, <1>6, <1>8, <1>9
  <1> DEFINE s == [first |-> f, last |-> l]
  <1>11. s \in Coalesce(d)
    BY <1>1, <1>10 DEF Coalesce, N, C
  <1>. QED BY <1>10, <1>11

(* Two slices have no morsel in common.                                    *)
LEMMA SlicesApart ==
  ASSUME lens \in Seq(Nat), NEW d \in Nat, NEW s \in Coalesce(d), NEW r \in Coalesce(d),
         NEW m \in Morsels, s.first <= m, m <= s.last, r.first <= m, m <= r.last
  PROVE  s = r
  <1> DEFINE N == Len(lens)
             C == Cuts(d)
  <1>1. N \in Nat /\ m \in 1..N
    BY DEF Morsels
  <1>2. /\ s.first \in 1..N /\ s.last \in 1..N
        /\ s.first = 1 \/ s.first - 1 \in C
        /\ s.last = N \/ s.last \in C
        /\ \A c \in C : ~(s.first <= c /\ c < s.last)
    BY SliceIs
  <1>3. /\ r.first \in 1..N /\ r.last \in 1..N
        /\ r.first = 1 \/ r.first - 1 \in C
        /\ r.last = N \/ r.last \in C
        /\ \A c \in C : ~(r.first <= c /\ c < r.last)
    BY SliceIs
  <1> HIDE DEF N, C
  <1>4. ~(s.first < r.first)
    <2> SUFFICES ASSUME s.first < r.first PROVE FALSE
      OBVIOUS
    <2>1. r.first - 1 \in C
      BY <1>2, <1>3
    <2>2. s.first <= r.first - 1 /\ r.first - 1 < s.last
      BY <1>1, <1>2, <1>3
    <2>. QED BY <2>1, <2>2, <1>2
  <1>5. ~(r.first < s.first)
    <2> SUFFICES ASSUME r.first < s.first PROVE FALSE
      OBVIOUS
    <2>1. s.first - 1 \in C
      BY <1>2, <1>3
    <2>2. r.first <= s.first - 1 /\ s.first - 1 < r.last
      BY <1>1, <1>2, <1>3
    <2>. QED BY <2>1, <2>2, <1>3
  <1>6. ~(s.last < r.last)
    BY <1>1, <1>2, <1>3
  <1>7. ~(r.last < s.last)
    BY <1>1, <1>2, <1>3
  <1>8. s.first = r.first /\ s.last = r.last
    BY <1>2, <1>3, <1>4, <1>5, <1>6, <1>7
  <1>9. s = [first |-> s.first, last |-> s.last] /\ r = [first |-> r.first, last |-> r.last]
    BY SliceIs
  <1>. QED BY <1>8, <1>9

(* A query that shares the pool has at most as many slices as its share    *)
(* allows.                                                                 *)
LEMMA SlicesFew ==
  ASSUME lens \in Seq(Nat), NEW d \in Nat
  PROVE  /\ IsFiniteSet(Coalesce(d))
         /\ d > 0 => Cardinality(Coalesce(d)) <= d * Oversub
  <1> DEFINE N == Len(lens)
             C == Cuts(d)
             T == C \cup {N}
             f == [s \in Coalesce(d) |-> s.last]
  <1>1. IsFiniteSet(C) /\ (d > 0 => Cardinality(C) + 1 <= d * Oversub)
    BY CutsKept
  <1>2. IsFiniteSet(T) /\ Cardinality(T) <= Cardinality(C) + 1
    <2>1. /\ IsFiniteSet(T)
          /\ Cardinality(T) = IF N \in C THEN Cardinality(C) ELSE Cardinality(C) + 1
      BY <1>1, FS_AddElement
    <2>2. Cardinality(C) \in Nat
      BY <1>1, FS_CardinalityType
    <2>3. Cardinality(C) <= Cardinality(C) + 1
      BY <2>2
    <2> HIDE DEF T, C, N
    <2>. QED BY <2>1, <2>2, <2>3
  <1>3. ASSUME NEW s \in Coalesce(d) PROVE s.last \in T
    BY SliceIs
  <1>4. ASSUME NEW s \in Coalesce(d), NEW r \in Coalesce(d), s.last = r.last PROVE s = r
    <2>1. /\ s.last \in Morsels /\ s.first <= s.last /\ s.last <= s.last
          /\ r.first <= r.last
      BY SliceIs DEF Morsels
    <2>2. r.first <= s.last /\ s.last <= r.last
      BY <2>1, <1>4
    <2>. QED BY <2>1, <2>2, SlicesApart
  <1>5. f \in Injection(Coalesce(d), T)
    BY <1>3, <1>4 DEF Injection, IsInjective
  <1>6. IsFiniteSet(Coalesce(d)) /\ Cardinality(Coalesce(d)) <= Cardinality(T)
    BY <1>2, <1>5, FS_Injection
  <1>7. Cardinality(C) \in Nat /\ Cardinality(T) \in Nat /\ Cardinality(Coalesce(d)) \in Nat
    BY <1>1, <1>2, <1>6, FS_CardinalityType
  <1>. QED BY <1>1, <1>2, <1>6, <1>7 DEF Oversub

-----------------------------------------------------------------------------
(* Stacks.                                                                 *)
LEMMA Pushed ==
  ASSUME NEW S, NEW s \in Seq(S), NEW x \in S
  PROVE  /\ <<x>> \o s \in Seq(S) /\ Len(<<x>> \o s) = Len(s) + 1
         /\ (<<x>> \o s)[1] = x
         /\ \A i \in 1..Len(s) : (<<x>> \o s)[i + 1] = s[i]
  OBVIOUS

LEMMA Popped ==
  ASSUME NEW S, NEW s \in Seq(S), s # <<>>
  PROVE  /\ Tail(s) \in Seq(S) /\ Len(Tail(s)) = Len(s) - 1 /\ Len(s) \in Nat \ {0}
         /\ \A i \in 1..(Len(s) - 1) : Tail(s)[i] = s[i + 1]
         /\ Head(s) = s[1]
  OBVIOUS

LEMMA Replaced ==
  ASSUME NEW S, NEW s \in Seq(S), NEW x \in S, s # <<>>
  PROVE  /\ <<x>> \o Tail(s) \in Seq(S) /\ Len(<<x>> \o Tail(s)) = Len(s)
         /\ Len(s) \in Nat \ {0} /\ (<<x>> \o Tail(s))[1] = x
         /\ \A i \in 2..Len(s) : (<<x>> \o Tail(s))[i] = s[i]
         /\ Head(s) = s[1]
  <1>1. Tail(s) \in Seq(S) /\ Len(Tail(s)) = Len(s) - 1 /\ Len(s) \in Nat \ {0}
    OBVIOUS
  <1>2. \A i \in 2..Len(s) : i - 1 \in 1..Len(Tail(s)) /\ Tail(s)[i - 1] = s[i]
    BY <1>1
  <1> DEFINE r == <<x>> \o Tail(s)
  <1>3. /\ r \in Seq(S) /\ Len(r) = Len(Tail(s)) + 1 /\ r[1] = x
        /\ \A i \in 1..Len(Tail(s)) : r[i + 1] = Tail(s)[i]
    BY <1>1, Pushed
  <1>4. \A i \in 2..Len(s) : r[i] = s[i]
    <2> HIDE DEF r
    <2> SUFFICES ASSUME NEW i \in 2..Len(s) PROVE r[i] = s[i]
      OBVIOUS
    <2>1. r[(i - 1) + 1] = Tail(s)[i - 1]
      BY <1>2, <1>3
    <2>2. (i - 1) + 1 = i
      BY <1>1
    <2>. QED BY <2>1, <2>2, <1>2
  <1>. QED BY <1>1, <1>3, <1>4

StackType == stack \in [Threads -> Seq(Frame)]

\* Only the innermost frame of a thread is a task; under it, it waits.
Shaped == \A t \in Threads : \A i \in DOMAIN stack[t] : i > 1 => stack[t][i].kind = "root"

\* A query has one root frame in the whole pool.
OneRoot ==
  \A t, u \in Threads : \A i \in DOMAIN stack[t], j \in DOMAIN stack[u] :
    /\ stack[t][i].kind = "root" /\ stack[u][j].kind = "root"
    /\ stack[t][i].q = stack[u][j].q
    => t = u /\ i = j

RootIn(q, phase) ==
  \E t \in Threads : \E i \in DOMAIN stack[t] :
    stack[t][i].kind = "root" /\ stack[t][i].q = q /\ stack[t][i].phase = phase

StackInv == StackType /\ Shaped /\ OneRoot

\* A thread that runs a task.
Works(t) == Busy(t) /\ Top(t).kind # "root"

LEMMA FrameKinds ==
  ASSUME NEW x \in Frame
  PROVE  /\ x.kind \in {"root", "footer", "batch"} /\ x.q \in Queries
         /\ x.kind = "root" => x.phase \in {"start", "cut", "fold"}
         /\ x.kind = "batch" => x.first \in 1..(Len(lens) + 1) /\ x.last \in Morsels
         /\ x.kind = "batch" => x = [kind |-> "batch", q |-> x.q, first |-> x.first, last |-> x.last]
  BY DEF Frame

LEMMA Tops ==
  ASSUME StackInv, NEW t \in Threads
  PROVE  /\ Busy(t) => 1 \in DOMAIN stack[t] /\ Top(t) = stack[t][1] /\ Top(t) \in Frame
         /\ ~Busy(t) => DOMAIN stack[t] = {}
         /\ \A phase : RunsRoot(t, phase) => RootIn(Top(t).q, phase)
         /\ \A i \in DOMAIN stack[t] : stack[t][i].kind # "root" => Busy(t) /\ i = 1
  <1>1. stack[t] \in Seq(Frame)
    BY DEF StackInv, StackType
  <1>2. Busy(t) => 1 \in DOMAIN stack[t] /\ Top(t) = stack[t][1] /\ Top(t) \in Frame
    BY <1>1 DEF Busy, Top
  <1>3. ~Busy(t) => DOMAIN stack[t] = {}
    BY <1>1 DEF Busy
  <1>4. \A phase : RunsRoot(t, phase) => RootIn(Top(t).q, phase)
    BY <1>2 DEF RunsRoot, RootIn
  <1>5. \A i \in DOMAIN stack[t] : stack[t][i].kind # "root" => Busy(t) /\ i = 1
    BY <1>1 DEF StackInv, Shaped, Busy
  <1>. QED BY <1>2, <1>3, <1>4, <1>5

\* A root is in one phase.
LEMMA OnePhase ==
  ASSUME StackInv, NEW q, NEW a, NEW b, RootIn(q, a), RootIn(q, b)
  PROVE  a = b
  BY DEF StackInv, OneRoot, RootIn
-----------------------------------------------------------------------------
(* What a push, a return and a replacement do to the roots and the tasks.  *)
SameRoots == \A q, phase : RootIn(q, phase)' <=> RootIn(q, phase)
SameElsewhere(t) == \A u \in Threads : u # t => stack'[u] = stack[u]

LEMMA PushPlaces ==
  ASSUME StackInv, NEW t \in Threads, NEW x \in Frame, UNCHANGED lens,
         stack' = [stack EXCEPT ![t] = <<x>> \o @]
  PROVE  /\ StackType' /\ SameElsewhere(t)
         /\ DOMAIN stack[t] = 1..Len(stack[t]) /\ Len(stack[t]) \in Nat
         /\ DOMAIN stack'[t] = 1..(Len(stack[t]) + 1)
         /\ stack'[t][1] = x /\ stack'[t] # <<>> /\ Head(stack'[t]) = x
         /\ \A i \in 1..Len(stack[t]) : stack'[t][i + 1] = stack[t][i]
  <1>1. stack \in [Threads -> Seq(Frame)] /\ stack[t] \in Seq(Frame)
    BY DEF StackInv, StackType
  <1>2. stack'[t] = <<x>> \o stack[t]
    BY <1>1
  <1>3. /\ stack'[t] \in Seq(Frame) /\ Len(stack'[t]) = Len(stack[t]) + 1 /\ stack'[t][1] = x
        /\ \A i \in 1..Len(stack[t]) : stack'[t][i + 1] = stack[t][i]
    BY <1>1, <1>2, Pushed
  <1>4. Frame' = Frame
    BY DEF Frame, Morsels
  <1>5. StackType' /\ SameElsewhere(t)
    <2>1. stack' \in [Threads -> Seq(Frame)]
      BY <1>1, <1>2, <1>3
    <2>. QED BY <1>1, <1>4, <2>1 DEF StackType, SameElsewhere
  <1>6. Head(stack'[t]) = x /\ stack'[t] # <<>>
    BY <1>1, <1>3
  <1>. QED BY <1>1, <1>3, <1>5, <1>6

LEMMA PopPlaces ==
  ASSUME StackInv, NEW t \in Threads, Busy(t), UNCHANGED lens, Return(t)
  PROVE  /\ StackType' /\ SameElsewhere(t)
         /\ DOMAIN stack[t] = 1..Len(stack[t]) /\ Len(stack[t]) \in Nat \ {0}
         /\ DOMAIN stack'[t] = 1..(Len(stack[t]) - 1)
         /\ \A i \in 1..(Len(stack[t]) - 1) : stack'[t][i] = stack[t][i + 1]
  <1>1. stack \in [Threads -> Seq(Frame)] /\ stack[t] \in Seq(Frame) /\ stack[t] # <<>>
    BY DEF StackInv, StackType, Busy
  <1>2. stack'[t] = Tail(stack[t])
    BY <1>1 DEF Return
  <1>3. /\ stack'[t] \in Seq(Frame) /\ Len(stack'[t]) = Len(stack[t]) - 1
        /\ Len(stack[t]) \in Nat \ {0}
        /\ \A i \in 1..(Len(stack[t]) - 1) : stack'[t][i] = stack[t][i + 1]
    BY <1>1, <1>2, Popped
  <1>4. Frame' = Frame
    BY DEF Frame, Morsels
  <1>5. StackType' /\ SameElsewhere(t)
    <2>1. stack' \in [Threads -> Seq(Frame)]
      BY <1>1, <1>2, <1>3 DEF Return
    <2>. QED BY <1>1, <1>4, <2>1 DEF StackType, SameElsewhere, Return
  <1>. QED BY <1>1, <1>3, <1>5

LEMMA ReplacePlaces ==
  ASSUME StackInv, NEW t \in Threads, Busy(t), NEW x \in Frame, UNCHANGED lens, Replace(t, x)
  PROVE  /\ StackType' /\ SameElsewhere(t)
         /\ DOMAIN stack'[t] = DOMAIN stack[t]
         /\ stack'[t][1] = x /\ stack'[t] # <<>> /\ Head(stack'[t]) = x
         /\ \A i \in DOMAIN stack[t] : i # 1 => stack'[t][i] = stack[t][i]
         /\ DOMAIN stack[t] = 1..Len(stack[t]) /\ Len(stack[t]) \in Nat \ {0}
  <1>1. stack \in [Threads -> Seq(Frame)] /\ stack[t] \in Seq(Frame) /\ stack[t] # <<>>
    BY DEF StackInv, StackType, Busy
  <1>2. stack'[t] = <<x>> \o Tail(stack[t])
    BY <1>1 DEF Replace
  <1>3. /\ stack'[t] \in Seq(Frame) /\ Len(stack'[t]) = Len(stack[t]) /\ stack'[t][1] = x
        /\ Len(stack[t]) \in Nat \ {0}
        /\ \A i \in 2..Len(stack[t]) : stack'[t][i] = stack[t][i]
    BY <1>1, <1>2, Replaced
  <1>4. Frame' = Frame
    BY DEF Frame, Morsels
  <1>5. StackType' /\ SameElsewhere(t)
    <2>1. stack' \in [Threads -> Seq(Frame)]
      BY <1>1, <1>2, <1>3 DEF Replace
    <2>. QED BY <1>1, <1>4, <2>1 DEF StackType, SameElsewhere, Replace
  <1>6. Head(stack'[t]) = x /\ stack'[t] # <<>>
    BY <1>1, <1>3
  <1>7. \A i \in DOMAIN stack[t] : i # 1 => stack'[t][i] = stack[t][i]
    BY <1>1, <1>3
  <1>. QED BY <1>1, <1>3, <1>5, <1>6, <1>7
\* No query gets a second root when every root is one that was there, moved by
\* the same number of places, or the innermost frame of t and the first of its query.
LEMMA OneRootKept ==
  ASSUME StackInv, NEW t \in Threads, NEW shift \in [Threads -> Int],
         \A u \in Threads : \A i \in DOMAIN stack'[u] :
           stack'[u][i].kind = "root" =>
             \/ /\ i \in Int /\ i + shift[u] \in DOMAIN stack[u]
                /\ stack[u][i + shift[u]].kind = "root"
                /\ stack[u][i + shift[u]].q = stack'[u][i].q
             \/ /\ u = t /\ i = 1
                /\ \A v \in Threads : \A j \in DOMAIN stack[v] :
                     stack[v][j].kind = "root" => stack[v][j].q # stack'[u][i].q
  PROVE  OneRoot'
  <1> DEFINE Old(u, i) == /\ i \in Int /\ i + shift[u] \in DOMAIN stack[u]
                          /\ stack[u][i + shift[u]].kind = "root"
                          /\ stack[u][i + shift[u]].q = stack'[u][i].q
             First(u, i) == /\ u = t /\ i = 1
                            /\ \A v \in Threads : \A j \in DOMAIN stack[v] :
                                 stack[v][j].kind = "root" => stack[v][j].q # stack'[u][i].q
  <1>1. ASSUME NEW u \in Threads, NEW v \in Threads,
               NEW i \in DOMAIN stack'[u], NEW j \in DOMAIN stack'[v],
               stack'[u][i].q = stack'[v][j].q, Old(u, i), Old(v, j)
        PROVE  u = v /\ i = j
    <2> DEFINE a == i + shift[u]
               b == j + shift[v]
    <2>1. u = v /\ a = b
      <3> HIDE DEF a, b
      <3>1. a \in DOMAIN stack[u] /\ stack[u][a].kind = "root" /\ stack[u][a].q = stack'[u][i].q
        BY <1>1 DEF a
      <3>2. b \in DOMAIN stack[v] /\ stack[v][b].kind = "root" /\ stack[v][b].q = stack'[v][j].q
        BY <1>1 DEF b
      <3>. QED BY <3>1, <3>2, <1>1 DEF StackInv, OneRoot
    <2>2. shift[u] \in Int /\ i \in Int /\ j \in Int
      BY <1>1
    <2>. QED BY <2>1, <2>2
  <1>2. ASSUME NEW u \in Threads, NEW v \in Threads,
               NEW i \in DOMAIN stack'[u], NEW j \in DOMAIN stack'[v],
               stack'[u][i].q = stack'[v][j].q, First(u, i), Old(v, j)
        PROVE  FALSE
    <2> DEFINE b == j + shift[v]
    <2>1. b \in DOMAIN stack[v] /\ stack[v][b].kind = "root" /\ stack[v][b].q = stack'[v][j].q
      BY <1>2
    <2>. HIDE DEF b
    <2>. QED BY <2>1, <1>2
  <1>3. ASSUME NEW u \in Threads, NEW i \in DOMAIN stack'[u], stack'[u][i].kind = "root"
        PROVE  Old(u, i) \/ First(u, i)
    BY <1>3
  <1> HIDE DEF Old
  <1>4. ASSUME NEW u \in Threads, NEW v \in Threads,
               NEW i \in DOMAIN stack'[u], NEW j \in DOMAIN stack'[v],
               stack'[u][i].kind = "root", stack'[v][j].kind = "root",
               stack'[u][i].q = stack'[v][j].q
        PROVE  u = v /\ i = j
    <2>1. Old(u, i) \/ First(u, i)
      BY <1>3, <1>4
    <2>2. Old(v, j) \/ First(v, j)
      BY <1>3, <1>4
    <2>3. First(u, i) /\ First(v, j) => u = v /\ i = j
      OBVIOUS
    <2> HIDE DEF First
    <2>. QED BY <2>1, <2>2, <2>3, <1>1, <1>2, <1>4
  <1>. QED BY <1>4 DEF OneRoot

\* A push, on a thread that waits: of a task, or of the root of a query that has none.
LEMMA PushKeeps ==
  ASSUME StackInv, NEW t \in Threads, NEW x \in Frame, UNCHANGED lens,
         Busy(t) => Top(t).kind = "root",
         x.kind = "root" => \A phase : ~RootIn(x.q, phase),
         stack' = [stack EXCEPT ![t] = <<x>> \o @]
  PROVE  /\ StackInv' /\ SameElsewhere(t) /\ Busy(t)' /\ Top(t)' = x /\ ~Works(t)
         /\ \A q, phase : RootIn(q, phase)' <=>
              RootIn(q, phase) \/ (x.kind = "root" /\ x.q = q /\ x.phase = phase)
  <1> DEFINE n == Len(stack[t])
  <1>1. /\ StackType' /\ \A u \in Threads : u # t => stack'[u] = stack[u]
        /\ DOMAIN stack[t] = 1..n /\ n \in Nat /\ DOMAIN stack'[t] = 1..(n + 1)
        /\ stack'[t][1] = x /\ stack'[t] # <<>> /\ Head(stack'[t]) = x
        /\ \A i \in 1..n : stack'[t][i + 1] = stack[t][i]
    BY PushPlaces DEF SameElsewhere
  <1> HIDE DEF n
  <1>2. \A i \in DOMAIN stack'[t] : i # 1 => i - 1 \in 1..n /\ i \in Int /\ stack'[t][i] = stack[t][i - 1]
    <2> SUFFICES ASSUME NEW i \in 1..(n + 1), i # 1
                 PROVE  i - 1 \in 1..n /\ i \in Int /\ stack'[t][i] = stack[t][i - 1]
      BY <1>1
    <2> DEFINE k == i - 1
    <2>1. k \in 1..n /\ k + 1 = i /\ i \in Int
      BY <1>1
    <2> HIDE DEF k
    <2>2. stack'[t][k + 1] = stack[t][k]
      BY <1>1, <2>1
    <2>3. k \in 1..n /\ i \in Int /\ stack'[t][i] = stack[t][k]
      BY <2>1, <2>2
    <2>. QED BY <2>3 DEF k
  <1>3. \A i \in DOMAIN stack[t] : stack[t][i].kind = "root"
    <2> SUFFICES ASSUME NEW i \in DOMAIN stack[t] PROVE stack[t][i].kind = "root"
      OBVIOUS
    <2>1. CASE i = 1
      BY <2>1, Tops
    <2>2. CASE i # 1
      BY <2>2, Tops
    <2>. QED BY <2>1, <2>2
  <1>4. Shaped'
    <2> SUFFICES ASSUME NEW u \in Threads, NEW i \in DOMAIN stack'[u], i > 1
                 PROVE  stack'[u][i].kind = "root"
      BY DEF Shaped
    <2>1. CASE u = t
      BY <2>1, <1>1, <1>2, <1>3
    <2>2. CASE u # t
      BY <2>2, <1>1 DEF StackInv, Shaped
    <2>. QED BY <2>1, <2>2
  <1>5. OneRoot'
    <2> DEFINE shift == [u \in Threads |-> IF u = t THEN -1 ELSE 0]
    <2>1. ASSUME NEW u \in Threads, NEW i \in DOMAIN stack'[u], stack'[u][i].kind = "root"
          PROVE  \/ /\ i \in Int /\ i + shift[u] \in DOMAIN stack[u]
                    /\ stack[u][i + shift[u]].kind = "root"
                    /\ stack[u][i + shift[u]].q = stack'[u][i].q
                 \/ /\ u = t /\ i = 1
                    /\ \A v \in Threads : \A j \in DOMAIN stack[v] :
                         stack[v][j].kind = "root" => stack[v][j].q # stack'[u][i].q
      <3>1. CASE u = t /\ i # 1
        <4>1. i - 1 \in 1..n /\ i \in Int /\ stack'[t][i] = stack[t][i - 1]
          BY <3>1, <2>1, <1>2
        <4>2. i + shift[u] = i - 1
          BY <3>1, <4>1
        <4>3. i + shift[u] \in DOMAIN stack[u] /\ stack[u][i + shift[u]] = stack'[u][i]
          BY <3>1, <4>1, <4>2, <1>1
        <4>. QED BY <4>1, <4>3, <2>1
      <3>2. CASE u # t
        <4>1. stack'[u] = stack[u] /\ stack[u] \in Seq(Frame)
          BY <3>2, <1>1 DEF StackInv, StackType
        <4>2. i \in Int /\ i + shift[u] = i
          BY <3>2, <4>1
        <4>. QED BY <4>1, <4>2, <2>1
      <3>3. CASE u = t /\ i = 1
        <4>1. stack'[u][i] = x /\ x.kind = "root"
          BY <3>3, <2>1, <1>1
        <4>2. \A v \in Threads : \A j \in DOMAIN stack[v] :
                stack[v][j].kind = "root" => stack[v][j].q # x.q
          BY <4>1 DEF RootIn
        <4>. QED BY <3>3, <4>1, <4>2
      <3>. QED BY <3>1, <3>2, <3>3
    <2>2. shift \in [Threads -> Int]
      OBVIOUS
    <2> HIDE DEF shift
    <2>. QED BY <2>1, <2>2, OneRootKept
  <1>6. ASSUME NEW q, NEW phase
        PROVE  RootIn(q, phase)' <=>
                 RootIn(q, phase) \/ (x.kind = "root" /\ x.q = q /\ x.phase = phase)
    <2>1. ASSUME RootIn(q, phase)'
          PROVE  RootIn(q, phase) \/ (x.kind = "root" /\ x.q = q /\ x.phase = phase)
      <3>1. PICK u \in Threads : \E i \in DOMAIN stack'[u] :
              stack'[u][i].kind = "root" /\ stack'[u][i].q = q /\ stack'[u][i].phase = phase
        BY <2>1 DEF RootIn
      <3>2. PICK i \in DOMAIN stack'[u] :
              stack'[u][i].kind = "root" /\ stack'[u][i].q = q /\ stack'[u][i].phase = phase
        BY <3>1
      <3>3. stack'[u][i] = x \/ \E j \in DOMAIN stack[u] : stack[u][j] = stack'[u][i]
        BY <3>2, <1>1, <1>2
      <3>. QED BY <3>2, <3>3 DEF RootIn
    <2>2. ASSUME RootIn(q, phase) PROVE RootIn(q, phase)'
      <3>1. PICK u \in Threads : \E i \in DOMAIN stack[u] :
              stack[u][i].kind = "root" /\ stack[u][i].q = q /\ stack[u][i].phase = phase
        BY <2>2 DEF RootIn
      <3>2. PICK i \in DOMAIN stack[u] :
              stack[u][i].kind = "root" /\ stack[u][i].q = q /\ stack[u][i].phase = phase
        BY <3>1
      <3>3. \E j \in DOMAIN stack'[u] : stack'[u][j] = stack[u][i]
        <4>1. CASE u = t
          <5>1. i \in 1..n /\ i + 1 \in 1..(n + 1) /\ stack'[t][i + 1] = stack[t][i]
            BY <1>1, <3>2, <4>1
          <5>. QED BY <5>1, <4>1, <1>1
        <4>2. CASE u # t
          BY <4>2, <1>1
        <4>. QED BY <4>1, <4>2
      <3>. QED BY <3>2, <3>3 DEF RootIn
    <2>3. ASSUME x.kind = "root" /\ x.q = q /\ x.phase = phase PROVE RootIn(q, phase)'
      <3>1. 1 \in DOMAIN stack'[t] /\ stack'[t][1] = x
        BY <1>1
      <3>. QED BY <3>1, <2>3 DEF RootIn
    <2>. QED BY <2>1, <2>2, <2>3
  <1>7. StackInv'
    BY <1>1, <1>4, <1>5 DEF StackInv
  <1>8. Busy(t)' /\ Top(t)' = x
    BY <1>1 DEF Busy, Top
  <1>9. ~Works(t)
    BY DEF Works
  <1>. QED BY <1>1, <1>6, <1>7, <1>8, <1>9 DEF SameElsewhere

\* A return: of a task, or of a root, which its query has no more.
LEMMA PopKeeps ==
  ASSUME StackInv, NEW t \in Threads, Busy(t), UNCHANGED lens, Return(t)
  PROVE  /\ StackInv' /\ SameElsewhere(t) /\ ~Works(t)'
         /\ \A q, phase : RootIn(q, phase)' <=>
              RootIn(q, phase) /\ ~(Top(t).kind = "root" /\ Top(t).q = q)
  <1> DEFINE n == Len(stack[t])
  <1>1. /\ StackType' /\ \A u \in Threads : u # t => stack'[u] = stack[u]
        /\ DOMAIN stack[t] = 1..n /\ n \in Nat \ {0} /\ DOMAIN stack'[t] = 1..(n - 1)
        /\ \A i \in 1..(n - 1) : stack'[t][i] = stack[t][i + 1]
    BY PopPlaces DEF SameElsewhere
  <1> HIDE DEF n
  <1>2. Top(t) = stack[t][1] /\ Top(t) \in Frame
    BY Tops
  <1>3. \A i \in DOMAIN stack'[t] :
          /\ i \in Int /\ i + 1 \in DOMAIN stack[t] /\ i + 1 # 1
          /\ stack'[t][i] = stack[t][i + 1] /\ stack'[t][i].kind = "root"
    <2> SUFFICES ASSUME NEW i \in 1..(n - 1)
                 PROVE  /\ i \in Int /\ i + 1 \in DOMAIN stack[t] /\ i + 1 # 1
                        /\ stack'[t][i] = stack[t][i + 1] /\ stack'[t][i].kind = "root"
      BY <1>1
    <2>1. i \in Int /\ i + 1 \in 1..n /\ i + 1 > 1 /\ i + 1 # 1
      BY <1>1
    <2>2. stack[t][i + 1].kind = "root"
      BY <2>1, <1>1 DEF StackInv, Shaped
    <2>. QED BY <2>1, <2>2, <1>1
  <1>4. Shaped'
    <2> SUFFICES ASSUME NEW u \in Threads, NEW i \in DOMAIN stack'[u], i > 1
                 PROVE  stack'[u][i].kind = "root"
      BY DEF Shaped
    <2>1. CASE u = t
      BY <2>1, <1>3
    <2>2. CASE u # t
      BY <2>2, <1>1 DEF StackInv, Shaped
    <2>. QED BY <2>1, <2>2
  <1>5. OneRoot'
    <2> DEFINE shift == [u \in Threads |-> IF u = t THEN 1 ELSE 0]
    <2>1. ASSUME NEW u \in Threads, NEW i \in DOMAIN stack'[u], stack'[u][i].kind = "root"
          PROVE  /\ i \in Int /\ i + shift[u] \in DOMAIN stack[u]
                 /\ stack[u][i + shift[u]].kind = "root"
                 /\ stack[u][i + shift[u]].q = stack'[u][i].q
      <3>1. CASE u = t
        <4>1. i \in Int /\ i + 1 \in DOMAIN stack[t] /\ stack'[t][i] = stack[t][i + 1]
          BY <3>1, <1>3
        <4>2. i + shift[u] = i + 1
          BY <3>1, <4>1
        <4>. QED BY <3>1, <4>1, <4>2, <2>1
      <3>2. CASE u # t
        <4>1. stack'[u] = stack[u] /\ stack[u] \in Seq(Frame)
          BY <3>2, <1>1 DEF StackInv, StackType
        <4>2. i \in Int /\ i + shift[u] = i
          BY <3>2, <4>1
        <4>. QED BY <4>1, <4>2, <2>1
      <3>. QED BY <3>1, <3>2
    <2>2. shift \in [Threads -> Int]
      OBVIOUS
    <2> HIDE DEF shift
    <2>. QED BY <2>1, <2>2, OneRootKept
  <1>6. ASSUME NEW q, NEW phase
        PROVE  RootIn(q, phase)' <=> RootIn(q, phase) /\ ~(Top(t).kind = "root" /\ Top(t).q = q)
    <2>1. ASSUME RootIn(q, phase)'
          PROVE  RootIn(q, phase) /\ ~(Top(t).kind = "root" /\ Top(t).q = q)
      <3>1. PICK u \in Threads : \E i \in DOMAIN stack'[u] :
              stack'[u][i].kind = "root" /\ stack'[u][i].q = q /\ stack'[u][i].phase = phase
        BY <2>1 DEF RootIn
      <3>2. PICK i \in DOMAIN stack'[u] :
              stack'[u][i].kind = "root" /\ stack'[u][i].q = q /\ stack'[u][i].phase = phase
        BY <3>1
      <3>3. \E j \in DOMAIN stack[u] : stack[u][j] = stack'[u][i] /\ ~(u = t /\ j = 1)
        BY <3>2, <1>1, <1>3
      <3>4. PICK j \in DOMAIN stack[u] : stack[u][j] = stack'[u][i] /\ ~(u = t /\ j = 1)
        BY <3>3
      <3>5. RootIn(q, phase)
        BY <3>2, <3>4 DEF RootIn
      <3>6. ~(Top(t).kind = "root" /\ Top(t).q = q)
        <4>1. 1 \in DOMAIN stack[t]
          BY <1>1
        <4>. QED BY <4>1, <3>2, <3>4, <1>2 DEF StackInv, OneRoot
      <3>. QED BY <3>5, <3>6
    <2>2. ASSUME RootIn(q, phase), ~(Top(t).kind = "root" /\ Top(t).q = q)
          PROVE  RootIn(q, phase)'
      <3>1. PICK u \in Threads : \E i \in DOMAIN stack[u] :
              stack[u][i].kind = "root" /\ stack[u][i].q = q /\ stack[u][i].phase = phase
        BY <2>2 DEF RootIn
      <3>2. PICK i \in DOMAIN stack[u] :
              stack[u][i].kind = "root" /\ stack[u][i].q = q /\ stack[u][i].phase = phase
        BY <3>1
      <3>3. \E j \in DOMAIN stack'[u] : stack'[u][j] = stack[u][i]
        <4>1. CASE u = t
          <5>1. i # 1
            BY <2>2, <3>2, <4>1, <1>2
          <5>2. i \in 1..n /\ i - 1 \in 1..(n - 1)
            BY <1>1, <3>2, <4>1, <5>1
          <5> DEFINE k == i - 1
          <5>3. k \in 1..(n - 1) /\ k + 1 = i
            BY <5>2
          <5> HIDE DEF k
          <5>4. stack'[t][k] = stack[t][k + 1]
            BY <5>3, <1>1
          <5>. QED BY <5>3, <5>4, <4>1, <1>1
        <4>2. CASE u # t
          BY <4>2, <1>1
        <4>. QED BY <4>1, <4>2
      <3>. QED BY <3>2, <3>3 DEF RootIn
    <2>. QED BY <2>1, <2>2
  <1>7. StackInv'
    BY <1>1, <1>4, <1>5 DEF StackInv
  <1>8. ~Works(t)'
    <2>1. stack'[t] \in Seq(Frame)'
      BY <1>1 DEF StackType
    <2>2. stack'[t] # <<>> => 1 \in DOMAIN stack'[t] /\ Head(stack'[t]) = stack'[t][1]
      BY <2>1
    <2>. QED BY <2>2, <1>3 DEF Works, Busy, Top
  <1>. QED BY <1>1, <1>6, <1>7, <1>8 DEF SameElsewhere

\* A replacement of the innermost frame by one of the same kind for the same query.
LEMMA ReplaceKeeps ==
  ASSUME StackInv, NEW t \in Threads, Busy(t), NEW x \in Frame, UNCHANGED lens, Replace(t, x),
         x.kind = Top(t).kind, x.q = Top(t).q
  PROVE  /\ StackInv' /\ SameElsewhere(t) /\ Busy(t)' /\ Top(t)' = x
         /\ \A q, phase :
              /\ (x.kind = "root" /\ x.q = q) => (RootIn(q, phase)' <=> phase = x.phase)
              /\ ~(x.kind = "root" /\ x.q = q) => (RootIn(q, phase)' <=> RootIn(q, phase))
  <1>1. /\ StackType' /\ \A u \in Threads : u # t => stack'[u] = stack[u]
        /\ DOMAIN stack'[t] = DOMAIN stack[t]
        /\ stack'[t][1] = x /\ stack'[t] # <<>> /\ Head(stack'[t]) = x
        /\ \A i \in DOMAIN stack[t] : i # 1 => stack'[t][i] = stack[t][i]
        /\ DOMAIN stack[t] = 1..Len(stack[t]) /\ Len(stack[t]) \in Nat \ {0}
    BY ReplacePlaces DEF SameElsewhere
  <1>2. Top(t) = stack[t][1] /\ 1 \in DOMAIN stack[t]
    BY Tops
  <1>3. \A u \in Threads : DOMAIN stack'[u] = DOMAIN stack[u]
    BY <1>1
  <1>4. \A u \in Threads : \A i \in DOMAIN stack[u] :
          /\ stack'[u][i].kind = stack[u][i].kind /\ stack'[u][i].q = stack[u][i].q
          /\ ~(u = t /\ i = 1) => stack'[u][i] = stack[u][i]
    <2> SUFFICES ASSUME NEW u \in Threads, NEW i \in DOMAIN stack[u]
                 PROVE  /\ stack'[u][i].kind = stack[u][i].kind /\ stack'[u][i].q = stack[u][i].q
                        /\ ~(u = t /\ i = 1) => stack'[u][i] = stack[u][i]
      OBVIOUS
    <2>1. CASE u = t /\ i = 1
      BY <2>1, <1>1, <1>2
    <2>2. CASE ~(u = t /\ i = 1)
      BY <2>2, <1>1
    <2>. QED BY <2>1, <2>2
  <1>5. Shaped'
    BY <1>3, <1>4 DEF StackInv, Shaped
  <1>6. OneRoot'
    BY <1>3, <1>4 DEF StackInv, OneRoot
  <1>7. ASSUME NEW q, NEW phase
        PROVE  /\ (x.kind = "root" /\ x.q = q) => (RootIn(q, phase)' <=> phase = x.phase)
               /\ ~(x.kind = "root" /\ x.q = q) => (RootIn(q, phase)' <=> RootIn(q, phase))
    <2>1. ASSUME x.kind = "root" /\ x.q = q PROVE RootIn(q, phase)' <=> phase = x.phase
      <3>1. 1 \in DOMAIN stack'[t] /\ stack'[t][1] = x
        BY <1>1, <1>2
      <3>2. ASSUME NEW u \in Threads, NEW i \in DOMAIN stack'[u],
                   stack'[u][i].kind = "root" /\ stack'[u][i].q = q
            PROVE  u = t /\ i = 1
        BY <2>1, <3>1, <3>2, <1>6 DEF OneRoot
      <3>3. ASSUME RootIn(q, phase)' PROVE phase = x.phase
        BY <3>1, <3>2, <3>3 DEF RootIn
      <3>4. ASSUME phase = x.phase PROVE RootIn(q, phase)'
        BY <3>1, <3>4, <2>1 DEF RootIn
      <3>. QED BY <3>3, <3>4
    <2>2. ASSUME ~(x.kind = "root" /\ x.q = q) PROVE RootIn(q, phase)' <=> RootIn(q, phase)
      <3>1. ASSUME NEW u \in Threads, NEW i \in DOMAIN stack[u]
            PROVE  stack'[u][i].kind = "root" /\ stack'[u][i].q = q /\ stack'[u][i].phase = phase
                   <=> stack[u][i].kind = "root" /\ stack[u][i].q = q /\ stack[u][i].phase = phase
        <4>1. CASE u = t /\ i = 1
          BY <4>1, <2>2, <1>1, <1>2
        <4>2. CASE ~(u = t /\ i = 1)
          BY <4>2, <1>4
        <4>. QED BY <4>1, <4>2
      <3>. QED BY <3>1, <1>3 DEF RootIn
    <2>. QED BY <2>1, <2>2
  <1>8. StackInv'
    BY <1>1, <1>5, <1>6 DEF StackInv
  <1>9. Busy(t)' /\ Top(t)' = x
    BY <1>1 DEF Busy, Top
  <1>. QED BY <1>1, <1>7, <1>8, <1>9 DEF SameElsewhere
-----------------------------------------------------------------------------
(* What makes PoolInv inductive.                                           *)
Phases == {"start", "cut", "fold"}

\* A query that was let in and is not done has its one job in the queue or on a
\* stack, and nobody else has one.
QueueInv ==
  /\ injected \in Seq(Queries)
  /\ \A j \in DOMAIN injected : state[injected[j]] = "in"
  /\ \A j, k \in DOMAIN injected : injected[j] = injected[k] => j = k
  /\ \A q \in Queries, phase \in Phases :
       RootIn(q, phase) => state[q] = "in" /\ \A j \in DOMAIN injected : injected[j] # q

\* A task is forked by the root of its query, which waits for it.
Rooted(x) ==
  \/ x.kind = "footer" /\ RootIn(x.q, "cut")
  \/ x.kind = "batch" /\ RootIn(x.q, "fold")

Does(t, x) == Works(t) /\ Top(t) = x

TaskInv ==
  /\ \A p \in pending : Rooted(p)
  /\ \A t \in Threads, x \in Frame : Does(t, x) => Rooted(x)

\* A batch that still has morsel m before it.
Covers(x, q, m) == x.kind = "batch" /\ x.q = q /\ x.first <= m /\ m <= x.last
FoldsTo(t, q, m) == Works(t) /\ Covers(Top(t), q, m)

\* A morsel is folded, or one batch has it before it, or its query has failed.
FoldInv ==
  \A q \in Queries : \A m \in Morsels :
    /\ \A p \in pending : Covers(p, q, m) =>
         /\ folded[q][m] = 0
         /\ \A r \in pending : Covers(r, q, m) => r = p
         /\ \A t \in Threads : ~FoldsTo(t, q, m)
    /\ \A t \in Threads : FoldsTo(t, q, m) =>
         folded[q][m] = 0 /\ \A u \in Threads : FoldsTo(u, q, m) => u = t
    /\ (RootIn(q, "fold") /\ failed[q] = "none") =>
         \/ folded[q][m] = 1
         \/ \E p \in pending : Covers(p, q, m)
         \/ \E t \in Threads : FoldsTo(t, q, m)
    /\ (state[q] \in {"out", "in"} /\ ~RootIn(q, "fold")) => folded[q][m] = 0
    /\ state[q] = "rows" => folded[q][m] = 1

Waiting(q) == {p \in pending : p.kind = "batch" /\ p.q = q}
Folding(q) == {t \in Threads : Works(t) /\ Top(t).kind = "batch" /\ Top(t).q = q}

ShareInv ==
  \A q \in Queries :
    /\ IsFiniteSet(Waiting(q))
    /\ degree[q] > 0 => Cardinality(Waiting(q)) + Cardinality(Folding(q)) <= Oversub * degree[q]

IInv == TypeOK /\ StackInv /\ QueueInv /\ TaskInv /\ FoldInv /\ ShareInv

LEMMA Params ==
  ASSUME TypeOK
  PROVE  /\ lens \in Seq(Nat) /\ Len(lens) \in Nat /\ Morsels = 1..Len(lens)
         /\ Cardinality(Threads) \in Nat \ {0} /\ IsFiniteSet(Threads)
  <1>1. lens \in Seq(Nat)
    BY FoldPoolAssumption DEF TypeOK
  <1>2. IsFiniteSet(Threads) /\ Threads # {}
    BY FoldPoolAssumption
  <1>3. Cardinality(Threads) \in Nat /\ Cardinality(Threads) # 0
    BY <1>2, FS_CardinalityType, FS_EmptySet
  <1>. QED BY <1>1, <1>2, <1>3 DEF Morsels

\* Nothing of a query is left that has joined, or whose root has forked nothing.
LEMMA JoinedMeans ==
  ASSUME StackInv, NEW q, Joined(q)
  PROVE  /\ \A p \in pending : p.q # q
         /\ \A t \in Threads : Works(t) => Top(t).q # q
  <1>1. ASSUME NEW t \in Threads, Works(t) PROVE Top(t).q # q
    <2>1. 1 \in DOMAIN stack[t] /\ Top(t) = stack[t][1]
      BY <1>1, Tops DEF Works
    <2>. QED BY <2>1, <1>1 DEF Works, Joined
  <1>. QED BY <1>1 DEF Joined

LEMMA NothingForked ==
  ASSUME IInv, NEW q, ~RootIn(q, "cut"), ~RootIn(q, "fold")
  PROVE  /\ \A p \in pending : p.q # q
         /\ \A t \in Threads : Works(t) => Top(t).q # q
  <1>1. \A p \in pending : p.q # q
    BY DEF IInv, TaskInv, Rooted
  <1>2. ASSUME NEW t \in Threads, Works(t) PROVE Top(t).q # q
    <2>1. Top(t) \in Frame
      BY <1>2, Tops DEF IInv, Works
    <2>. QED BY <2>1, <1>2 DEF IInv, TaskInv, Rooted, Does
  <1>. QED BY <1>1, <1>2

LEMMA NothingCovered ==
  ASSUME NEW q, \A p \in pending : p.q # q, \A t \in Threads : Works(t) => Top(t).q # q
  PROVE  /\ \A m : \A p \in pending : ~Covers(p, q, m)
         /\ \A m : \A t \in Threads : ~FoldsTo(t, q, m)
         /\ Waiting(q) = {} /\ Folding(q) = {}
  BY DEF Covers, FoldsTo, Waiting, Folding

LEMMA Start == Init => IInv
  <1> SUFFICES ASSUME Init PROVE IInv
    OBVIOUS
  <1>1. Cardinality(Threads) \in Nat
    BY FoldPoolAssumption, FS_CardinalityType
  <1>2. TypeOK
    <2>1. /\ lens \in Lens /\ cut \in {"no", "yes"}
          /\ \A q \in ToSet(injected) : q \in Queries
      BY DEF Init, ToSet
    <2>2. pending \subseteq Frame /\ \A t \in Threads : \A i \in DOMAIN stack[t] : stack[t][i] \in Frame
      BY DEF Init
    <2>3. /\ state \in [Queries -> {"out", "in"} \cup Outcomes]
          /\ failed \in [Queries -> {"none"} \cup Errors]
          /\ cancelled \in [Queries -> BOOLEAN] /\ late \in [Queries -> BOOLEAN]
      BY DEF Init
    <2>4. degree \in [Queries -> 0..Cardinality(Threads)]
      BY <1>1 DEF Init
    <2>5. reading \in [Threads -> BOOLEAN] /\ beyond \in [Queries -> [Threads -> 0..MaxBeyond]]
      BY FoldPoolAssumption DEF Init
    <2>6. folded \in [Queries -> [Morsels -> 0..1]]
      BY DEF Init
    <2>. QED BY <2>1, <2>2, <2>3, <2>4, <2>5, <2>6 DEF TypeOK
  <1>3. StackInv
    BY DEF Init, StackInv, StackType, Shaped, OneRoot
  <1>4. \A q, phase : ~RootIn(q, phase)
    BY DEF Init, RootIn
  <1>5. \A t \in Threads : ~Works(t)
    BY DEF Init, Works, Busy
  <1>6. QueueInv
    BY <1>4 DEF Init, QueueInv
  <1>7. TaskInv
    BY <1>5 DEF Init, TaskInv, Does
  <1>8. FoldInv
    BY <1>4, <1>5 DEF Init, FoldInv, FoldsTo
  <1>9. ShareInv
    <2> SUFFICES ASSUME NEW q \in Queries
                 PROVE IsFiniteSet(Waiting(q)) /\ ~(degree[q] > 0)
      BY DEF ShareInv
    <2>1. Waiting(q) = {}
      BY DEF Init, Waiting
    <2>2. degree[q] = 0
      BY DEF Init
    <2>. QED BY <2>1, <2>2, FS_EmptySet
  <1>. QED BY <1>2, <1>3, <1>6, <1>7, <1>8, <1>9 DEF IInv
-----------------------------------------------------------------------------
(* The steps of the callers, the token and the clock: no frame and no task *)
(* changes.                                                                *)
LEMMA Share ==
  ASSUME NEW n \in Nat \ {0}, NEW k \in Nat \ {0}
  PROVE  AtLeast(n \div k, 1) \in 1..n
  <1>1. n \div k \in Nat /\ n \div k <= n
    OBVIOUS
  <1>. QED BY <1>1 DEF AtLeast

LEMMA Idle ==
  ASSUME IInv, UNCHANGED <<lens, pending, stack>>
  PROVE  /\ StackInv' /\ TaskInv' /\ Frame' = Frame /\ Morsels' = Morsels
         /\ \A q, phase : RootIn(q, phase)' <=> RootIn(q, phase)
         /\ \A t, q, m : FoldsTo(t, q, m)' <=> FoldsTo(t, q, m)
         /\ \A q : Waiting(q)' = Waiting(q) /\ Folding(q)' = Folding(q)
  <1>1. Frame' = Frame /\ Morsels' = Morsels
    BY DEF Frame, Morsels
  <1>2. StackInv'
    BY <1>1 DEF IInv, StackInv, StackType, Shaped, OneRoot
  <1>3. \A q, phase : RootIn(q, phase)' <=> RootIn(q, phase)
    BY DEF RootIn
  <1>4. \A t : (Works(t)' <=> Works(t)) /\ Top(t)' = Top(t)
    BY DEF Works, Busy, Top
  <1>5. \A t, q, m : FoldsTo(t, q, m)' <=> FoldsTo(t, q, m)
    BY <1>4 DEF FoldsTo, Covers
  <1>6. \A q : Waiting(q)' = Waiting(q) /\ Folding(q)' = Folding(q)
    BY <1>4 DEF Waiting, Folding
  <1>7. TaskInv'
    BY <1>1, <1>3, <1>4 DEF IInv, TaskInv, Does, Rooted
  <1>. QED BY <1>1, <1>2, <1>3, <1>5, <1>6, <1>7

LEMMA EnterKeeps ==
  ASSUME IInv, NEW q \in Queries, Enter(q)
  PROVE  IInv'
  <1>1. /\ state[q] = "out" /\ state' = [state EXCEPT ![q] = "in"]
        /\ injected' = Append(injected, q)
        /\ UNCHANGED <<lens, cut, pending, stack, failed, cancelled, late, folded, reading, beyond>>
    BY DEF Enter
  <1>2. /\ StackInv' /\ TaskInv' /\ Frame' = Frame /\ Morsels' = Morsels
        /\ \A r, phase : RootIn(r, phase)' <=> RootIn(r, phase)
        /\ \A t, r, m : FoldsTo(t, r, m)' <=> FoldsTo(t, r, m)
        /\ \A r : Waiting(r)' = Waiting(r) /\ Folding(r)' = Folding(r)
    BY <1>1, Idle
  <1>3. \A r \in Queries : state'[r] = IF r = q THEN "in" ELSE state[r]
    BY <1>1 DEF IInv, TypeOK
  <1>4. \A phase \in Phases : ~RootIn(q, phase)
    BY <1>1 DEF IInv, QueueInv
  <1>5. injected \in Seq(Queries) /\ \A j \in DOMAIN injected : injected[j] # q
    BY <1>1 DEF IInv, QueueInv
  <1>6. /\ injected' \in Seq(Queries)
        /\ \A j \in DOMAIN injected' : (j \in DOMAIN injected /\ injected'[j] = injected[j])
                                       \/ (j = Len(injected) + 1 /\ injected'[j] = q)
    BY <1>1, <1>5
  <1>7. degree' \in [Queries -> 0..Cardinality(Threads)]
        /\ \A r \in Queries : r # q => degree'[r] = degree[r]
    <2>1. degree \in [Queries -> 0..Cardinality(Threads)]
      BY DEF IInv, TypeOK
    <2>2. IsFiniteSet(Admitted)
      <3>1. IsFiniteSet(Queries) /\ Admitted \in SUBSET Queries
        BY FoldPoolAssumption DEF Admitted
      <3>. QED BY <3>1, FS_Subset
    <2>3. InFlight \in Nat
      BY <2>2, FS_CardinalityType DEF InFlight
    <2>4. Cardinality(Threads) \in Nat \ {0}
      BY Params DEF IInv
    <2>5. PICK n \in Nat : n = InFlight + 1 /\ n > 0
      BY <2>3
    <2> DEFINE share == AtLeast(Cardinality(Threads) \div n, 1)
    <2>6. n > 1 => share \in 1..Cardinality(Threads)
      BY <2>4, Share
    <2>7. degree' = [degree EXCEPT ![q] = IF n = 1 THEN 0 ELSE share]
      BY <2>5 DEF Enter
    <2> HIDE DEF share
    <2>. QED BY <2>1, <2>4, <2>5, <2>6, <2>7
  <1>8. TypeOK'
    <2>1. \A r \in ToSet(injected') : r \in Queries
      BY <1>6 DEF ToSet
    <2>2. state' \in [Queries -> {"out", "in"} \cup Outcomes]
      BY <1>1 DEF IInv, TypeOK
    <2>. QED BY <1>1, <1>2, <1>7, <2>1, <2>2 DEF IInv, TypeOK
  <1>9. QueueInv'
    <2>1. \A j \in DOMAIN injected' : state'[injected'[j]] = "in"
      BY <1>3, <1>5, <1>6 DEF IInv, QueueInv
    <2>2. \A j, k \in DOMAIN injected' : injected'[j] = injected'[k] => j = k
      BY <1>5, <1>6 DEF IInv, QueueInv
    <2>3. \A r \in Queries, phase \in Phases :
            RootIn(r, phase) => state'[r] = "in" /\ \A j \in DOMAIN injected' : injected'[j] # r
      BY <1>3, <1>4, <1>6 DEF IInv, QueueInv
    <2>. QED BY <1>2, <1>6, <2>1, <2>2, <2>3 DEF QueueInv
  <1>10. FoldInv'
    BY <1>1, <1>2, <1>3 DEF IInv, FoldInv
  <1>11. ShareInv'
    <2> SUFFICES ASSUME NEW r \in Queries
                 PROVE  /\ IsFiniteSet(Waiting(r)')
                        /\ degree'[r] > 0 =>
                             Cardinality(Waiting(r)') + Cardinality(Folding(r)') <= Oversub * degree'[r]
      BY DEF ShareInv
    <2>1. CASE r # q
      BY <2>1, <1>2, <1>7 DEF IInv, ShareInv
    <2>2. CASE r = q
      <3>1. Waiting(r) = {} /\ Folding(r) = {}
        BY <2>2, <1>4, NothingForked, NothingCovered DEF Phases
      <3>2. degree'[r] \in Nat
        BY <1>7
      <3>3. IsFiniteSet(Waiting(r)') /\ Cardinality(Waiting(r)') = 0 /\ Cardinality(Folding(r)') = 0
        BY <3>1, <1>2, FS_EmptySet
      <3>. QED BY <3>2, <3>3 DEF Oversub
    <2>. QED BY <2>1, <2>2
  <1>. QED BY <1>2, <1>8, <1>9, <1>10, <1>11 DEF IInv

LEMMA ForfeitKeeps ==
  ASSUME IInv, NEW q \in Queries, Forfeit(q)
  PROVE  IInv'
  <1>1. /\ state[q] = "out" /\ state' = [state EXCEPT ![q] = "Cancelled"]
        /\ UNCHANGED <<lens, cut, injected, pending, stack, degree, failed, cancelled, late, folded, reading, beyond>>
    BY DEF Forfeit
  <1>2. /\ StackInv' /\ TaskInv' /\ Frame' = Frame /\ Morsels' = Morsels
        /\ \A r, phase : RootIn(r, phase)' <=> RootIn(r, phase)
        /\ \A t, r, m : FoldsTo(t, r, m)' <=> FoldsTo(t, r, m)
        /\ \A r : Waiting(r)' = Waiting(r) /\ Folding(r)' = Folding(r)
    BY <1>1, Idle
  <1>3. \A r \in Queries : state'[r] = IF r = q THEN "Cancelled" ELSE state[r]
    BY <1>1 DEF IInv, TypeOK
  <1>4. TypeOK'
    <2>1. state' \in [Queries -> {"out", "in"} \cup Outcomes]
      BY <1>1 DEF IInv, TypeOK, Outcomes, Errors
    <2>. QED BY <1>1, <1>2, <2>1 DEF IInv, TypeOK
  <1>5. QueueInv'
    BY <1>1, <1>2, <1>3 DEF IInv, QueueInv
  <1>6. FoldInv'
    BY <1>1, <1>2, <1>3 DEF IInv, FoldInv
  <1>7. ShareInv'
    BY <1>1, <1>2 DEF IInv, ShareInv
  <1>. QED BY <1>2, <1>4, <1>5, <1>6, <1>7 DEF IInv

LEMMA OutsideKeeps ==
  ASSUME IInv, UNCHANGED <<lens, cut, injected, pending, stack, state, degree, failed, folded, beyond>>,
         reading' \in [Threads -> BOOLEAN], cancelled' \in [Queries -> BOOLEAN], late' \in [Queries -> BOOLEAN]
  PROVE  IInv'
  <1>1. /\ StackInv' /\ TaskInv' /\ Frame' = Frame /\ Morsels' = Morsels
        /\ \A r, phase : RootIn(r, phase)' <=> RootIn(r, phase)
        /\ \A t, r, m : FoldsTo(t, r, m)' <=> FoldsTo(t, r, m)
        /\ \A r : Waiting(r)' = Waiting(r) /\ Folding(r)' = Folding(r)
    BY Idle
  <1>2. TypeOK'
    BY <1>1 DEF IInv, TypeOK
  <1>3. QueueInv'
    BY <1>1 DEF IInv, QueueInv
  <1>4. FoldInv'
    BY <1>1 DEF IInv, FoldInv
  <1>5. ShareInv'
    BY <1>1 DEF IInv, ShareInv
  <1>. QED BY <1>1, <1>2, <1>3, <1>4, <1>5 DEF IInv
-----------------------------------------------------------------------------
(* The steps of the threads.                                               *)
LEMMA Elsewhere ==
  ASSUME NEW t \in Threads, SameElsewhere(t), NEW u \in Threads, u # t
  PROVE  /\ Works(u)' <=> Works(u)
         /\ Top(u)' = Top(u)
         /\ \A x : Does(u, x)' <=> Does(u, x)
         /\ \A q, m : FoldsTo(u, q, m)' <=> FoldsTo(u, q, m)
  <1>1. stack'[u] = stack[u]
    BY DEF SameElsewhere
  <1>2. (Works(u)' <=> Works(u)) /\ Top(u)' = Top(u)
    BY <1>1 DEF Works, Busy, Top
  <1>. QED BY <1>2 DEF Does, FoldsTo, Covers

\* What of the types no step of a thread but Finish and FoldMorsel touches.
LEMMA TypeKept ==
  ASSUME IInv, StackInv', UNCHANGED <<lens, state, degree, cancelled, late>>,
         cut' \in {"no", "yes"}, injected' \in Seq(Queries), pending' \subseteq Frame,
         failed' \in [Queries -> {"none"} \cup Errors],
         folded' \in [Queries -> [Morsels -> 0..1]], reading' \in [Threads -> BOOLEAN],
         beyond' \in [Queries -> [Threads -> 0..MaxBeyond]]
  PROVE  TypeOK' /\ Frame' = Frame /\ Morsels' = Morsels
  <1>1. Frame' = Frame /\ Morsels' = Morsels
    BY DEF Frame, Morsels
  <1>2. \A q \in ToSet(injected') : q \in Queries
    BY DEF ToSet
  <1>3. \A t \in Threads : \A i \in DOMAIN stack'[t] : stack'[t][i] \in Frame
    BY <1>1 DEF StackInv, StackType
  <1>. QED BY <1>1, <1>2, <1>3 DEF IInv, TypeOK

LEMMA CutKeeps ==
  ASSUME IInv, NEW t \in Threads, Cut(t)
  PROVE  IInv'
  <1>1. /\ Busy(t) /\ Top(t).kind = "root" /\ RunsRoot(t, "start")
        /\ pending' = pending \cup {Footer(Top(t).q, f) : f \in Files}
        /\ Replace(t, Root(Top(t).q, "cut"))
        /\ UNCHANGED <<lens, cut, injected, state, degree, failed, cancelled, late, folded, reading, beyond>>
    BY DEF Cut, RunsRoot
  <1>2. PICK q \in Queries : q = Top(t).q
    BY <1>1, Tops, FrameKinds DEF IInv
  <1> DEFINE x == Root(q, "cut")
  <1>3. x \in Frame /\ x.kind = "root" /\ x.q = q /\ x.phase = "cut"
    BY DEF Frame, Root
  <1>4. Replace(t, x)
    BY <1>1, <1>2
  <1> HIDE DEF x
  <1>5. /\ StackInv' /\ SameElsewhere(t) /\ Top(t)' = x
        /\ \A phase : RootIn(q, phase)' <=> phase = "cut"
        /\ \A r, phase : r # q => (RootIn(r, phase)' <=> RootIn(r, phase))
    BY <1>1, <1>2, <1>3, <1>4, ReplaceKeeps DEF IInv
  <1>6. RootIn(q, "start") /\ ~RootIn(q, "cut") /\ ~RootIn(q, "fold")
    BY <1>1, <1>2, Tops, OnePhase DEF IInv
  <1>7. ~Works(t) /\ ~Works(t)'
    BY <1>1, <1>3, <1>5 DEF Works
  <1>8. \A p \in pending : p.q # q
    BY <1>6, NothingForked
  <1>9. \A p \in pending' : p \in pending \/ (p.kind = "footer" /\ p.q = q /\ p \in Frame)
    BY <1>1, <1>2 DEF Footer, Frame
  <1>10. \A u \in Threads : \A r, m : FoldsTo(u, r, m)' <=> FoldsTo(u, r, m)
    BY <1>5, <1>7, Elsewhere DEF FoldsTo
  <1>11. \A u \in Threads : \A y : Does(u, y)' <=> Does(u, y)
    BY <1>5, <1>7, Elsewhere DEF Does
  <1>12. TypeOK' /\ Frame' = Frame /\ Morsels' = Morsels
    <2>1. pending' \subseteq Frame
      BY <1>9 DEF IInv, TypeOK
    <2>. QED BY <1>1, <1>5, <2>1, TypeKept DEF IInv, TypeOK, QueueInv
  <1>13. QueueInv'
    BY <1>1, <1>5, <1>6 DEF IInv, QueueInv, Phases
  <1>14. TaskInv'
    <2>1. ASSUME NEW p \in pending' PROVE Rooted(p)'
      BY <1>5, <1>8, <1>9 DEF IInv, TaskInv, Rooted
    <2>2. ASSUME NEW u \in Threads, NEW y \in Frame, Does(u, y) PROVE Rooted(y)'
      <3>1. y.q # q
        BY <2>2, <1>6, NothingForked DEF Does
      <3>2. Rooted(y)
        BY <2>2 DEF IInv, TaskInv
      <3>. QED BY <3>1, <3>2, <1>5 DEF Rooted
    <2>. QED BY <2>1, <2>2, <1>11, <1>12 DEF TaskInv
  <1>15. FoldInv'
    <2>1. \A p \in pending' : \A r, m : Covers(p, r, m) => p \in pending
      BY <1>9 DEF Covers
    <2>2. \A r : RootIn(r, "fold")' <=> RootIn(r, "fold")
      BY <1>5, <1>6
    <2>3. pending \subseteq pending'
      BY <1>1
    <2>. QED BY <1>1, <1>10, <1>12, <2>1, <2>2, <2>3 DEF IInv, FoldInv
  <1>16. ShareInv'
    <2>1. \A r : Waiting(r)' = Waiting(r)
      BY <1>1, <1>9 DEF Waiting
    <2>2. \A r : Folding(r)' = Folding(r)
      BY <1>5, <1>7, Elsewhere DEF Folding
    <2>. QED BY <1>1, <2>1, <2>2 DEF IInv, ShareInv
  <1>. QED BY <1>5, <1>12, <1>13, <1>14, <1>15, <1>16 DEF IInv

LEMMA FinishKeeps ==
  ASSUME IInv, NEW t \in Threads, Finish(t)
  PROVE  IInv'
  <1>1. /\ Busy(t) /\ Top(t).kind = "root" /\ Joined(Top(t).q)
        /\ RunsRoot(t, "fold") \/ (RunsRoot(t, "cut") /\ failed[Top(t).q] # "none")
        /\ Return(t)
        /\ UNCHANGED <<lens, cut, injected, pending, degree, failed, cancelled, late, folded, reading, beyond>>
    BY DEF Finish, RunsRoot
  <1>2. PICK q \in Queries : q = Top(t).q
    BY <1>1, Tops, FrameKinds DEF IInv
  <1>3. state' = [state EXCEPT ![q] = IF failed[q] = "none" THEN "rows" ELSE failed[q]]
    BY <1>2 DEF Finish
  <1>4. /\ StackInv' /\ SameElsewhere(t) /\ ~Works(t)'
        /\ \A r, phase : RootIn(r, phase)' <=> RootIn(r, phase) /\ r # q
    BY <1>1, <1>2, PopKeeps DEF IInv
  <1>5. /\ RootIn(q, "fold") \/ (RootIn(q, "cut") /\ failed[q] # "none")
        /\ ~Works(t)
    BY <1>1, <1>2, Tops DEF IInv, Works
  <1>6. (\A p \in pending : p.q # q) /\ \A u \in Threads : Works(u) => Top(u).q # q
    BY <1>1, <1>2, JoinedMeans DEF IInv
  <1>7. /\ failed[q] \in {"none"} \cup Errors
        /\ \A r \in Queries : r # q => state'[r] = state[r]
        /\ state'[q] = IF failed[q] = "none" THEN "rows" ELSE failed[q]
        /\ state' \in [Queries -> {"out", "in"} \cup Outcomes]
    BY <1>3 DEF IInv, TypeOK, Outcomes
  <1>8. \A u \in Threads : \A r, m : FoldsTo(u, r, m)' <=> FoldsTo(u, r, m)
    BY <1>4, <1>5, Elsewhere DEF FoldsTo
  <1>9. \A u \in Threads : \A y : Does(u, y)' <=> Does(u, y)
    BY <1>4, <1>5, Elsewhere DEF Does
  <1>10. Frame' = Frame /\ Morsels' = Morsels
    BY <1>1 DEF Frame, Morsels
  <1>11. TypeOK'
    <2>1. \A u \in Threads : \A i \in DOMAIN stack'[u] : stack'[u][i] \in Frame
      BY <1>4, <1>10 DEF StackInv, StackType
    <2>. QED BY <1>1, <1>7, <1>10, <2>1 DEF IInv, TypeOK
  <1>12. QueueInv'
    <2>1. \A j \in DOMAIN injected : injected[j] # q
      BY <1>5 DEF IInv, QueueInv, Phases
    <2>2. \A j \in DOMAIN injected : injected[j] \in Queries
      BY DEF IInv, QueueInv
    <2>. QED BY <1>1, <1>4, <1>7, <2>1, <2>2 DEF IInv, QueueInv
  <1>13. TaskInv'
    <2>1. ASSUME NEW p \in pending' PROVE Rooted(p)'
      BY <1>1, <1>4, <1>6 DEF IInv, TaskInv, Rooted
    <2>2. ASSUME NEW u \in Threads, NEW y \in Frame, Does(u, y) PROVE Rooted(y)'
      <3>1. y.q # q /\ Rooted(y)
        BY <2>2, <1>6 DEF Does, IInv, TaskInv
      <3>. QED BY <3>1, <1>4 DEF Rooted
    <2>. QED BY <2>1, <2>2, <1>9, <1>10 DEF TaskInv
  <1>14. FoldInv'
    <2>1. ASSUME NEW m \in Morsels, failed[q] = "none" PROVE folded[q][m] = 1
      <3>1. /\ \A p \in pending : ~Covers(p, q, m)
            /\ \A u \in Threads : ~FoldsTo(u, q, m)
        BY <1>6, NothingCovered
      <3>. QED BY <2>1, <3>1, <1>5 DEF IInv, FoldInv
    <2>2. /\ state'[q] \notin {"out", "in"}
          /\ state'[q] = "rows" => failed[q] = "none"
          /\ ~RootIn(q, "fold")'
      BY <1>4, <1>7 DEF Errors
    <2>3. \A r : r # q => (RootIn(r, "fold")' <=> RootIn(r, "fold"))
      BY <1>4
    <2> SUFFICES ASSUME NEW r \in Queries, NEW m \in Morsels
                 PROVE
                 /\ \A p \in pending : Covers(p, r, m) =>
                      /\ folded[r][m] = 0
                      /\ \A z \in pending : Covers(z, r, m) => z = p
                      /\ \A u \in Threads : ~FoldsTo(u, r, m)
                 /\ \A u \in Threads : FoldsTo(u, r, m) =>
                      folded[r][m] = 0 /\ \A w \in Threads : FoldsTo(w, r, m) => w = u
                 /\ (RootIn(r, "fold")' /\ failed[r] = "none") =>
                      \/ folded[r][m] = 1
                      \/ \E p \in pending : Covers(p, r, m)
                      \/ \E u \in Threads : FoldsTo(u, r, m)
                 /\ (state'[r] \in {"out", "in"} /\ ~RootIn(r, "fold")') => folded[r][m] = 0
                 /\ state'[r] = "rows" => folded[r][m] = 1
      BY <1>1, <1>8, <1>10 DEF FoldInv
    <2>4. CASE r = q
      BY <2>4, <2>1, <2>2 DEF IInv, FoldInv
    <2>5. CASE r # q
      BY <2>5, <2>3, <1>7 DEF IInv, FoldInv
    <2>. QED BY <2>4, <2>5
  <1>15. ShareInv'
    <2>1. \A r : Waiting(r)' = Waiting(r)
      BY <1>1 DEF Waiting
    <2>2. \A r : Folding(r)' = Folding(r)
      BY <1>4, <1>5, Elsewhere DEF Folding
    <2>. QED BY <1>1, <2>1, <2>2 DEF IInv, ShareInv
  <1>. QED BY <1>4, <1>11, <1>12, <1>13, <1>14, <1>15 DEF IInv
LEMMA ForkKeeps ==
  ASSUME IInv, NEW t \in Threads, ForkBatches(t)
  PROVE  IInv'
  <1>1. /\ Busy(t) /\ Top(t).kind = "root"
        /\ RunsRoot(t, "start") \/ (RunsRoot(t, "cut") /\ Joined(Top(t).q))
        /\ cut' = "yes" /\ Replace(t, Root(Top(t).q, "fold"))
        /\ UNCHANGED <<lens, injected, state, degree, failed, cancelled, late, folded, reading, beyond>>
    BY DEF ForkBatches, RunsRoot
  <1>2. PICK q \in Queries : q = Top(t).q
    BY <1>1, Tops, FrameKinds DEF IInv
  <1>3. PICK d \in Nat : d = degree[q]
    BY Params DEF IInv, TypeOK
  <1> DEFINE Forked == {Batch(q, s) : s \in Coalesce(d)}
             x == Root(q, "fold")
  <1>4. pending' = pending \cup Forked
    BY <1>2, <1>3 DEF ForkBatches
  <1>5. x \in Frame /\ x.kind = "root" /\ x.q = q /\ x.phase = "fold"
    BY DEF Frame, Root
  <1>6. Replace(t, x)
    BY <1>1, <1>2
  <1> HIDE DEF x
  <1>7. /\ StackInv' /\ SameElsewhere(t) /\ Top(t)' = x
        /\ \A phase : RootIn(q, phase)' <=> phase = "fold"
        /\ \A r, phase : r # q => (RootIn(r, phase)' <=> RootIn(r, phase))
    BY <1>1, <1>2, <1>5, <1>6, ReplaceKeeps DEF IInv
  <1>8. \E phase \in {"start", "cut"} : RootIn(q, phase)
    BY <1>1, <1>2, Tops DEF IInv
  <1>9. /\ ~RootIn(q, "fold") /\ state[q] = "in"
        /\ \A j \in DOMAIN injected : injected[j] # q
    BY <1>8, OnePhase DEF IInv, QueueInv, Phases
  <1>10. (\A p \in pending : p.q # q) /\ \A u \in Threads : Works(u) => Top(u).q # q
    <2>1. CASE RunsRoot(t, "start")
      <3>1. RootIn(q, "start") /\ ~RootIn(q, "cut")
        BY <2>1, <1>2, Tops, OnePhase DEF IInv
      <3>. QED BY <3>1, <1>9, NothingForked
    <2>2. CASE RunsRoot(t, "cut") /\ Joined(Top(t).q)
      BY <2>2, <1>2, JoinedMeans DEF IInv
    <2>. QED BY <1>1, <2>1, <2>2
  <1>11. ~Works(t) /\ ~Works(t)'
    BY <1>1, <1>5, <1>7 DEF Works
  <1>12. lens \in Seq(Nat) /\ Morsels = 1..Len(lens) /\ Len(lens) \in Nat
    BY Params DEF IInv
  <1>13. \A s \in Coalesce(d) :
           /\ Batch(q, s) \in Frame /\ Batch(q, s).kind = "batch" /\ Batch(q, s).q = q
           /\ Batch(q, s).first = s.first /\ Batch(q, s).last = s.last
    <2> SUFFICES ASSUME NEW s \in Coalesce(d)
                 PROVE  /\ Batch(q, s) \in Frame /\ Batch(q, s).kind = "batch" /\ Batch(q, s).q = q
                        /\ Batch(q, s).first = s.first /\ Batch(q, s).last = s.last
      OBVIOUS
    <2>1. s.first \in 1..(Len(lens) + 1) /\ s.last \in Morsels
      BY <1>12, SliceIs
    <2>. QED BY <2>1 DEF Batch, Frame
  <1>14. \A p \in pending' : p \in pending \/ \E s \in Coalesce(d) : p = Batch(q, s)
    BY <1>4
  <1>15. \A u \in Threads : \A r, m : FoldsTo(u, r, m)' <=> FoldsTo(u, r, m)
    BY <1>7, <1>11, Elsewhere DEF FoldsTo
  <1>16. \A u \in Threads : \A y : Does(u, y)' <=> Does(u, y)
    BY <1>7, <1>11, Elsewhere DEF Does
  <1>17. TypeOK' /\ Frame' = Frame /\ Morsels' = Morsels
    <2>1. pending' \subseteq Frame
      BY <1>13, <1>14 DEF IInv, TypeOK
    <2>. QED BY <1>1, <1>7, <2>1, TypeKept DEF IInv, TypeOK, QueueInv
  <1>18. QueueInv'
    BY <1>1, <1>7, <1>9 DEF IInv, QueueInv
  <1>19. TaskInv'
    <2>1. ASSUME NEW p \in pending' PROVE Rooted(p)'
      <3>1. CASE p \in pending
        BY <3>1, <1>7, <1>10 DEF IInv, TaskInv, Rooted
      <3>2. CASE \E s \in Coalesce(d) : p = Batch(q, s)
        BY <3>2, <1>7, <1>13 DEF Rooted
      <3>. QED BY <3>1, <3>2, <1>14
    <2>2. ASSUME NEW u \in Threads, NEW y \in Frame, Does(u, y) PROVE Rooted(y)'
      <3>1. y.q # q /\ Rooted(y)
        BY <2>2, <1>10 DEF Does, IInv, TaskInv
      <3>. QED BY <3>1, <1>7 DEF Rooted
    <2>. QED BY <2>1, <2>2, <1>16, <1>17 DEF TaskInv
  <1>20. FoldInv'
    <2>1. ASSUME NEW m \in Morsels, NEW p \in pending', Covers(p, q, m)
          PROVE  \E s \in Coalesce(d) : p = Batch(q, s) /\ s.first <= m /\ m <= s.last
      BY <2>1, <1>10, <1>13, <1>14 DEF Covers
    <2>2. ASSUME NEW m \in Morsels, NEW p \in pending', NEW r \in pending',
                 Covers(p, q, m), Covers(r, q, m)
          PROVE  r = p
      <3>1. PICK a \in Coalesce(d) : p = Batch(q, a) /\ a.first <= m /\ m <= a.last
        BY <2>1, <2>2
      <3>2. PICK b \in Coalesce(d) : r = Batch(q, b) /\ b.first <= m /\ m <= b.last
        BY <2>1, <2>2
      <3>3. a = b
        BY <3>1, <3>2, <1>12, SlicesApart
      <3>. QED BY <3>1, <3>2, <3>3
    <2>3. ASSUME NEW m \in Morsels PROVE \E p \in pending' : Covers(p, q, m)
      <3>1. PICK s \in Coalesce(d) : s.first <= m /\ m <= s.last
        BY <1>12, SliceOf
      <3>2. Batch(q, s) \in pending'
        BY <1>4
      <3>. QED BY <3>1, <3>2, <1>13 DEF Covers
    <2>4. ASSUME NEW m \in Morsels
          PROVE folded[q][m] = 0 /\ \A u \in Threads : ~FoldsTo(u, q, m)
      BY <1>9, <1>10, NothingCovered DEF IInv, FoldInv
    <2>5. ASSUME NEW r, r # q
          PROVE  /\ RootIn(r, "fold")' <=> RootIn(r, "fold")
                 /\ \A p \in pending' : \A m : Covers(p, r, m) => p \in pending
                 /\ \A p \in pending : p \in pending'
      BY <2>5, <1>4, <1>7, <1>13, <1>14 DEF Covers
    <2>6. RootIn(q, "fold")' /\ state[q] # "rows"
      BY <1>7, <1>9
    <2> HIDE DEF Forked
    <2> SUFFICES ASSUME NEW r \in Queries, NEW m \in Morsels
                 PROVE
                 /\ \A p \in pending' : Covers(p, r, m) =>
                      /\ folded[r][m] = 0
                      /\ \A z \in pending' : Covers(z, r, m) => z = p
                      /\ \A u \in Threads : ~FoldsTo(u, r, m)
                 /\ \A u \in Threads : FoldsTo(u, r, m) =>
                      folded[r][m] = 0 /\ \A w \in Threads : FoldsTo(w, r, m) => w = u
                 /\ (RootIn(r, "fold")' /\ failed[r] = "none") =>
                      \/ folded[r][m] = 1
                      \/ \E p \in pending' : Covers(p, r, m)
                      \/ \E u \in Threads : FoldsTo(u, r, m)
                 /\ (state[r] \in {"out", "in"} /\ ~RootIn(r, "fold")') => folded[r][m] = 0
                 /\ state[r] = "rows" => folded[r][m] = 1
      BY <1>1, <1>15, <1>17 DEF FoldInv, Covers
    <2>7. CASE r = q
      BY <2>7, <2>2, <2>3, <2>4, <2>6
    <2>8. CASE r # q
      BY <2>8, <2>5 DEF IInv, FoldInv
    <2>. QED BY <2>7, <2>8
  <1>21. ShareInv'
    <2> SUFFICES ASSUME NEW r \in Queries
                 PROVE  /\ IsFiniteSet(Waiting(r)')
                        /\ degree[r] > 0 =>
                             Cardinality(Waiting(r)') + Cardinality(Folding(r)') <= Oversub * degree[r]
      BY <1>1 DEF ShareInv
    <2>1. Folding(r)' = Folding(r)
      BY <1>7, <1>11, Elsewhere DEF Folding
    <2>2. CASE r # q
      <3>1. Waiting(r)' = Waiting(r)
        BY <2>2, <1>4, <1>13, <1>14 DEF Waiting
      <3>. QED BY <3>1, <2>1 DEF IInv, ShareInv
    <2>3. CASE r = q
      <3>1. Waiting(r)' = Forked
        BY <2>3, <1>4, <1>10, <1>13, <1>14 DEF Waiting
      <3>2. Folding(r)' = {}
        BY <2>1, <2>3, <1>10, NothingCovered
      <3>3. IsFiniteSet(Coalesce(d)) /\ (d > 0 => Cardinality(Coalesce(d)) <= d * Oversub)
        BY <1>12, SlicesFew
      <3> DEFINE f == [s \in Coalesce(d) |-> Batch(q, s)]
      <3>4. f \in Surjection(Coalesce(d), Forked)
        BY DEF Surjection
      <3>5. IsFiniteSet(Forked) /\ Cardinality(Forked) <= Cardinality(Coalesce(d))
        BY <3>3, <3>4, FS_Surjection
      <3>6. Cardinality(Forked) \in Nat /\ Cardinality(Coalesce(d)) \in Nat
        BY <3>3, <3>5, FS_CardinalityType
      <3>7. Cardinality(Folding(r)') = 0
        BY <3>2, FS_EmptySet
      <3>8. d > 0 => Cardinality(Forked) + 0 <= Oversub * d
        <4> HIDE DEF Forked, f
        <4>. QED BY <3>3, <3>5, <3>6 DEF Oversub
      <3> HIDE DEF Forked, f
      <3>. QED BY <3>1, <3>5, <3>7, <3>8, <1>3, <2>3
    <2>. QED BY <2>2, <2>3
  <1>. QED BY <1>7, <1>17, <1>18, <1>19, <1>20, <1>21 DEF IInv
LEMMA TakeTaskKeeps ==
  ASSUME IInv, NEW t \in Threads, TakeTask(t)
  PROVE  IInv'
  <1>1. /\ Busy(t) => Top(t).kind = "root"
        /\ UNCHANGED <<lens, cut, injected, state, degree, failed, cancelled, late, folded, reading, beyond>>
    BY DEF TakeTask, Waits
  <1>2. PICK p \in pending :
          /\ pending' = pending \ {p}
          /\ stack' = IF failed[p.q] = "none" THEN [stack EXCEPT ![t] = <<p>> \o @] ELSE stack
    BY DEF TakeTask, Own
  <1>3. p \in Frame /\ p.kind # "root" /\ p.q \in Queries
    BY <1>2, FrameKinds DEF IInv, TypeOK, TaskInv, Rooted
  <1> DEFINE Taken == failed[p.q] = "none"
  <1>4. /\ StackInv' /\ ~Works(t)
        /\ \A r, phase : RootIn(r, phase)' <=> RootIn(r, phase)
        /\ SameElsewhere(t)
        /\ \A y : Does(t, y)' <=> Taken /\ y = p
        /\ \A r, m : FoldsTo(t, r, m)' <=> Taken /\ Covers(p, r, m)
        /\ Works(t)' => Taken /\ Top(t)' = p
        /\ Taken => Works(t)'
    <2>1. CASE Taken
      <3>1. stack' = [stack EXCEPT ![t] = <<p>> \o @]
        BY <1>2, <2>1
      <3>2. /\ StackInv' /\ SameElsewhere(t) /\ Busy(t)' /\ Top(t)' = p /\ ~Works(t)
            /\ \A r, phase : RootIn(r, phase)' <=> RootIn(r, phase)
        BY <3>1, <1>1, <1>3, PushKeeps DEF IInv
      <3>3. Works(t)'
        BY <3>2, <1>3 DEF Works
      <3>. QED BY <3>2, <3>3, <2>1 DEF Does, FoldsTo, Covers
    <2>2. CASE ~Taken
      <3>1. stack' = stack
        BY <1>2, <2>2
      <3>2. StackInv' /\ \A r, phase : RootIn(r, phase)' <=> RootIn(r, phase)
        BY <3>1, <1>1 DEF IInv, StackInv, StackType, Shaped, OneRoot, RootIn, Frame, Morsels
      <3>3. ~Works(t) /\ ~Works(t)'
        BY <3>1, <1>1 DEF Works, Busy, Top
      <3>. QED BY <3>1, <3>2, <3>3, <2>2 DEF Does, FoldsTo, SameElsewhere
    <2>. QED BY <2>1, <2>2
  <1> HIDE DEF Taken
  <1>5. ~Taken => failed[p.q] # "none"
    BY DEF Taken
  <1>6. \A u \in Threads : u # t =>
          /\ \A y : Does(u, y)' <=> Does(u, y)
          /\ \A r, m : FoldsTo(u, r, m)' <=> FoldsTo(u, r, m)
    BY <1>4, Elsewhere
  <1>7. TypeOK' /\ Frame' = Frame /\ Morsels' = Morsels
    <2>1. pending' \subseteq Frame
      BY <1>2 DEF IInv, TypeOK
    <2>. QED BY <1>1, <1>4, <2>1, TypeKept DEF IInv, TypeOK, QueueInv
  <1>8. QueueInv'
    BY <1>1, <1>4 DEF IInv, QueueInv
  <1>9. TaskInv'
    <2>1. ASSUME NEW r \in pending' PROVE Rooted(r)'
      BY <1>2, <1>4 DEF IInv, TaskInv, Rooted
    <2>2. ASSUME NEW u \in Threads, NEW y \in Frame, Does(u, y)' PROVE Rooted(y)'
      <3>1. Rooted(y)
        <4>1. CASE u = t
          BY <4>1, <2>2, <1>2, <1>4 DEF IInv, TaskInv
        <4>2. CASE u # t
          BY <4>2, <2>2, <1>6 DEF IInv, TaskInv
        <4>. QED BY <4>1, <4>2
      <3>. QED BY <3>1, <1>4 DEF Rooted
    <2>. QED BY <2>1, <2>2, <1>7 DEF TaskInv
  <1>10. FoldInv'
    <2> SUFFICES ASSUME NEW r \in Queries, NEW m \in Morsels
                 PROVE
                 /\ \A z \in pending' : Covers(z, r, m) =>
                      /\ folded[r][m] = 0
                      /\ \A y \in pending' : Covers(y, r, m) => y = z
                      /\ \A u \in Threads : ~FoldsTo(u, r, m)'
                 /\ \A u \in Threads : FoldsTo(u, r, m)' =>
                      folded[r][m] = 0 /\ \A w \in Threads : FoldsTo(w, r, m)' => w = u
                 /\ (RootIn(r, "fold") /\ failed[r] = "none") =>
                      \/ folded[r][m] = 1
                      \/ \E z \in pending' : Covers(z, r, m)
                      \/ \E u \in Threads : FoldsTo(u, r, m)'
                 /\ (state[r] \in {"out", "in"} /\ ~RootIn(r, "fold")) => folded[r][m] = 0
                 /\ state[r] = "rows" => folded[r][m] = 1
      BY <1>1, <1>4, <1>7 DEF FoldInv, Covers
    <2>1. /\ \A z \in pending : Covers(z, r, m) =>
               /\ folded[r][m] = 0
               /\ \A y \in pending : Covers(y, r, m) => y = z
               /\ \A u \in Threads : ~FoldsTo(u, r, m)
          /\ \A u \in Threads : FoldsTo(u, r, m) =>
               folded[r][m] = 0 /\ \A w \in Threads : FoldsTo(w, r, m) => w = u
          /\ (RootIn(r, "fold") /\ failed[r] = "none") =>
               \/ folded[r][m] = 1
               \/ \E z \in pending : Covers(z, r, m)
               \/ \E u \in Threads : FoldsTo(u, r, m)
          /\ (state[r] \in {"out", "in"} /\ ~RootIn(r, "fold")) => folded[r][m] = 0
          /\ state[r] = "rows" => folded[r][m] = 1
      BY DEF IInv, FoldInv
    <2>2. ~FoldsTo(t, r, m)
      BY <1>4 DEF FoldsTo
    <2>3. Covers(p, r, m) => p.q = r
      BY DEF Covers
    <2>4. \A z \in pending' : z \in pending /\ z # p
      BY <1>2
    <2>5. \A z \in pending : z \in pending' \/ z = p
      BY <1>2
    <2>6. FoldsTo(t, r, m)' <=> Taken /\ Covers(p, r, m)
      BY <1>4
    <2>7. \A u \in Threads : u # t => (FoldsTo(u, r, m)' <=> FoldsTo(u, r, m))
      BY <1>6
    <2>8. \A z \in pending' : Covers(z, r, m) =>
            /\ folded[r][m] = 0
            /\ \A y \in pending' : Covers(y, r, m) => y = z
            /\ \A u \in Threads : ~FoldsTo(u, r, m)'
      BY <1>2, <2>1, <2>4, <2>6, <2>7
    <2>9. \A u \in Threads : FoldsTo(u, r, m)' =>
            folded[r][m] = 0 /\ \A w \in Threads : FoldsTo(w, r, m)' => w = u
      BY <1>2, <2>1, <2>6, <2>7
    <2>10. (RootIn(r, "fold") /\ failed[r] = "none") =>
             \/ folded[r][m] = 1
             \/ \E z \in pending' : Covers(z, r, m)
             \/ \E u \in Threads : FoldsTo(u, r, m)'
      <3> SUFFICES ASSUME RootIn(r, "fold"), failed[r] = "none"
                   PROVE  \/ folded[r][m] = 1
                          \/ \E z \in pending' : Covers(z, r, m)
                          \/ \E u \in Threads : FoldsTo(u, r, m)'
        OBVIOUS
      <3>1. Covers(p, r, m) => FoldsTo(t, r, m)'
        BY <1>5, <2>3, <2>6
      <3>2. \A u \in Threads : FoldsTo(u, r, m) => FoldsTo(u, r, m)'
        BY <2>2, <2>7
      <3>. QED BY <2>1, <2>5, <3>1, <3>2
    <2>. QED BY <2>1, <2>8, <2>9, <2>10
  <1>11. ShareInv'
    <2> SUFFICES ASSUME NEW r \in Queries
                 PROVE  /\ IsFiniteSet(Waiting(r)')
                        /\ degree[r] > 0 =>
                             Cardinality(Waiting(r)') + Cardinality(Folding(r)') <= Oversub * degree[r]
      BY <1>1 DEF ShareInv
    <2>1. /\ IsFiniteSet(Waiting(r))
          /\ degree[r] > 0 => Cardinality(Waiting(r)) + Cardinality(Folding(r)) <= Oversub * degree[r]
      BY DEF IInv, ShareInv
    <2>2. IsFiniteSet(Folding(r)) /\ t \notin Folding(r)
      <3>1. Folding(r) \in SUBSET Threads /\ t \notin Folding(r)
        BY <1>4 DEF Folding
      <3>. QED BY <3>1, FoldPoolAssumption, FS_Subset
    <2>3. Waiting(r)' = Waiting(r) \ {p}
      BY <1>2 DEF Waiting
    <2>4. \A u \in Threads : u # t => (u \in Folding(r)' <=> u \in Folding(r))
      BY <1>4, Elsewhere DEF Folding
    <2>5. t \in Folding(r)' => p \in Waiting(r)
      BY <1>2, <1>4 DEF Folding, Waiting
    <2>6. Folding(r)' \subseteq Threads
      BY DEF Folding
    <2>7. degree[r] \in Nat
      BY Params DEF IInv, TypeOK
    <2>8. /\ IsFiniteSet(Waiting(r)')
          /\ Cardinality(Waiting(r)') = IF p \in Waiting(r) THEN Cardinality(Waiting(r)) - 1
                                        ELSE Cardinality(Waiting(r))
      BY <2>1, <2>3, FS_RemoveElement
    <2>9. Cardinality(Folding(r)') = IF t \in Folding(r)' THEN Cardinality(Folding(r)) + 1
                                     ELSE Cardinality(Folding(r))
      <3>1. CASE t \in Folding(r)'
        <4>1. Folding(r)' = Folding(r) \cup {t}
          BY <3>1, <2>2, <2>4, <2>6 DEF Folding
        <4>. QED BY <3>1, <4>1, <2>2, FS_AddElement
      <3>2. CASE t \notin Folding(r)'
        <4>1. Folding(r)' = Folding(r)
          BY <3>2, <2>2, <2>4, <2>6 DEF Folding
        <4>. QED BY <3>2, <4>1
      <3>. QED BY <3>1, <3>2
    <2>10. Cardinality(Waiting(r)) \in Nat /\ Cardinality(Folding(r)) \in Nat
      BY <2>1, <2>2, FS_CardinalityType
    <2>. QED BY <2>1, <2>5, <2>7, <2>8, <2>9, <2>10 DEF Oversub
  <1>. QED BY <1>4, <1>7, <1>8, <1>9, <1>10, <1>11 DEF IInv

LEMMA TakeInjectedKeeps ==
  ASSUME IInv, NEW t \in Threads, TakeInjected(t)
  PROVE  IInv'
  <1>1. /\ Busy(t) => Top(t).kind = "root"
        /\ injected # <<>> /\ injected' = Tail(injected)
        /\ stack' = [stack EXCEPT ![t] = <<Root(Head(injected), "start")>> \o @]
        /\ UNCHANGED <<lens, cut, pending, state, degree, failed, cancelled, late, folded, reading, beyond>>
    BY DEF TakeInjected, Waits
  <1>2. injected \in Seq(Queries) /\ \A j, k \in DOMAIN injected : injected[j] = injected[k] => j = k
    BY DEF IInv, QueueInv
  <1>3. /\ injected' \in Seq(Queries) /\ Len(injected) \in Nat \ {0}
        /\ Len(injected') = Len(injected) - 1
        /\ \A j \in 1..(Len(injected) - 1) : injected'[j] = injected[j + 1]
        /\ Head(injected) = injected[1]
    BY <1>1, <1>2, Popped
  <1>4. PICK q \in Queries : q = Head(injected)
    BY <1>2, <1>3
  <1>5. 1 \in DOMAIN injected /\ injected[1] = q
    BY <1>2, <1>3, <1>4
  <1>6. \A j \in DOMAIN injected' :
          \E k \in DOMAIN injected : k = j + 1 /\ j \in Int /\ injected'[j] = injected[k] /\ k # 1
    <2> SUFFICES ASSUME NEW j \in 1..(Len(injected) - 1)
                 PROVE  \E k \in DOMAIN injected :
                          k = j + 1 /\ j \in Int /\ injected'[j] = injected[k] /\ k # 1
      BY <1>3
    <2>1. j + 1 \in 1..Len(injected) /\ j + 1 # 1 /\ j \in Int
      BY <1>3
    <2>. QED BY <2>1, <1>2, <1>3
  <1>7. state[q] = "in" /\ \A phase \in Phases : ~RootIn(q, phase)
    BY <1>5 DEF IInv, QueueInv
  <1>8. \A phase : ~RootIn(q, phase)
    <2>1. ASSUME NEW phase, RootIn(q, phase) PROVE phase \in Phases
      <3>1. PICK u \in Threads : \E i \in DOMAIN stack[u] :
              stack[u][i].kind = "root" /\ stack[u][i].q = q /\ stack[u][i].phase = phase
        BY <2>1 DEF RootIn
      <3>2. stack[u] \in Seq(Frame)
        BY DEF IInv, StackInv, StackType
      <3>3. \A i \in DOMAIN stack[u] : stack[u][i] \in Frame
        BY <3>2
      <3>. QED BY <3>1, <3>3, FrameKinds DEF Phases
    <2>. QED BY <2>1, <1>7
  <1> DEFINE x == Root(q, "start")
  <1>9. x \in Frame /\ x.kind = "root" /\ x.q = q /\ x.phase = "start"
    BY DEF Frame, Root
  <1>10. stack' = [stack EXCEPT ![t] = <<x>> \o @]
    BY <1>1, <1>4
  <1> HIDE DEF x
  <1>11. /\ StackInv' /\ SameElsewhere(t) /\ Top(t)' = x /\ ~Works(t)
         /\ \A r, phase : RootIn(r, phase)' <=> RootIn(r, phase) \/ (r = q /\ phase = "start")
    <2>1. x.kind = "root" => \A phase : ~RootIn(x.q, phase)
      BY <1>8, <1>9
    <2>2. /\ StackInv' /\ SameElsewhere(t) /\ Top(t)' = x /\ ~Works(t)
          /\ \A r, phase : RootIn(r, phase)' <=>
               RootIn(r, phase) \/ (x.kind = "root" /\ x.q = r /\ x.phase = phase)
      BY <1>1, <1>9, <1>10, <2>1, PushKeeps DEF IInv
    <2>3. \A r, phase : x.kind = "root" /\ x.q = r /\ x.phase = phase <=> r = q /\ phase = "start"
      BY <1>9
    <2>. QED BY <2>2, <2>3
  <1>12. ~Works(t)'
    BY <1>9, <1>11 DEF Works
  <1>13. \A u \in Threads : \A r, m : FoldsTo(u, r, m)' <=> FoldsTo(u, r, m)
    BY <1>11, <1>12, Elsewhere DEF FoldsTo
  <1>14. \A u \in Threads : \A y : Does(u, y)' <=> Does(u, y)
    BY <1>11, <1>12, Elsewhere DEF Does
  <1>15. TypeOK' /\ Frame' = Frame /\ Morsels' = Morsels
    BY <1>1, <1>3, <1>11, TypeKept DEF IInv, TypeOK
  <1>16. QueueInv'
    <2>1. \A j \in DOMAIN injected' : state[injected'[j]] = "in" /\ injected'[j] # q
      BY <1>2, <1>5, <1>6 DEF IInv, QueueInv
    <2>2. \A j, k \in DOMAIN injected' : injected'[j] = injected'[k] => j = k
      <3> SUFFICES ASSUME NEW j \in DOMAIN injected', NEW k \in DOMAIN injected',
                          injected'[j] = injected'[k]
                   PROVE  j = k
        OBVIOUS
      <3>1. PICK a \in DOMAIN injected : a = j + 1 /\ j \in Int /\ injected'[j] = injected[a]
        BY <1>6
      <3>2. PICK b \in DOMAIN injected : b = k + 1 /\ k \in Int /\ injected'[k] = injected[b]
        BY <1>6
      <3>3. a = b
        BY <3>1, <3>2, <1>2
      <3>. QED BY <3>1, <3>2, <3>3
    <2>3. \A r \in Queries, phase \in Phases :
            RootIn(r, phase) => \A j \in DOMAIN injected' : injected'[j] # r
      BY <1>6 DEF IInv, QueueInv
    <2>. QED BY <1>1, <1>3, <1>7, <1>11, <2>1, <2>2, <2>3 DEF IInv, QueueInv
  <1>17. TaskInv'
    <2>1. \A y : Rooted(y) => Rooted(y)'
      BY <1>11 DEF Rooted
    <2>. QED BY <1>1, <1>14, <1>15, <2>1 DEF IInv, TaskInv
  <1>18. FoldInv'
    <2>1. \A r : RootIn(r, "fold")' <=> RootIn(r, "fold")
      BY <1>11
    <2>. QED BY <1>1, <1>13, <1>15, <2>1 DEF IInv, FoldInv
  <1>19. ShareInv'
    <2>1. \A r : Waiting(r)' = Waiting(r)
      BY <1>1 DEF Waiting
    <2>2. \A r : Folding(r)' = Folding(r)
      BY <1>11, <1>12, Elsewhere DEF Folding
    <2>. QED BY <1>1, <2>1, <2>2 DEF IInv, ShareInv
  <1>. QED BY <1>11, <1>15, <1>16, <1>17, <1>18, <1>19 DEF IInv
\* A task returns: it has nothing before it any more, or its query has failed.
LEMMA ReturnKeeps ==
  ASSUME IInv, NEW t \in Threads, NEW q \in Queries, Works(t), Top(t).q = q, Return(t),
         UNCHANGED <<lens, cut, injected, pending, state, degree, cancelled, late, folded, reading, beyond>>,
         failed' \in [Queries -> {"none"} \cup Errors],
         \A r \in Queries : r # q => failed'[r] = failed[r],
         failed[q] # "none" => failed'[q] # "none",
         failed'[q] # "none" \/ \A m \in Morsels : ~FoldsTo(t, q, m)
  PROVE  IInv'
  <1>1. Busy(t) /\ Top(t).kind # "root"
    BY DEF Works
  <1>2. /\ StackInv' /\ SameElsewhere(t) /\ ~Works(t)'
        /\ \A r, phase : RootIn(r, phase)' <=> RootIn(r, phase)
    BY <1>1, PopKeeps DEF IInv
  <1>3. \A u \in Threads : u # t =>
          /\ \A y : Does(u, y)' <=> Does(u, y)
          /\ \A r, m : FoldsTo(u, r, m)' <=> FoldsTo(u, r, m)
    BY <1>2, Elsewhere
  <1>4. (\A y : ~Does(t, y)') /\ \A r, m : ~FoldsTo(t, r, m)'
    BY <1>2 DEF Does, FoldsTo
  <1>5. TypeOK' /\ Frame' = Frame /\ Morsels' = Morsels
    BY <1>2, TypeKept DEF IInv, TypeOK, QueueInv
  <1>6. QueueInv'
    BY <1>2 DEF IInv, QueueInv
  <1>7. TaskInv'
    <2>1. \A y : Rooted(y) => Rooted(y)'
      BY <1>2 DEF Rooted
    <2>2. \A u \in Threads : \A y : Does(u, y)' => Does(u, y)
      BY <1>3, <1>4
    <2>. QED BY <1>5, <2>1, <2>2 DEF IInv, TaskInv
  <1>8. FoldInv'
    <2>1. \A u \in Threads : \A r, m : FoldsTo(u, r, m)' => FoldsTo(u, r, m)
      BY <1>3, <1>4
    <2>2. \A u \in Threads : \A r, m : FoldsTo(u, r, m) => FoldsTo(u, r, m)' \/ (u = t /\ r = q)
      BY <1>3 DEF FoldsTo, Covers
    <2>3. ASSUME NEW r \in Queries, failed'[r] = "none"
          PROVE  /\ failed[r] = "none"
                 /\ \A u \in Threads, m \in Morsels : FoldsTo(u, r, m) => FoldsTo(u, r, m)'
      BY <2>2, <2>3
    <2> SUFFICES ASSUME NEW r \in Queries, NEW m \in Morsels
                 PROVE
                 /\ \A z \in pending : Covers(z, r, m) =>
                      /\ folded[r][m] = 0
                      /\ \A y \in pending : Covers(y, r, m) => y = z
                      /\ \A u \in Threads : ~FoldsTo(u, r, m)'
                 /\ \A u \in Threads : FoldsTo(u, r, m)' =>
                      folded[r][m] = 0 /\ \A w \in Threads : FoldsTo(w, r, m)' => w = u
                 /\ (RootIn(r, "fold") /\ failed'[r] = "none") =>
                      \/ folded[r][m] = 1
                      \/ \E z \in pending : Covers(z, r, m)
                      \/ \E u \in Threads : FoldsTo(u, r, m)'
                 /\ (state[r] \in {"out", "in"} /\ ~RootIn(r, "fold")) => folded[r][m] = 0
                 /\ state[r] = "rows" => folded[r][m] = 1
      BY <1>2, <1>5 DEF FoldInv
    <2>. QED BY <2>1, <2>3 DEF IInv, FoldInv
  <1>9. ShareInv'
    <2> SUFFICES ASSUME NEW r \in Queries
                 PROVE  /\ IsFiniteSet(Waiting(r)')
                        /\ degree[r] > 0 =>
                             Cardinality(Waiting(r)') + Cardinality(Folding(r)') <= Oversub * degree[r]
      BY DEF ShareInv
    <2>1. /\ IsFiniteSet(Waiting(r)) /\ Waiting(r)' = Waiting(r)
          /\ degree[r] > 0 => Cardinality(Waiting(r)) + Cardinality(Folding(r)) <= Oversub * degree[r]
      BY DEF IInv, ShareInv, Waiting
    <2>2. IsFiniteSet(Folding(r)) /\ Folding(r)' \in SUBSET Folding(r)
      <3>1. Folding(r) \in SUBSET Threads
        BY DEF Folding
      <3>2. Folding(r)' \in SUBSET Folding(r)
        BY <1>2, Elsewhere DEF Folding
      <3>. QED BY <3>1, <3>2, FoldPoolAssumption, FS_Subset
    <2>3. IsFiniteSet(Folding(r)') /\ Cardinality(Folding(r)') <= Cardinality(Folding(r))
      BY <2>2, FS_Subset
    <2>4. /\ Cardinality(Waiting(r)) \in Nat /\ Cardinality(Folding(r)) \in Nat
          /\ Cardinality(Folding(r)') \in Nat
      BY <2>1, <2>2, <2>3, FS_CardinalityType
    <2>5. degree[r] \in Nat
      BY Params DEF IInv, TypeOK
    <2>. QED BY <2>1, <2>3, <2>4, <2>5 DEF Oversub
  <1>. QED BY <1>2, <1>5, <1>6, <1>7, <1>8, <1>9 DEF IInv

LEMMA FailKeeps ==
  ASSUME IInv, NEW t \in Threads, Works(t), NEW e \in Errors, Fail(t, e),
         UNCHANGED <<lens, cut, injected, pending, state, degree, cancelled, late, folded, reading, beyond>>
  PROVE  IInv'
  <1>1. PICK q \in Queries : q = Top(t).q
    BY Tops, FrameKinds DEF IInv, Works
  <1>2. Return(t) /\ failed' = [failed EXCEPT ![q] = IF @ = "none" THEN e ELSE @]
    BY <1>1 DEF Fail
  <1>3. failed \in [Queries -> {"none"} \cup Errors]
    BY DEF IInv, TypeOK
  <1>4. /\ failed' \in [Queries -> {"none"} \cup Errors]
        /\ \A r \in Queries : r # q => failed'[r] = failed[r]
        /\ failed'[q] # "none"
    BY <1>2, <1>3 DEF Errors
  <1>. QED BY <1>1, <1>2, <1>4, ReturnKeeps

LEMMA ReadFooterKeeps ==
  ASSUME IInv, NEW t \in Threads, ReadFooter(t)
  PROVE  IInv'
  <1>1. /\ Works(t) /\ Top(t).kind = "footer"
        /\ UNCHANGED <<lens, cut, injected, pending, state, degree, cancelled, late, folded, reading, beyond>>
    BY DEF ReadFooter, RunsTask, Works
  <1>2. Fail(t, "Io") \/ (Return(t) /\ UNCHANGED failed)
    BY DEF ReadFooter
  <1>3. CASE Fail(t, "Io")
    BY <1>1, <1>3, FailKeeps DEF Errors
  <1>4. CASE Return(t) /\ UNCHANGED failed
    <2>1. PICK q \in Queries : q = Top(t).q
      BY <1>1, Tops, FrameKinds DEF IInv, Works
    <2>2. \A m : ~FoldsTo(t, q, m)
      BY <1>1 DEF FoldsTo, Covers
    <2>3. failed' \in [Queries -> {"none"} \cup Errors]
      BY <1>4 DEF IInv, TypeOK
    <2>. QED BY <1>1, <1>4, <2>1, <2>2, <2>3, ReturnKeeps
  <1>. QED BY <1>2, <1>3, <1>4

LEMMA EndBatchKeeps ==
  ASSUME IInv, NEW t \in Threads, EndBatch(t)
  PROVE  IInv'
  <1>1. /\ Works(t) /\ Top(t).kind = "batch" /\ Top(t).first > Top(t).last
        /\ UNCHANGED <<lens, cut, injected, pending, state, degree, cancelled, late, folded, reading, beyond>>
    BY DEF EndBatch, RunsTask, Works
  <1>2. Fail(t, "Timeout") \/ (Return(t) /\ UNCHANGED failed)
    BY DEF EndBatch
  <1>3. CASE Fail(t, "Timeout")
    BY <1>1, <1>3, FailKeeps DEF Errors
  <1>4. CASE Return(t) /\ UNCHANGED failed
    <2>1. PICK q \in Queries : q = Top(t).q
      BY <1>1, Tops, FrameKinds DEF IInv, Works
    <2>2. \A m \in Morsels : ~FoldsTo(t, q, m)
      <3>1. Top(t).first \in Int /\ Top(t).last \in Int
        BY <1>1, Tops, FrameKinds, Params DEF IInv, Works
      <3>. QED BY <1>1, <3>1, Params DEF FoldsTo, Covers, IInv
    <2>3. failed' \in [Queries -> {"none"} \cup Errors]
      BY <1>4 DEF IInv, TypeOK
    <2>. QED BY <1>1, <1>4, <2>1, <2>2, <2>3, ReturnKeeps
  <1>. QED BY <1>2, <1>3, <1>4

\* A morsel more is counted only for a query that was to stop.
LEMMA CountTyped ==
  ASSUME TypeOK, NEW t \in Threads, Top(t).q \in Queries, CountBeyond(t)
  PROVE  /\ beyond' \in [Queries -> [Threads -> 0..MaxBeyond]]
         /\ \A q \in Queries, u \in Threads :
              beyond'[q][u] = IF q = Top(t).q /\ u = t /\ Error(q) # "none" /\ beyond[q][u] < MaxBeyond
                              THEN beyond[q][u] + 1 ELSE beyond[q][u]
  <1>1. PICK r \in Queries : r = Top(t).q
    OBVIOUS
  <1>2. beyond \in [Queries -> [Threads -> 0..MaxBeyond]] /\ MaxBeyond \in Nat
    BY FoldPoolAssumption DEF TypeOK
  <1>3. PICK b : b = IF Error(r) # "none" /\ beyond[r][t] < MaxBeyond
                     THEN beyond[r][t] + 1 ELSE beyond[r][t]
    OBVIOUS
  <1>4. b \in 0..MaxBeyond
    BY <1>2, <1>3
  <1>5. beyond' = [beyond EXCEPT ![r][t] = b]
    BY <1>1, <1>2, <1>3 DEF CountBeyond
  <1>6. beyond' \in [Queries -> [Threads -> 0..MaxBeyond]]
    BY <1>2, <1>4, <1>5
  <1>7. ASSUME NEW q \in Queries, NEW u \in Threads
        PROVE  beyond'[q][u] = IF q = r /\ u = t THEN b ELSE beyond[q][u]
    BY <1>2, <1>5
  <1>. QED BY <1>1, <1>3, <1>6, <1>7

LEMMA CheckMorselKeeps ==
  ASSUME IInv, NEW t \in Threads, CheckMorsel(t)
  PROVE  IInv'
  <1>1. /\ Works(t)
        /\ UNCHANGED <<lens, cut, injected, pending, state, degree, cancelled, late, folded, beyond>>
    BY DEF CheckMorsel, RunsTask, Works
  <1>2. CASE Error(Top(t).q) # "none"
    <2>1. Error(Top(t).q) \in Errors
      BY <1>2 DEF Error, Errors
    <2>2. Fail(t, Error(Top(t).q)) /\ UNCHANGED reading
      BY <1>2 DEF CheckMorsel
    <2>. QED BY <1>1, <2>1, <2>2, FailKeeps
  <1>3. CASE Error(Top(t).q) = "none"
    <2>1. reading' = [reading EXCEPT ![t] = TRUE] /\ UNCHANGED <<stack, failed>>
      BY <1>3 DEF CheckMorsel
    <2>2. /\ reading' \in [Threads -> BOOLEAN] /\ cancelled' \in [Queries -> BOOLEAN]
          /\ late' \in [Queries -> BOOLEAN]
      BY <1>1, <2>1 DEF IInv, TypeOK
    <2>. QED BY <1>1, <2>1, <2>2, OutsideKeeps
  <1>. QED BY <1>2, <1>3

LEMMA FoldMorselKeeps ==
  ASSUME IInv, NEW t \in Threads, FoldMorsel(t)
  PROVE  IInv'
  <1>1. /\ Works(t) /\ Busy(t) /\ Top(t).kind = "batch" /\ Top(t).first <= Top(t).last
        /\ UNCHANGED <<lens, cut, injected, pending, state, degree, failed, cancelled, late>>
    BY DEF FoldMorsel, RunsTask, Works
  <1>2. PICK q \in Queries : q = Top(t).q
    BY <1>1, Tops, FrameKinds DEF IInv, Works
  <1>3. IInv'
    <2>1. PICK y \in Frame : y = Top(t)
      BY <1>1, Tops DEF IInv
    <2>2. lens \in Seq(Nat) /\ Len(lens) \in Nat /\ Morsels = 1..Len(lens)
      BY Params DEF IInv
    <2>3. /\ y.kind = "batch" /\ y.q = q /\ y.first <= y.last
          /\ y.first \in 1..(Len(lens) + 1) /\ y.last \in 1..Len(lens)
          /\ y = [kind |-> "batch", q |-> q, first |-> y.first, last |-> y.last]
      BY <1>1, <1>2, <2>1, <2>2, FrameKinds
    <2> DEFINE a == y.first
               b == y.last
               x == [y EXCEPT !.first = @ + 1]
    <2>4. a \in 1..Len(lens) /\ a \in Morsels /\ b \in 1..Len(lens) /\ a <= b /\ a + 1 \in 1..(Len(lens) + 1)
      BY <2>2, <2>3
    <2>5. /\ folded' = [folded EXCEPT ![q][a] = @ + 1] /\ Replace(t, x)
          /\ UNCHANGED failed
      BY <1>2, <2>1 DEF FoldMorsel
    <2>6. x = [kind |-> "batch", q |-> q, first |-> a + 1, last |-> b]
      BY <2>3
    <2>7. x \in Frame /\ x.kind = "batch" /\ x.q = q /\ x.first = a + 1 /\ x.last = b
      BY <2>2, <2>4, <2>6 DEF Frame
    <2> HIDE DEF x
    <2>8. /\ StackInv' /\ SameElsewhere(t) /\ Busy(t)' /\ Top(t)' = x
          /\ \A r, phase : RootIn(r, phase)' <=> RootIn(r, phase)
      BY <1>1, <2>1, <2>3, <2>5, <2>7, ReplaceKeeps DEF IInv
    <2>9. Works(t)'
      BY <2>7, <2>8 DEF Works
    <2>10. \A u \in Threads : u # t =>
             /\ \A z : Does(u, z)' <=> Does(u, z)
             /\ \A r, m : FoldsTo(u, r, m)' <=> FoldsTo(u, r, m)
      BY <2>8, Elsewhere
    <2>11. \A r, m : FoldsTo(t, r, m) <=> r = q /\ a <= m /\ m <= b
      BY <1>1, <2>1, <2>3 DEF FoldsTo, Covers
    <2>12. \A r, m : FoldsTo(t, r, m)' <=> r = q /\ a + 1 <= m /\ m <= b
      BY <2>7, <2>8, <2>9 DEF FoldsTo, Covers
    <2> HIDE DEF a, b
    <2>13. RootIn(q, "fold") /\ state[q] = "in"
      <3>1. Does(t, y)
        BY <1>1, <2>1 DEF Does
      <3>2. RootIn(q, "fold")
        BY <3>1, <2>3 DEF IInv, TaskInv, Rooted
      <3>. QED BY <3>2 DEF IInv, QueueInv, Phases
    <2>14. folded[q][a] = 0
      BY <1>1, <2>4, <2>11 DEF IInv, FoldInv
    <2>15. /\ folded' \in [Queries -> [Morsels -> 0..1]] /\ folded'[q][a] = 1
           /\ \A r \in Queries, m \in Morsels : ~(r = q /\ m = a) => folded'[r][m] = folded[r][m]
      <3>1. folded \in [Queries -> [Morsels -> 0..1]]
        BY DEF IInv, TypeOK
      <3>. QED BY <3>1, <2>4, <2>5, <2>14
    <2>16. reading' \in [Threads -> BOOLEAN] /\ beyond' \in [Queries -> [Threads -> 0..MaxBeyond]]
      BY <1>2, CountTyped DEF FoldMorsel, IInv, TypeOK
    <2>17. TypeOK' /\ Frame' = Frame /\ Morsels' = Morsels
      BY <1>1, <2>5, <2>8, <2>15, <2>16, TypeKept DEF IInv, TypeOK, QueueInv
    <2>18. QueueInv'
      BY <1>1, <2>8 DEF IInv, QueueInv
    <2>19. TaskInv'
      <3>1. \A z : Rooted(z) => Rooted(z)'
        BY <2>8 DEF Rooted
      <3>2. Rooted(x)'
        BY <2>7, <2>8, <2>13 DEF Rooted
      <3>3. \A u \in Threads : \A z : Does(u, z)' => Does(u, z) \/ z = x
        BY <2>8, <2>10 DEF Does
      <3>. QED BY <1>1, <2>17, <3>1, <3>2, <3>3 DEF IInv, TaskInv
    <2>20. FoldInv'
      <3> SUFFICES ASSUME NEW r \in Queries, NEW m \in Morsels
                   PROVE
                   /\ \A z \in pending : Covers(z, r, m) =>
                        /\ folded'[r][m] = 0
                        /\ \A w \in pending : Covers(w, r, m) => w = z
                        /\ \A u \in Threads : ~FoldsTo(u, r, m)'
                   /\ \A u \in Threads : FoldsTo(u, r, m)' =>
                        folded'[r][m] = 0 /\ \A w \in Threads : FoldsTo(w, r, m)' => w = u
                   /\ (RootIn(r, "fold") /\ failed[r] = "none") =>
                        \/ folded'[r][m] = 1
                        \/ \E z \in pending : Covers(z, r, m)
                        \/ \E u \in Threads : FoldsTo(u, r, m)'
                   /\ (state[r] \in {"out", "in"} /\ ~RootIn(r, "fold")) => folded'[r][m] = 0
                   /\ state[r] = "rows" => folded'[r][m] = 1
        BY <1>1, <2>5, <2>8, <2>17 DEF FoldInv, Covers
      <3>1. /\ \A z \in pending : Covers(z, r, m) =>
                 /\ folded[r][m] = 0
                 /\ \A w \in pending : Covers(w, r, m) => w = z
                 /\ \A u \in Threads : ~FoldsTo(u, r, m)
            /\ \A u \in Threads : FoldsTo(u, r, m) =>
                 folded[r][m] = 0 /\ \A w \in Threads : FoldsTo(w, r, m) => w = u
            /\ (RootIn(r, "fold") /\ failed[r] = "none") =>
                 \/ folded[r][m] = 1
                 \/ \E z \in pending : Covers(z, r, m)
                 \/ \E u \in Threads : FoldsTo(u, r, m)
            /\ (state[r] \in {"out", "in"} /\ ~RootIn(r, "fold")) => folded[r][m] = 0
            /\ state[r] = "rows" => folded[r][m] = 1
        BY DEF IInv, FoldInv
      <3>2. CASE r = q /\ m = a
        <4>1. FoldsTo(t, r, m)
          BY <3>2, <2>4, <2>11
        <4>2. ~FoldsTo(t, r, m)'
          BY <3>2, <2>4, <2>12
        <4>3. \A u \in Threads : ~FoldsTo(u, r, m)'
          BY <3>1, <4>1, <4>2, <2>10
        <4>4. \A z \in pending : ~Covers(z, r, m)
          BY <3>1, <4>1
        <4>. QED BY <3>2, <4>3, <4>4, <2>13, <2>15
      <3>3. CASE ~(r = q /\ m = a)
        <4>1. folded'[r][m] = folded[r][m]
          BY <3>3, <2>15
        <4>2. FoldsTo(t, r, m)' <=> FoldsTo(t, r, m)
          BY <3>3, <2>2, <2>4, <2>11, <2>12
        <4>3. \A u \in Threads : FoldsTo(u, r, m)' <=> FoldsTo(u, r, m)
          BY <4>2, <2>10
        <4>. QED BY <3>1, <4>1, <4>3
      <3>. QED BY <3>2, <3>3
    <2>21. ShareInv'
      <3>1. \A r : Waiting(r)' = Waiting(r)
        BY <1>1 DEF Waiting
      <3>2. \A r : Folding(r)' = Folding(r)
        <4>1. \A r : t \in Folding(r)' <=> t \in Folding(r)
          BY <1>1, <1>2, <2>7, <2>8, <2>9 DEF Folding
        <4>2. \A u \in Threads : \A r : u # t => (u \in Folding(r)' <=> u \in Folding(r))
          BY <2>8, Elsewhere DEF Folding
        <4>3. \A r : Folding(r)' \subseteq Threads /\ Folding(r) \subseteq Threads
          BY DEF Folding
        <4>. QED BY <4>1, <4>2, <4>3
      <3>. QED BY <1>1, <3>1, <3>2 DEF IInv, ShareInv
    <2>. QED BY <2>8, <2>17, <2>18, <2>19, <2>20, <2>21 DEF IInv
  <1>. QED BY <1>3
-----------------------------------------------------------------------------
LEMMA StepKeeps == IInv /\ [Next]_vars => IInv'
  <1> SUFFICES ASSUME IInv, [Next]_vars PROVE IInv'
    OBVIOUS
  <1>1. CASE UNCHANGED vars
    <2>1. UNCHANGED <<lens, cut, injected, pending, stack, state, degree, failed, folded, beyond>>
      BY <1>1 DEF vars
    <2>2. /\ reading' \in [Threads -> BOOLEAN] /\ cancelled' \in [Queries -> BOOLEAN]
          /\ late' \in [Queries -> BOOLEAN]
      BY <1>1 DEF vars, IInv, TypeOK
    <2>. QED BY <2>1, <2>2, OutsideKeeps
  <1>2. CASE \E t \in Threads : ThreadStep(t)
    BY <1>2, CutKeeps, ForkKeeps, FinishKeeps, TakeTaskKeeps, TakeInjectedKeeps,
       ReadFooterKeeps, CheckMorselKeeps, FoldMorselKeeps, EndBatchKeeps DEF ThreadStep
  <1>3. CASE \E q \in Queries : CallerStep(q)
    BY <1>3, EnterKeeps, ForfeitKeeps DEF CallerStep
  <1>4. ASSUME NEW q \in Cancellable, Cancel(q) PROVE IInv'
    <2>1. /\ reading' \in [Threads -> BOOLEAN] /\ cancelled' \in [Queries -> BOOLEAN]
          /\ late' \in [Queries -> BOOLEAN]
      BY <1>4 DEF Cancel, IInv, TypeOK
    <2>. QED BY <1>4, <2>1, OutsideKeeps DEF Cancel
  <1>5. ASSUME NEW q \in Timed, Expire(q) PROVE IInv'
    <2>1. /\ reading' \in [Threads -> BOOLEAN] /\ cancelled' \in [Queries -> BOOLEAN]
          /\ late' \in [Queries -> BOOLEAN]
      BY <1>5 DEF Expire, IInv, TypeOK
    <2>. QED BY <1>5, <2>1, OutsideKeeps DEF Expire
  <1>. QED BY <1>1, <1>2, <1>3, <1>4, <1>5 DEF Next

\* What IInv says of a query that is done, and of what is out for one that is not.
LEMMA Implied == IInv => PoolInv
  <1> SUFFICES ASSUME IInv PROVE PoolInv
    OBVIOUS
  <1>1. AnswerIsWhole
    BY DEF IInv, FoldInv, AnswerIsWhole
  <1>2. NothingLeftBehind
    <2> SUFFICES ASSUME NEW q \in Queries, state[q] \in Outcomes
                 PROVE  /\ \A p \in pending : p.q # q
                        /\ \A t \in Threads : \A i \in DOMAIN stack[t] : stack[t][i].q # q
                        /\ q \notin ToSet(injected)
      BY DEF NothingLeftBehind
    <2>1. state[q] # "in"
      BY DEF Outcomes, Errors
    <2>2. \A phase \in Phases : ~RootIn(q, phase)
      BY <2>1 DEF IInv, QueueInv
    <2>3. (\A p \in pending : p.q # q) /\ \A t \in Threads : Works(t) => Top(t).q # q
      BY <2>2, NothingForked DEF Phases
    <2>4. ASSUME NEW t \in Threads, NEW i \in DOMAIN stack[t] PROVE stack[t][i].q # q
      <3>1. stack[t][i] \in Frame
        BY DEF IInv, TypeOK
      <3>2. CASE stack[t][i].kind = "root"
        BY <3>1, <3>2, <2>2, FrameKinds DEF RootIn, Phases
      <3>3. CASE stack[t][i].kind # "root"
        <4>1. Busy(t) /\ i = 1 /\ Top(t) = stack[t][1]
          BY <3>3, Tops DEF IInv
        <4>. QED BY <4>1, <3>3, <2>3 DEF Works
      <3>. QED BY <3>2, <3>3
    <2>5. q \notin ToSet(injected)
      BY <2>1 DEF IInv, QueueInv, ToSet
    <2>. QED BY <2>3, <2>4, <2>5
  <1>3. ShareHolds
    <2> SUFFICES ASSUME NEW q \in Queries, degree[q] > 0
                 PROVE  Cardinality({p \in pending : p.kind = "batch" /\ p.q = q})
                          + Cardinality({t \in Threads : \E i \in DOMAIN stack[t] :
                                stack[t][i].kind = "batch" /\ stack[t][i].q = q})
                          <= Oversub * degree[q]
      BY DEF ShareHolds
    <2>1. ASSUME NEW t \in Threads
          PROVE  (\E i \in DOMAIN stack[t] : stack[t][i].kind = "batch" /\ stack[t][i].q = q)
                 <=> Works(t) /\ Top(t).kind = "batch" /\ Top(t).q = q
      BY Tops DEF IInv, Works
    <2>2. {t \in Threads : \E i \in DOMAIN stack[t] :
             stack[t][i].kind = "batch" /\ stack[t][i].q = q} = Folding(q)
      BY <2>1 DEF Folding
    <2>. QED BY <2>2 DEF IInv, ShareInv, Waiting
  <1>. QED BY <1>1, <1>2, <1>3 DEF IInv, PoolInv

(* Whoever ran what for whom (SignedFoldExec::run, fold_morsel, and the    *)
(* pool's threads, which take other queries' jobs while they wait): an     *)
(* answer is every morsel of the table exactly once, nothing of a query is *)
(* left in the pool when it has its outcome, and a query with a share of   *)
(* the pool has no more batches out than twice its share.                  *)
THEOREM PoolKept == Spec => []PoolInv
  <1>1. Spec => []IInv
    BY Start, StepKeeps, PTL DEF Spec
  <1>. QED BY <1>1, Implied, PTL

-----------------------------------------------------------------------------
(* Between the look at the token and the rows of a morsel (CheckMorsel and *)
(* FoldMorsel) a thread has nothing on top of its batch.  One that is in   *)
(* between for a query has folded nothing of it since it was to stop, as   *)
(* the look would have found that; and none gets there any more.           *)
StopInv ==
  /\ \A t \in Threads : reading[t] => RunsTask(t, "batch") /\ Top(t).first <= Top(t).last
  /\ \A q \in Queries, t \in Threads :
       /\ beyond[q][t] <= 1
       /\ Error(q) = "none" => beyond[q][t] = 0
       /\ reading[t] /\ Top(t).q = q => beyond[q][t] = 0

\* A query that was to stop is still to stop.
LEMMA StaysStopped ==
  ASSUME TypeOK, Next, NEW q \in Queries, Error(q) # "none"
  PROVE  Error(q)' # "none"
  <1>1. (cancelled[q] \/ late[q]) /\ cancelled \in [Queries -> BOOLEAN] /\ late \in [Queries -> BOOLEAN]
    BY DEF Error, TypeOK
  <1>2. (cancelled[q] => cancelled'[q]) /\ (late[q] => late'[q])
    BY <1>1 DEF Next, ThreadStep, CallerStep, Cut, ForkBatches, Finish, TakeTask, TakeInjected,
       ReadFooter, CheckMorsel, FoldMorsel, EndBatch, Enter, Forfeit, Cancel, Expire
  <1>. QED BY <1>1, <1>2 DEF Error

\* What a thread does beside folding it does with nothing half read.
LEMMA NothingHalfRead ==
  ASSUME IInv, StopInv, NEW t \in Threads,
         \/ Cut(t) \/ ForkBatches(t) \/ Finish(t) \/ TakeTask(t) \/ TakeInjected(t)
         \/ ReadFooter(t) \/ EndBatch(t) \/ CheckMorsel(t)
  PROVE  ~reading[t]
  <1> SUFFICES ASSUME reading[t] PROVE FALSE
    OBVIOUS
  <1>1. Busy(t) /\ Top(t).kind = "batch" /\ Top(t).first <= Top(t).last
    BY DEF StopInv, RunsTask
  <1>2. Top(t).first \in Int /\ Top(t).last \in Int
    BY <1>1, Tops, FrameKinds, Params DEF IInv
  <1>3. ~EndBatch(t)
    BY <1>1, <1>2 DEF EndBatch
  <1>4. ~CheckMorsel(t)
    BY DEF CheckMorsel
  <1>. QED BY <1>1, <1>3, <1>4 DEF Cut, ForkBatches, Finish, TakeTask, TakeInjected, ReadFooter,
         RunsRoot, RunsTask, Waits

\* A step of t leaves what the other threads run alone.
LEMMA OthersRunOn ==
  ASSUME IInv, NEW t \in Threads, ThreadStep(t), NEW u \in Threads, u # t
  PROVE  stack'[u] = stack[u]
  <1>1. stack \in [Threads -> Seq(Frame)]
    BY DEF IInv, StackInv, StackType
  <1>. QED BY <1>1 DEF ThreadStep, Cut, ForkBatches, Finish, TakeTask, TakeInjected, ReadFooter,
         EndBatch, CheckMorsel, FoldMorsel, Replace, Return, Fail

LEMMA StopKeeps == IInv /\ StopInv /\ [Next]_vars => StopInv'
  <1> SUFFICES ASSUME IInv, StopInv, [Next]_vars PROVE StopInv'
    OBVIOUS
  <1>1. TypeOK
    BY DEF IInv
  <1>2. ASSUME UNCHANGED <<stack, reading, beyond>>,
               \A q \in Queries : Error(q) # "none" => Error(q)' # "none"
        PROVE  StopInv'
    BY <1>2 DEF StopInv, RunsTask, Busy, Top
  <1>3. CASE UNCHANGED vars
    BY <1>2, <1>3 DEF vars, Error
  <1>4. CASE Next
    <2>1. \A q \in Queries : Error(q) # "none" => Error(q)' # "none"
      BY <1>1, <1>4, StaysStopped
    <2>2. CASE \E q \in Queries : CallerStep(q)
      BY <1>2, <2>1, <2>2 DEF CallerStep, Enter, Forfeit
    <2>3. CASE (\E q \in Cancellable : Cancel(q)) \/ (\E q \in Timed : Expire(q))
      BY <1>2, <2>1, <2>3 DEF Cancel, Expire
    <2>4. ASSUME NEW t \in Threads, ThreadStep(t) PROVE StopInv'
      <3>1. \A u \in Threads : u # t => Busy(u)' = Busy(u) /\ Top(u)' = Top(u)
        BY <2>4, OthersRunOn DEF Busy, Top
      <3>2. CASE FoldMorsel(t)
        <4>1. PICK q \in Queries : q = Top(t).q
          BY <3>2, Tops, FrameKinds DEF IInv, FoldMorsel, RunsTask
        <4>2. /\ reading[t] /\ ~reading'[t] /\ UNCHANGED <<cancelled, late>>
              /\ \A u \in Threads : u # t => reading'[u] = reading[u]
              /\ \A r \in Queries, u \in Threads :
                   beyond'[r][u] = IF r = q /\ u = t /\ Error(r) # "none" /\ beyond[r][u] < MaxBeyond
                                   THEN beyond[r][u] + 1 ELSE beyond[r][u]
          BY <1>1, <3>2, <4>1, CountTyped DEF FoldMorsel, TypeOK
        <4>3. \A r \in Queries : Error(r)' = Error(r)
          BY <4>2 DEF Error
        <4>4. beyond[q][t] = 0
          BY <4>1, <4>2 DEF StopInv
        <4>5. ASSUME NEW u \in Threads, reading'[u]
              PROVE  /\ u # t /\ reading[u]
                     /\ RunsTask(u, "batch")' /\ Top(u)'.first <= Top(u)'.last
          BY <3>1, <4>2, <4>5 DEF StopInv, RunsTask
        <4>6. ASSUME NEW r \in Queries, NEW u \in Threads
              PROVE  /\ beyond'[r][u] <= 1
                     /\ Error(r) = "none" => beyond'[r][u] = 0
                     /\ reading'[u] /\ Top(u)'.q = r => beyond'[r][u] = 0
          <5>1. CASE r = q /\ u = t
            BY <5>1, <4>2, <4>4
          <5>2. CASE ~(r = q /\ u = t)
            BY <5>2, <3>1, <4>2, <4>5 DEF StopInv
          <5>. QED BY <5>1, <5>2
        <4>. QED BY <4>3, <4>5, <4>6 DEF StopInv
      <3>3. CASE CheckMorsel(t) /\ Error(Top(t).q) = "none"
        <4>1. /\ RunsTask(t, "batch") /\ Top(t).first <= Top(t).last
              /\ reading' = [reading EXCEPT ![t] = TRUE] /\ UNCHANGED <<stack, beyond, cancelled, late>>
          BY <3>3 DEF CheckMorsel
        <4>2. \A u \in Threads : RunsTask(u, "batch")' = RunsTask(u, "batch") /\ Top(u)' = Top(u)
          BY <4>1 DEF RunsTask, Busy, Top
        <4>3. \A r \in Queries : Error(r)' = Error(r)
          BY <4>1 DEF Error
        <4>4. \A u \in Threads : u # t => reading'[u] = reading[u]
          BY <1>1, <4>1 DEF TypeOK
        <4>5. \A r \in Queries : Top(t).q = r => beyond[r][t] = 0
          BY <3>3 DEF StopInv
        <4>. QED BY <4>1, <4>2, <4>3, <4>4, <4>5 DEF StopInv
      <3>4. CASE ~FoldMorsel(t) /\ ~(CheckMorsel(t) /\ Error(Top(t).q) = "none")
        <4>1. ~reading[t] /\ UNCHANGED <<reading, beyond>>
          <5>1. ~reading[t]
            BY <2>4, <3>4, NothingHalfRead DEF ThreadStep
          <5>2. UNCHANGED <<reading, beyond>>
            BY <2>4, <3>4 DEF ThreadStep, Cut, ForkBatches, Finish, TakeTask, TakeInjected,
               ReadFooter, EndBatch, CheckMorsel
          <5>. QED BY <5>1, <5>2
        <4>. QED BY <2>1, <3>1, <4>1 DEF StopInv, RunsTask
      <3>. QED BY <3>2, <3>3, <3>4
    <2>. QED BY <1>4, <2>2, <2>3, <2>4 DEF Next
  <1>. QED BY <1>3, <1>4

(* SignedFoldExec::fold_morsel looks at the token and the clock before the *)
(* rows of each morsel, and at nothing while it reads them; batches of a   *)
(* query are meanwhile queued, stolen and run under other queries' roots.  *)
(* However many threads run it, and whenever it is told to stop, none of   *)
(* them folds more than one further morsel of it.                          *)
THEOREM StopsWithinAMorselEach == Spec => []OneMoreMorselEach
  <1>1. Init => StopInv
    BY DEF Init, StopInv
  <1>2. Spec => []IInv
    BY Start, StepKeeps, PTL DEF Spec
  <1>3. StopInv => OneMoreMorselEach
    BY DEF StopInv, OneMoreMorselEach
  <1>. QED BY <1>1, <1>2, <1>3, StopKeeps, PTL DEF Spec
====
