------------------------------- MODULE FloatSum -------------------------------
(***************************************************************************)
(* sum over DOUBLE, exact until the answer is rounded (src/df/floatsum.rs).*)
(* A group holds its first two values as they came; from the third on it   *)
(* keeps an exact total in buckets of Orders binary orders each: two       *)
(* buckets inline, all of them once those do not do.  Partial aggregates   *)
(* of several groups are fed, taken from, encoded, merged, and, for a      *)
(* window frame, fed and taken back from, in any order.                    *)
(***************************************************************************)
EXTENDS Integers, Sequences, FiniteSets, Functions

CONSTANTS
  Frac,        \* bits of a fraction, 52 in a DOUBLE
  ExpMax,      \* the exponent of NaN and the infinities, 2047 in a DOUBLE
  Orders,      \* binary orders of a bucket, 32 in the code
  Limit,       \* a bucket beyond it refuses, 2^125
  CheckEvery,  \* values between the range checks of the grouped path, 2^20
  Values,      \* the values rows hold
  Parts,       \* partial aggregates
  MaxGroups,   \* bounds the groups of one
  MaxRows      \* bounds the rows fed

ASSUME DoublesAssumption == Frac \in Nat \ {0} /\ ExpMax \in Nat /\ ExpMax > 2

\* Powers of two.
Two[n \in Nat] == IF n = 0 THEN 1 ELSE 2 * Two[n - 1]

\* Binary floating-point numbers: a sign, an exponent of which the greatest marks NaN
\* and the infinities, and Frac bits of fraction.  A finite one is an integer number of
\* units of half the least subnormal.
Double == [neg : BOOLEAN, exp : 0..ExpMax, frac : 0..(Two[Frac] - 1)]

IsFinite(x) == x.exp < ExpMax
IsNaN(x) == ~IsFinite(x) /\ x.frac # 0

ExponentOf(x) == IF x.exp = 0 THEN 1 ELSE x.exp
Significand(x) == IF x.exp = 0 THEN x.frac ELSE x.frac + Two[Frac]
SignedBy(neg, n) == IF neg THEN -n ELSE n

\* A finite number in units.
UnitsOf(x) == SignedBy(x.neg, Significand(x) * Two[ExponentOf(x)])

Zero == [neg |-> FALSE, exp |-> 0, frac |-> 0]
NaN == [neg |-> FALSE, exp |-> ExpMax, frac |-> 2^(Frac - 1)]
Infinity(neg) == [neg |-> neg, exp |-> ExpMax, frac |-> 0]

\* The number of units `q * 2^k`, q of at most Frac + 1 bits and a carry: what
\* a product with a power of two gives, an infinity past the largest number.
ScaledTo(neg, q, k) ==
  LET over == q = 2^(Frac + 1)
      m == IF over THEN 2^Frac ELSE q
      e == IF over THEN k + 1 ELSE k
  IN IF q = 0 THEN Zero
     ELSE IF m < 2^Frac THEN [neg |-> neg, exp |-> 0, frac |-> m]
     ELSE IF e >= ExpMax THEN Infinity(neg)
     ELSE [neg |-> neg, exp |-> e, frac |-> m - 2^Frac]

-----------------------------------------------------------------------------
\* Rounding, to the nearest multiple of the step at that size, of two the even
\* one; an infinity from half a step past the largest.
Magnitude(n) == IF n < 0 THEN -n ELSE n

StepOf(a) == CHOOSE e \in 1..30 : a < 2^(Frac + 1 + e) /\ (e = 1 \/ a >= 2^(Frac + e))

HalfToEven(a, e) ==
  LET q == a \div 2^e  rest == 2 * (a % 2^e)
  IN IF rest > 2^e \/ (rest = 2^e /\ q % 2 = 1) THEN q + 1 ELSE q

Rounded(n) == LET a == Magnitude(n) IN ScaledTo(n < 0, HalfToEven(a, StepOf(a)), StepOf(a))

\* The same by definition: the nearest number there is.
FiniteMagnitudes ==
  {[neg |-> FALSE, exp |-> e, frac |-> f] : e \in 0..(ExpMax - 1), f \in 0..(2^Frac - 1)}

Largest == [neg |-> FALSE, exp |-> ExpMax - 1, frac |-> 2^Frac - 1]

Nearest(n) ==
  LET a == Magnitude(n)
      off(d) == Magnitude(a - UnitsOf(d))
      near == CHOOSE d \in FiniteMagnitudes : \A o \in FiniteMagnitudes \ {d} :
                off(d) < off(o) \/ (off(d) = off(o) /\ d.frac % 2 = 0)
  IN IF a >= UnitsOf(Largest) + 2^(ExpMax - 2) THEN Infinity(n < 0)
     ELSE IF near = Zero THEN Zero ELSE [near EXCEPT !.neg = n < 0]

-----------------------------------------------------------------------------
Buckets == ((ExpMax - 1) \div Orders) + 1
BucketIds == 0..(Buckets - 1)
Base == Two[Orders]

ASSUME FloatSumAssumption ==
  /\ Orders \in Nat \ {0} /\ CheckEvery \in Nat \ {0}
  \* Two values are never out of range.
  /\ Limit \in Nat /\ Limit >= 2 * (Two[Frac + 1] - 1) * Two[Orders - 1]
  /\ Values \subseteq Double /\ MaxGroups \in Nat \ {0} /\ MaxRows \in Nat

None == Buckets  \* no bucket

VARIABLES
  mode,   \* the aggregate of groups, or of a window frame
  acc,    \* per partial aggregate: its slots and what they point into
  fed,    \* per partial aggregate and group: the values it stands for, as totals
  frame,  \* the values in each window's frame, oldest first
  taken,  \* rows fed so far
  error   \* an update was refused

floats == <<mode, acc, fed, frame, taken, error>>

-----------------------------------------------------------------------------
\* One group's exact sum.  `special` counts NaN, +infinity and -infinity.
NoSpecial == [nan |-> 0, pos |-> 0, inf |-> 0]
Nothing == [sums |-> <<0, 0>>, ids |-> <<None, None>>, n |-> 0, rare |-> FALSE,
            dense |-> [b \in BucketIds |-> 0], special |-> NoSpecial]

BucketOf(x) == (ExponentOf(x) \div Orders) % Buckets
InBucket(x) == SignedBy(x.neg, Significand(x) * Two[ExponentOf(x) % Orders])
SpecialOf(x) == IF x.frac # 0 THEN "nan" ELSE IF ~x.neg THEN "pos" ELSE "inf"

\* A refusal is reported beside the sum as far as it got.
Sum(e) == [sum |-> e, ok |-> TRUE]
Refused(e) == [sum |-> e, ok |-> FALSE]
Checked(e, v) == IF Magnitude(v) > Limit THEN Refused(e) ELSE Sum(e)

PromotedLosing(e) ==
  IF e.rare THEN e
  ELSE [e EXCEPT !.rare = TRUE, !.sums = <<0, 0>>, !.ids = <<None, None>>,
         !.dense = [b \in BucketIds |-> IF e.ids[1] = b THEN e.sums[1] ELSE 0]]

Promoted(e) ==
  IF e.rare THEN e
  ELSE [e EXCEPT !.rare = TRUE, !.sums = <<0, 0>>, !.ids = <<None, None>>,
         !.dense = [b \in BucketIds |->
            IF e.ids[2] = b THEN e.sums[2] ELSE IF e.ids[1] = b THEN e.sums[1] ELSE 0]]

\* A slot whose total is back at zero is free for another bucket.
IntoSlot(e, j, b, v) ==
  LET s == e.sums[j] + v
  IN Checked([e EXCEPT !.sums[j] = s, !.ids[j] = IF s = 0 THEN None ELSE b], s)

FreeSlots(e) == {j \in 1..2 : e.ids[j] = None \/ e.sums[j] = 0}

BucketSlow(e, b, v) ==
  IF e.rare \/ FreeSlots(e) = {}
  THEN LET r == Promoted(e) IN Checked([r EXCEPT !.dense[b] = @ + v], r.dense[b] + v)
  ELSE IntoSlot(e, IF 1 \in FreeSlots(e) THEN 1 ELSE 2, b, v)

AddUnits(e, b, v) ==
  IF b \in {e.ids[1], e.ids[2]}
  THEN IntoSlot(e, IF e.ids[2] = b THEN 2 ELSE 1, b, v)
  ELSE BucketSlow(e, b, v)

Counted(e, k, c) == [Promoted(e) EXCEPT !.special[k] = @ + c]

Add(e, x) ==
  IF ~IsFinite(x) THEN Sum(Counted(e, SpecialOf(x), 1))
  ELSE IF InBucket(x) = 0 THEN Sum(e)
  ELSE AddUnits(e, BucketOf(x), InBucket(x))

\* What a batch adds to each bucket.
Lanes(xs) ==
  LET upto[i \in 0..Len(xs)] ==
        IF i = 0 THEN [b \in BucketIds |-> 0]
        ELSE IF IsFinite(xs[i]) THEN [upto[i - 1] EXCEPT ![BucketOf(xs[i])] = @ + InBucket(xs[i])]
        ELSE upto[i - 1]
  IN upto[Len(xs)]

\* Totals added in the order of the buckets, until one refuses.
Poured(e, lanes) ==
  LET upto[b \in 0..Buckets] ==
        IF b = 0 THEN Sum(e)
        ELSE IF lanes[b - 1] = 0 \/ ~upto[b - 1].ok THEN upto[b - 1]
        ELSE AddUnits(upto[b - 1].sum, b - 1, lanes[b - 1])
  IN upto[Buckets]

CountedAll(e, xs, sign) ==
  LET upto[i \in 0..Len(xs)] ==
        IF i = 0 THEN e
        ELSE IF IsFinite(xs[i]) THEN upto[i - 1] ELSE Counted(upto[i - 1], SpecialOf(xs[i]), sign)
  IN upto[Len(xs)]

\* A batch into one group, or back out of it: each bucket is summed first.
AddMany(e, xs, sign) ==
  LET r == Poured(e, [b \in BucketIds |-> sign * Lanes(xs)[b]])
  IN IF ~r.ok THEN r ELSE Sum([CountedAll(r.sum, xs, sign) EXCEPT !.n = @ + sign * Len(xs)])

OutOfRange(e) ==
  (\E j \in 1..2 : Magnitude(e.sums[j]) > Limit) \/ \E b \in BucketIds : Magnitude(e.dense[b]) > Limit

-----------------------------------------------------------------------------
\* The rounding.  One bucket, or two adjacent ones, are converted as one
\* integer; anything else is carried over limbs of Orders bits each.
BitLength(n) == CHOOSE k \in 0..60 : n < 2^k /\ (k = 0 \/ n >= 2^(k - 1))

\* What `as f64` does, times a power of two: an integer of at most Frac + 1 bits
\* is exact.
AsFloat(n, scale) ==
  LET a == Magnitude(n)
      keep == IF BitLength(a) > Frac + 1 THEN BitLength(a) - Frac - 1 ELSE 0
      q == IF keep = 0 THEN a ELSE HalfToEven(a, keep)
      k == keep + scale
      Enough(u) == q * 2^u >= 2^Frac \/ k - u = 1
      up == CHOOSE u \in 0..Frac : Enough(u) /\ \A w \in 0..(u - 1) : ~Enough(w)
  IN IF n = 0 THEN Zero
     ELSE IF q >= 2^Frac THEN ScaledTo(n < 0, q, k)
     ELSE ScaledTo(n < 0, q * 2^up, k - up)

\* A machine word holds four limits; what is beyond it is left to the limbs.
InWord(n) == -(4 * Limit) <= n /\ n < 4 * Limit
TwoBuckets(high, low, k) ==
  IF InWord(high * Base) /\ InWord(high * Base + low) THEN <<AsFloat(high * Base + low, k)>> ELSE <<>>

InlineApart(e) ==
  LET lo == IF e.ids[1] < e.ids[2] THEN 1 ELSE 2
      hi == 3 - lo
  IN CASE e.rare -> <<>>
       [] e.ids = <<None, None>> -> <<Zero>>
       [] e.ids[hi] = None /\ e.ids[lo] > 0 -> <<AsFloat(e.sums[lo], Orders * e.ids[lo])>>
       [] e.ids[hi] # None /\ e.ids[lo] > 0 ->
            TwoBuckets(e.sums[hi], e.sums[lo], Orders * e.ids[lo])
       [] OTHER -> <<>>

Inline(e) ==
  LET lo == IF e.ids[1] < e.ids[2] THEN 1 ELSE 2
      hi == 3 - lo
  IN CASE e.rare -> <<>>
       [] e.ids = <<None, None>> -> <<Zero>>
       [] e.ids[hi] = None /\ e.ids[lo] > 0 -> <<AsFloat(e.sums[lo], Orders * e.ids[lo])>>
       [] e.ids[hi] # None /\ e.ids[hi] = e.ids[lo] + 1 /\ e.ids[lo] > 0 ->
            TwoBuckets(e.sums[hi], e.sums[lo], Orders * e.ids[lo])
       [] OTHER -> <<>>

Entries(e) ==
  [b \in BucketIds |->
     IF e.rare THEN e.dense[b]
     ELSE IF e.ids[1] = b THEN e.sums[1] ELSE IF e.ids[2] = b THEN e.sums[2] ELSE 0]

Limbs == Buckets + 4
LimbIds == 0..(Limbs - 1)

CarriedOver(c) ==
  LET into[i \in LimbIds] == IF i = 0 THEN c[0] ELSE c[i] + into[i - 1] \div Base
  IN [i \in LimbIds |-> IF i = Limbs - 1 THEN into[i] ELSE into[i] % Base]

\* The three limbs from the first bit kept hold every bit of the significand.
Window == 3

FromLimbs(e) ==
  LET c == CarriedOver([i \in LimbIds |-> IF i < Buckets THEN Entries(e)[i] ELSE 0])
      negative == c[Limbs - 1] < 0
      limbs == IF negative THEN CarriedOver([i \in LimbIds |-> -c[i]]) ELSE c
      h == CHOOSE i \in LimbIds : limbs[i] # 0 /\ \A j \in LimbIds : j > i => limbs[j] = 0
      top == Orders * h + BitLength(limbs[h]) - 1
      keep == IF top - Frac > 1 THEN top - Frac ELSE 1
      window[j \in 0..Window] ==
        IF j = 0 THEN 0
        ELSE window[j - 1] + (IF keep \div Orders + j - 1 \in LimbIds
                              THEN limbs[keep \div Orders + j - 1] ELSE 0) * 2^(Orders * (j - 1))
      q == window[Window] \div 2^(keep % Orders)
      below == keep - 1
      bit == (limbs[below \div Orders] \div 2^(below % Orders)) % 2
      sticky == \/ \E i \in LimbIds : i < below \div Orders /\ limbs[i] # 0
                \/ limbs[below \div Orders] % 2^(below % Orders) # 0
      up == IF bit = 1 /\ (sticky \/ q % 2 = 1) THEN 1 ELSE 0
  IN IF \A i \in LimbIds : limbs[i] = 0 THEN Zero ELSE ScaledTo(negative, q + up, keep)

Special(s) ==
  CASE s.nan > 0 \/ (s.pos > 0 /\ s.inf > 0) -> <<NaN>>
    [] s.nan = 0 /\ s.pos > 0 /\ s.inf = 0 -> <<Infinity(FALSE)>>
    [] s.nan = 0 /\ s.pos = 0 /\ s.inf > 0 -> <<Infinity(TRUE)>>
    [] OTHER -> <<>>

Value(e) ==
  IF Inline(e) # <<>> THEN Inline(e)[1]
  ELSE IF Special(e.special) # <<>> THEN Special(e.special)[1]
  ELSE FromLimbs(e)

-----------------------------------------------------------------------------
\* A partial aggregate of groups: a slot has no value, its one value, the place
\* of its two in `pairs`, or the place of its exact sum in `exact`.
Exact == 99
Slot(n, v) == [n |-> n, v |-> v]
NoGroups == [slots |-> <<>>, pairs |-> <<>>, exact |-> <<>>, rare |-> 0, unchecked |-> 0]

Held(a, s) == CASE s.n = 1 -> <<s.v>> [] s.n = 2 -> a.pairs[s.v] [] OTHER -> <<>>

Grown(a, groups) ==
  [a EXCEPT !.slots = @ \o [g \in 1..(groups - Len(a.slots)) |-> Slot(0, 0)]]

ExactFrom(xs) ==
  LET upto[i \in 0..Len(xs)] == IF i = 0 THEN Nothing ELSE Add(upto[i - 1], xs[i]).sum
  IN [upto[Len(xs)] EXCEPT !.n = Len(xs)]
RareOne(e) == IF e.rare THEN 1 ELSE 0

\* SumOfGroup g with an exact sum, what it held moved there.
WithExact(a, g) ==
  IF a.slots[g].n = Exact THEN a
  ELSE LET e == ExactFrom(Held(a, a.slots[g]))
       IN [a EXCEPT !.slots[g] = Slot(Exact, Len(a.exact) + 1),
                    !.exact = Append(@, e), !.rare = @ + RareOne(e)]

Hold(a, g, x) ==
  IF a.slots[g].n = 0 THEN [a EXCEPT !.slots[g] = Slot(1, x)]
  ELSE [a EXCEPT !.slots[g] = Slot(2, Len(a.pairs) + 1),
                 !.pairs = Append(@, <<a.slots[g].v, x>>)]

HoldsMore(a, g) == a.slots[g].n \in {0, 1}

\* Put back the exact sum of group g, and count it among the promoted.
Put(a, g, e) ==
  LET v == a.slots[g].v
  IN [a EXCEPT !.exact[v] = e, !.rare = @ + RareOne(e) - RareOne(a.exact[v])]

SumOfGroup(a, g) == a.exact[a.slots[g].v]

\* The result of an update: the aggregate and whether it was refused.
Updated(a, g, r) == [acc |-> Put(a, g, r.sum), ok |-> r.ok]

\* One more value, with every check: a merged state of one value.
AddOne(a, g, x) ==
  IF HoldsMore(a, g) THEN [acc |-> Hold(a, g, x), ok |-> TRUE]
  ELSE LET w == WithExact(a, g)
           r == Add(SumOfGroup(w, g), x)
       IN Updated(w, g, [r EXCEPT !.sum.n = IF r.ok THEN @ + 1 ELSE @])

\* One row of the grouped path: into a bucket the group has, or promoted, or
\* the first slot, without a range check.
RowInto(e, x) ==
  LET b == BucketOf(x)  v == InBucket(x)  j == IF e.ids[2] = b THEN 2 ELSE 1 IN
  CASE ~IsFinite(x) \/ v = 0 -> Add(e, x)
    [] IsFinite(x) /\ v # 0 /\ b \in {e.ids[1], e.ids[2]} -> Sum([e EXCEPT !.sums[j] = @ + v])
    [] IsFinite(x) /\ v # 0 /\ b \notin {e.ids[1], e.ids[2]} /\ e.rare ->
         Sum([e EXCEPT !.dense[b] = @ + v])
    [] IsFinite(x) /\ v # 0 /\ b \notin {e.ids[1], e.ids[2]} /\ ~e.rare /\ e.ids[1] = None ->
         Sum([e EXCEPT !.ids[1] = b, !.sums[1] = v])
    [] OTHER -> BucketSlow(e, b, v)

CheckDue(a) ==
  a.unchecked >= CheckEvery /\ a.unchecked >= Len(a.exact) + Buckets * a.rare

RowChecked(a) ==
  IF ~CheckDue(a) THEN [acc |-> a, ok |-> TRUE]
  ELSE [acc |-> [a EXCEPT !.unchecked = 0], ok |-> \A i \in DOMAIN a.exact : ~OutOfRange(a.exact[i])]

\* A batch of one row.
AddRow(a, g, x) ==
  LET b == [a EXCEPT !.unchecked = @ + 1] IN
  IF HoldsMore(b, g) THEN RowChecked(Hold(b, g, x))
  ELSE LET w == WithExact(b, g)
           r == RowInto([SumOfGroup(w, g) EXCEPT !.n = @ + 1], x)
           u == Updated(w, g, r)
       IN IF u.ok THEN RowChecked(u.acc) ELSE u

-----------------------------------------------------------------------------
\* Encoding: a group of one value is the value, any other its exact sum.
EncodedState(a, s) ==
  CASE s.n = 0 -> [kind |-> "null"]
    [] s.n = 1 -> [kind |-> "single", x |-> s.v]
    [] OTHER -> [kind |-> "exact",
                 e |-> IF s.n = Exact THEN a.exact[s.v] ELSE ExactFrom(a.pairs[s.v])]

\* Merging an encoded sum: its counts, then its buckets in order.
MergeSum(e, o) ==
  LET specials == IF o.special # NoSpecial
                  THEN [Promoted(e) EXCEPT !.special =
                          [k \in DOMAIN NoSpecial |-> e.special[k] + o.special[k]]]
                  ELSE e
  IN Poured([specials EXCEPT !.n = @ + o.n], Entries(o))

MergeState(a, g, s) ==
  CASE s.kind = "null" -> [acc |-> a, ok |-> TRUE]
    [] s.kind = "single" -> AddOne(a, g, s.x)
    [] s.kind = "exact" -> LET w == WithExact(a, g) IN Updated(w, g, MergeSum(SumOfGroup(w, g), s.e))

\* The slots with n values up to the i-th, and the one that is the k-th of them.
UpTo(S, n, i) == {j \in 1..i : S[j].n = n}
Rank(S, n, i) == Cardinality(UpTo(S, n, i))
Nth(S, n, k) == CHOOSE i \in DOMAIN S : S[i].n = n /\ Rank(S, n, i) = k

\* Slots with what they point into, renumbered.
Renumbered(a, S) ==
  [slots |-> [i \in DOMAIN S |-> IF S[i].n \in {2, Exact} THEN Slot(S[i].n, Rank(S, S[i].n, i)) ELSE S[i]],
   pairs |-> [k \in 1..Rank(S, 2, Len(S)) |-> a.pairs[S[Nth(S, 2, k)].v]],
   exact |-> [k \in 1..Rank(S, Exact, Len(S)) |-> a.exact[S[Nth(S, Exact, k)].v]]]

RareIn(E) == Cardinality({i \in DOMAIN E : E[i].rare})

AfterTaking(a, k) ==
  LET r == Renumbered(a, SubSeq(a.slots, k + 1, Len(a.slots)))
  IN [slots |-> r.slots, pairs |-> r.pairs, exact |-> r.exact, rare |-> RareIn(r.exact),
      unchecked |-> a.unchecked]

\* The answer of a slot: a sum of two doubles is rounded once by the addition.
One(n) == Rounded(n)

Plus(x, y) ==
  LET s == [nan |-> IF IsNaN(x) \/ IsNaN(y) THEN 1 ELSE 0,
            pos |-> IF Infinity(FALSE) \in {x, y} THEN 1 ELSE 0,
            inf |-> IF Infinity(TRUE) \in {x, y} THEN 1 ELSE 0]
  IN IF Special(s) # <<>> THEN Special(s)[1] ELSE One(UnitsOf(x) + UnitsOf(y))

GroupAnswer(a, g) ==
  LET s == a.slots[g] IN
  CASE s.n = 0 -> <<>>
    [] s.n = 1 -> <<Plus(s.v, Zero)>>
    [] s.n = 2 -> <<Plus(a.pairs[s.v][1], a.pairs[s.v][2])>>
    [] OTHER -> IF a.exact[s.v].n = 0 THEN <<>> ELSE <<Value(a.exact[s.v])>>

-----------------------------------------------------------------------------
\* What a group stands for: the exact total of its values and how many of each
\* special there were.
NoTotal == [total |-> 0, special |-> NoSpecial, n |-> 0]

Tally(t, x, sign) ==
  [total |-> IF IsFinite(x) THEN t.total + sign * UnitsOf(x) ELSE t.total,
   special |-> IF IsFinite(x) THEN t.special ELSE [t.special EXCEPT ![SpecialOf(x)] = @ + sign],
   n |-> t.n + sign]

TallyAll(t, xs, sign) ==
  LET upto[i \in 0..Len(xs)] == IF i = 0 THEN t ELSE Tally(upto[i - 1], xs[i], sign)
  IN upto[Len(xs)]

Together(t, u) ==
  [total |-> t.total + u.total, n |-> t.n + u.n,
   special |-> [k \in DOMAIN t.special |-> t.special[k] + u.special[k]]]

Lengthened(f, n) == f \o [g \in 1..(n - Len(f)) |-> NoTotal]

Tallied(f, g, x) == [f EXCEPT ![g] = Tally(@, x, 1)]

Windowed == WithExact(Grown(NoGroups, 1), 1)

FloatInit ==
  /\ mode \in {"grouped", "window"}
  /\ acc = [p \in Parts |-> IF mode = "window" THEN Windowed ELSE NoGroups]
  /\ fed = [p \in Parts |-> IF mode = "window" THEN <<NoTotal>> ELSE <<>>]
  /\ frame = [p \in Parts |-> <<>>] /\ taken = 0 /\ error = FALSE

\* A row of a group the aggregate knows, or of the next new one.
Update(p, g, x) ==
  /\ mode = "grouped" /\ ~error /\ taken < MaxRows
  /\ g <= Len(acc[p].slots) + 1
  /\ LET n == IF g > Len(acc[p].slots) THEN g ELSE Len(acc[p].slots)
         u == AddRow(Grown(acc[p], n), g, x)
     IN /\ acc' = [acc EXCEPT ![p] = u.acc] /\ error' = ~u.ok
        /\ fed' = [fed EXCEPT ![p] = Tallied(Lengthened(@, n), g, x)]
  /\ taken' = taken + 1 /\ UNCHANGED <<mode, frame>>

\* The first k groups of `from`, as states, merged one by one until one is refused.
Merged(a, from, k) ==
  LET upto[g \in 0..k] ==
        IF g = 0 THEN [acc |-> a, ok |-> TRUE]
        ELSE IF ~upto[g - 1].ok THEN upto[g - 1]
        ELSE MergeState(upto[g - 1].acc, g, EncodedState(from, from.slots[g]))
  IN upto[k]

\* The first k groups of q are emitted as states and merged into p.
EmitGroups(p, q, k) ==
  /\ mode = "grouped" /\ ~error /\ p # q /\ k \in 1..Len(acc[q].slots)
  /\ LET n == IF k > Len(acc[p].slots) THEN k ELSE Len(acc[p].slots)
         r == Merged(Grown(acc[p], n), acc[q], k)
     IN /\ acc' = [acc EXCEPT ![p] = r.acc, ![q] = AfterTaking(acc[q], k)]
        /\ error' = ~r.ok
        /\ fed' = [fed EXCEPT
             ![p] = [g \in 1..n |-> IF g <= k THEN Together(Lengthened(fed[p], n)[g], fed[q][g])
                                    ELSE Lengthened(fed[p], n)[g]],
             ![q] = SubSeq(@, k + 1, Len(@))]
  /\ UNCHANGED <<mode, frame, taken>>

WholeBatch(p, xs, sign) ==
  LET r == AddMany(SumOfGroup(acc[p], 1), xs, sign)
  IN /\ acc' = [acc EXCEPT ![p] = Put(@, 1, r.sum)] /\ error' = ~r.ok
     /\ fed' = [fed EXCEPT ![p] = <<TallyAll(@[1], xs, sign)>>]

\* The frame of a window grows by a batch, and loses its oldest rows.
Widen(p, xs) ==
  /\ mode = "window" /\ ~error /\ taken + Len(xs) <= MaxRows
  /\ WholeBatch(p, xs, 1)
  /\ frame' = [frame EXCEPT ![p] = @ \o xs] /\ taken' = taken + Len(xs) /\ UNCHANGED mode

Retract(p, k) ==
  /\ mode = "window" /\ ~error /\ k \in 1..Len(frame[p])
  /\ WholeBatch(p, SubSeq(frame[p], 1, k), -1)
  /\ frame' = [frame EXCEPT ![p] = SubSeq(@, k + 1, Len(@))] /\ UNCHANGED <<mode, taken>>

FloatNext ==
  \/ \E p \in Parts, g \in 1..MaxGroups, x \in Values : Update(p, g, x)
  \/ \E p, q \in Parts, k \in 1..MaxGroups : EmitGroups(p, q, k)
  \/ \E p \in Parts, x \in Values : Widen(p, <<x>>)
  \/ \E p \in Parts, x, y \in Values : Widen(p, <<x, y>>)
  \/ \E p \in Parts, k \in 1..MaxRows : Retract(p, k)

FloatSpec == FloatInit /\ [][FloatNext]_floats

-----------------------------------------------------------------------------
MaxUnits == (Two[Frac + 1] - 1) * Two[Orders - 1]

FloatTypeOK ==
  \A p \in Parts :
    /\ acc[p].rare = RareIn(acc[p].exact)
    /\ \A i \in DOMAIN acc[p].exact :
         LET e == acc[p].exact[i] IN
         /\ e.n \in Nat /\ e.ids \in Seq(0..None)
         /\ e.rare => e.ids = <<None, None>>
         /\ e.ids[1] = e.ids[2] => e.ids[1] = None

(* No unit is lost: the buckets of a group, each counted in its order, are *)
(* together the exact sum of the values it stands for, however they were   *)
(* moved between slots, promoted, carried over to another partial          *)
(* aggregate, or taken back.                                               *)
Total(e) == SumFunctionOnSet([b \in BucketIds |-> Entries(e)[b] * Two[Orders * b]], BucketIds)

StandsFor(a, s) ==
  CASE s.n = 0 -> NoTotal
    [] s.n = 1 -> Tally(NoTotal, s.v, 1)
    [] s.n = 2 -> Tally(Tally(NoTotal, a.pairs[s.v][1], 1), a.pairs[s.v][2], 1)
    [] OTHER -> [total |-> Total(a.exact[s.v]), special |-> a.exact[s.v].special, n |-> a.exact[s.v].n]

TotalsKept ==
  ~error => \A p \in Parts :
    /\ Len(acc[p].slots) = Len(fed[p])
    /\ \A g \in DOMAIN fed[p] : StandsFor(acc[p], acc[p].slots[g]) = fed[p][g]

(* The answer of every group, at any moment, is the exact sum of its       *)
(* values rounded once, and NaN or an infinity when IEEE addition would    *)
(* give one: whatever the order of the rows, how they were split, emitted, *)
(* merged, or taken back out of a window frame.                            *)
Expected(t) ==
  IF t.n = 0 THEN <<>>
  ELSE IF Special(t.special) # <<>> THEN <<Special(t.special)[1]>>
  ELSE <<Rounded(t.total)>>

SameDouble(x, y) == x = y \/ (Len(x) = 1 /\ Len(y) = 1 /\ IsNaN(x[1]) /\ IsNaN(y[1]))

RoundedOnce ==
  ~error => \A p \in Parts : \A g \in DOMAIN fed[p] : SameDouble(GroupAnswer(acc[p], g), Expected(fed[p][g]))

(* No bucket leaves the word it is kept in, although the grouped path      *)
(* looks at its ranges only now and then: it is past the limit by no more  *)
(* than the rows since the last look, of which there are never many.       *)
NoWrap ==
  ~error => \A p \in Parts : LET a == acc[p]  far == Limit + a.unchecked * MaxUnits IN
    /\ a.unchecked < CheckEvery + MaxGroups * (Buckets + 1)
    /\ \A i \in DOMAIN a.exact :
         /\ \A j \in 1..2 : Magnitude(a.exact[i].sums[j]) <= far
         /\ \A b \in BucketIds : Magnitude(a.exact[i].dense[b]) <= far

(* Every group has places of its own: after any emission no two slots      *)
(* share a pair or a sum, and no sum is left that nobody points to.        *)
OwnPlaces ==
  \A p \in Parts : LET S == acc[p].slots IN
    /\ \A g \in DOMAIN S : S[g].n = 2 => S[g].v \in DOMAIN acc[p].pairs
    /\ {S[g].v : g \in {h \in DOMAIN S : S[h].n = Exact}} = DOMAIN acc[p].exact
    /\ \A g, h \in DOMAIN S : g # h /\ S[g].n \in {2, Exact} => S[g] # S[h]

(* So a partial aggregate holds what it stands for, in buckets that do not *)
(* wrap and in places of its own (floatsum.rs, Exact and Groups).          *)
FloatsKept == FloatTypeOK /\ TotalsKept /\ NoWrap /\ OwnPlaces
=============================================================================
