----------------------------- MODULE MCSharedAgg -----------------------------
(* SharedAgg on a four-bit word, with two workers. *)
EXTENDS SharedAgg, TLC

CONSTANTS w1, w2, k1, k2, k3, k4

MCWorkers == {w1, w2}
MCKeys == {k1, k2, k3, k4}
MCPartOf == (k1 :> 0) @@ (k2 :> 1) @@ (k3 :> 0) @@ (k4 :> 1)

SeqsOf(S, n) == [1..n -> S]
Rows(k, a, vals) == {[key |-> k, agg |-> a, val |-> v] : v \in vals}
Given(one, two) == {(w1 :> a) @@ (w2 :> b) : a \in one, b \in two}

\* One SUM: the ends of the word and a unit, so that sums leave the word, come
\* back, and meet at zero.
MCOneSum ==
  Given(SeqsOf(Rows(k1, 0, {-8, 1, 7}), 2),
        SeqsOf(Rows(k1, 0, {-8, 1, 7}), 2) \cup SeqsOf(Rows(k2, 0, {1}), 1))

\* Two SUMs over one key and a bystander, and a row of a key too long.  Either
\* SUM can leave the word in one order and not in another.
MCTwoSums ==
  Given(SeqsOf(Rows(k1, 0, {7}) \cup Rows(k1, 1, {1, 7}), 2),
        SeqsOf(Rows(k1, 0, {-8}) \cup Rows(k1, 1, {-1}) \cup Rows(k2, 1, {1}), 2)
          \cup SeqsOf(Rows(k4, 0, {1}), 1))

\* Three keys, for a memory budget of two entries.
MCManyKeys ==
  Given(SeqsOf(Rows(k1, 0, {1}) \cup Rows(k2, 0, {1}), 3),
        {<<>>} \cup SeqsOf(Rows(k2, 0, {1}) \cup Rows(k3, 0, {1}), 2))

MCInputs == MCOneSum \cup MCTwoSums \cup MCManyKeys
=============================================================================
