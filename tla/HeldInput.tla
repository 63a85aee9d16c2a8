------------------------------- MODULE HeldInput -------------------------------
(***************************************************************************)
(* Operators that hold their input (src/df/heldinput.rs): a window over    *)
(* its whole input, charged to the pool its statement shares with others;  *)
(* the output of a cross join coalesced into batches of the session's      *)
(* size; and the input of a sort, or the build side of a hash join,        *)
(* gathered into large batches.  Each is a stream its reader polls, and    *)
(* drops when it has seen enough.                                          *)
(***************************************************************************)
EXTENDS Integers, Sequences, FiniteSets, FiniteSetsExt, Functions

CONSTANTS
  Holders,      \* the streams running at once
  Inputs,       \* inputs a stream may have: batches, then an end or an error
  Budget,       \* bytes of the pool
  BatchSize,    \* rows of a batch of the session
  GatherRows, GatherBytes

\* The views of its rows keep `used` of the `whole` bytes of its buffers.
Batch == {b \in [rows : Nat, used : Nat, whole : Nat] : b.used <= b.whole}

ASSUME HeldInputAssumption ==
  /\ IsFiniteSet(Holders) /\ Budget \in Nat /\ BatchSize \in Nat \ {0}
  /\ GatherRows \in Nat \ {0} /\ GatherBytes \in Nat \ {0}
  /\ Inputs \subseteq [batches : Seq(Batch), fails : BOOLEAN]

VARIABLE held

Kinds == {"window", "coalesce", "gather", "compact"}

\* What sits in the plan, and what HeldInput puts over or under it.
RuleFor(node) ==
  CASE node = "WindowAggExec" -> [kind |-> "window", over |-> "itself"]
    [] node = "HashJoinExec" -> [kind |-> "compact", over |-> "build side"]
    [] node = "CrossJoinExec" -> [kind |-> "coalesce", over |-> "itself"]
    [] node = "SortExec without fetch" -> [kind |-> "gather", over |-> "input"]

\* What the batches of a sequence have together.
RowsOf(S) == SumFunction([k \in DOMAIN S |-> S[k].rows])
UsedOf(S) == SumFunction([k \in DOMAIN S |-> S[k].used])
WholeOf(S) == SumFunction([k \in DOMAIN S |-> S[k].whole])
HeldBytes(kind, S) == IF kind = "compact" THEN UsedOf(S) ELSE WholeOf(S)

Open(kind, input) ==
  [kind |-> kind, input |-> input, taken |-> 0, pending |-> <<>>, charged |-> 0,
   ready |-> <<>>, out |-> <<>>, state |-> "open", dropped |-> FALSE]

HeldInit ==
  \E n \in [Holders -> {RuleFor(x).kind : x \in {"WindowAggExec", "HashJoinExec",
                                                  "CrossJoinExec", "SortExec without fetch"}}],
     i \in [Holders -> Inputs] : held = [h \in Holders |-> Open(n[h], i[h])]

Reserved == SumFunctionOnSet([h \in Holders |-> held[h].charged], Holders)

More(s) == s.taken < Len(s.input.batches)
NextBatch(s) == s.input.batches[s.taken + 1]
Live(h) == ~held[h].dropped /\ held[h].state = "open"
Idle(s) == s.ready = <<>>

-----------------------------------------------------------------------------

\* A window keeps every batch, charged once as it is kept and once as it is
\* concatenated.  The pool refuses what does not fit.
Charge(b) == 2 * b.whole

WindowTakes(h) ==
  LET s == held[h]  b == NextBatch(s) IN
  /\ Live(h) /\ s.kind = "window" /\ Idle(s) /\ More(s)
  /\ held' = [held EXCEPT ![h] =
       IF Reserved + Charge(b) > Budget THEN [s EXCEPT !.state = "error"]
       ELSE [s EXCEPT !.taken = @ + 1, !.pending = Append(@, b), !.charged = @ + Charge(b)]]

\* Its one batch, sliced into batches of the session's size.
Slices(n) ==
  [k \in 1..((n + BatchSize - 1) \div BatchSize) |-> Min({BatchSize, n - (k - 1) * BatchSize})]

WindowComputes(h) ==
  LET s == held[h] IN
  /\ Live(h) /\ s.kind = "window" /\ Idle(s) /\ ~More(s)
  /\ held' = [held EXCEPT ![h] =
       IF s.input.fails THEN [s EXCEPT !.state = "error"]
       ELSE IF s.pending = <<>> THEN [s EXCEPT !.state = "done"]
       ELSE [s EXCEPT !.pending = <<>>,
               !.ready = [k \in DOMAIN Slices(RowsOf(s.pending)) |->
                            [rows |-> Slices(RowsOf(s.pending))[k], used |-> 0]]]]

-----------------------------------------------------------------------------
\* A coalescer completes a batch whenever it has BatchSize rows, and its last
\* at the end of the input.
Full(n) == [k \in 1..(n \div BatchSize) |-> [rows |-> BatchSize, used |-> 0]]
Rest(n) == IF n % BatchSize = 0 THEN <<>> ELSE <<[rows |-> n % BatchSize, used |-> 0]>>

CoalesceTakes(h) ==
  LET s == held[h]  n == RowsOf(s.pending) + NextBatch(s).rows IN
  /\ Live(h) /\ s.kind = "coalesce" /\ Idle(s) /\ More(s)
  /\ held' = [held EXCEPT ![h] =
       [s EXCEPT !.taken = @ + 1, !.ready = Full(n), !.pending = Rest(n)]]

CoalesceEnds(h) ==
  LET s == held[h] IN
  /\ Live(h) /\ s.kind = "coalesce" /\ Idle(s) /\ ~More(s)
  /\ held' = [held EXCEPT ![h] =
       IF s.input.fails THEN [s EXCEPT !.state = "error"]
       ELSE IF s.pending = <<>> THEN [s EXCEPT !.state = "done"]
       ELSE [s EXCEPT !.pending = <<>>, !.ready = s.pending]]

-----------------------------------------------------------------------------
\* A gathered batch: what is held, once it reaches the rows or the bytes; with
\* its views copied into one buffer, it keeps what its rows use.
Gathered(s) ==
  IF s.pending = <<>> THEN <<>>
  ELSE <<[rows |-> RowsOf(s.pending), used |-> HeldBytes(s.kind, s.pending)]>>

Bound(s) ==
  RowsOf(s.pending) >= GatherRows \/ HeldBytes(s.kind, s.pending) >= GatherBytes

GatherTakes(h) ==
  LET s == held[h]  t == [s EXCEPT !.taken = @ + 1, !.pending = Append(@, NextBatch(s))] IN
  /\ Live(h) /\ s.kind \in {"gather", "compact"} /\ Idle(s) /\ More(s)
  /\ held' = [held EXCEPT ![h] =
       IF Bound(t) THEN [t EXCEPT !.pending = <<>>, !.ready = Gathered(t)] ELSE t]

\* The end of the input hands on the rest; an error drops it.
GatherEnds(h) ==
  LET s == held[h] IN
  /\ Live(h) /\ s.kind \in {"gather", "compact"} /\ Idle(s) /\ ~More(s)
  /\ held' = [held EXCEPT ![h] =
       IF s.input.fails THEN [s EXCEPT !.state = "error"]
       ELSE [s EXCEPT !.pending = <<>>, !.out = @ \o Gathered(s), !.state = "done"]]

-----------------------------------------------------------------------------
\* The reader takes a batch, or goes away with what the stream holds.  The
\* charge lives as long as the output, not as the window's input.
Emit(h) ==
  LET s == held[h] IN
  /\ Live(h) /\ ~Idle(s)
  /\ held' = [held EXCEPT ![h].ready = Tail(@), ![h].out = Append(@, Head(s.ready))]

DropKeepingCharge(h) == ~held[h].dropped /\ held' = [held EXCEPT ![h].dropped = TRUE]

Drop(h) ==
  /\ ~held[h].dropped
  /\ held' = [held EXCEPT ![h].dropped = TRUE, ![h].charged = 0,
                          ![h].pending = <<>>, ![h].ready = <<>>]

HeldPolls(h) ==
  \/ WindowTakes(h) \/ WindowComputes(h) \/ CoalesceTakes(h) \/ CoalesceEnds(h)
  \/ GatherTakes(h) \/ GatherEnds(h) \/ Emit(h)

HeldNext == \E h \in Holders : HeldPolls(h) \/ Drop(h)

HeldSpec == HeldInit /\ [][HeldNext]_held

-----------------------------------------------------------------------------
(* The streams of all statements together never hold more than the pool    *)
(* has, and a stream that nobody reads any more holds none of it.          *)
ChargesFit == Reserved <= Budget /\ \A h \in Holders : held[h].dropped => held[h].charged = 0

(* While a window still has rows to hand on, everything it keeps is        *)
(* charged, twice: the window lets go of its input before it has answered. *)
HeldIsCharged ==
  \A h \in Holders : LET s == held[h] IN
    s.kind = "window" /\ ~s.dropped =>
      s.charged = 2 * WholeOf(SubSeq(s.input.batches, 1, s.taken))

(* However it cuts its batches, a stream hands on the rows of its input:   *)
(* all of them when it ends, and never more than it took.                  *)
NoRowLost ==
  \A h \in Holders : LET s == held[h]  total == RowsOf(s.input.batches) IN
    /\ RowsOf(s.out) <= RowsOf(SubSeq(s.input.batches, 1, s.taken))
    /\ s.state = "done" => RowsOf(s.out) = total /\ ~s.input.fails

(* What sits above works a batch at a time: no slice or coalesced batch is *)
(* larger than the session's, only the last of them is smaller, and a      *)
(* gathered one but the last reaches its bound, so that a sort merges few  *)
(* runs.                                                                   *)
BatchesAreCut ==
  \A h \in Holders : LET s == held[h]  n == Len(s.out) IN
    \A k \in 1..n :
      IF s.kind \in {"window", "coalesce"}
      THEN s.out[k].rows <= BatchSize /\ (k < n => s.out[k].rows = BatchSize)
      ELSE k < n => s.out[k].rows >= GatherRows \/ s.out[k].used >= GatherBytes

(* What the streams hold is charged, handed on whole, and cut to size      *)
(* (src/df/heldinput.rs).                                                  *)
HeldInv == ChargesFit /\ HeldIsCharged /\ NoRowLost /\ BatchesAreCut
=============================================================================
