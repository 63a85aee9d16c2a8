------------------------------ MODULE SharedAgg ------------------------------
(***************************************************************************)
(* The fold's one aggregation (src/exec/agg.rs).  Every worker buffers its *)
(* rows in a Scatter and now and then flushes them, partition by           *)
(* partition, each under that partition's lock, into the one table that    *)
(* holds a key; when all are done the tables become the answer.            *)
(*                                                                         *)
(* A partition's run of rows is applied under one lock and is one step;    *)
(* the flushes of two workers interleave between partitions.  A batch ends *)
(* wherever the caller cut the morsels, so EndBatch may come at any row.   *)
(***************************************************************************)
EXTENDS Words, Sequences, FiniteSets, Functions

CONSTANTS
  Workers,    \* the fold states rayon splits the batches over
  Keys,       \* group keys
  LongKeys,   \* those past the 65,535 bytes a Pending can describe
  PartOf,     \* partition_of(hash_key(key))
  Parts,      \* how many partitions there are
  SumArity,   \* how many SUM columns the plan has
  DropZero,   \* the plan has HAVING SUM(d) <> 0
  FlushRows,  \* rows a worker buffers before it flushes
  MemPool,    \* mem_pool_bytes, in entries
  Inputs      \* the rows each worker may be given: a set of [Workers -> Seq(Row)]

Row == [key : Keys, agg : 0..(SumArity - 1), val : Word]

ASSUME SharedAggAssumption ==
  /\ IsFiniteSet(Workers) /\ IsFiniteSet(Keys) /\ LongKeys \subseteq Keys
  /\ Inputs \subseteq [Workers -> Seq(Row)]
  /\ Parts \in Nat \ {0} /\ SumArity \in Nat \ {0} /\ FlushRows \in Nat \ {0}
  /\ PartOf \in [Keys -> 0..(Parts - 1)]
  /\ DropZero \in BOOLEAN /\ MemPool \in Nat

VARIABLES
  input,    \* the rows each worker folds; never changes
  read,     \* how many of them it has pushed
  from,     \* how many it had pushed when its batch began
  scatter,  \* its outbound buffer: which of those rows are in it
  pc,       \* "scan", "flush", "check", "done", or the error it returned
  at,       \* the partition its flush has got to
  ends,     \* whether the flush is the one at the end of a batch
  table,    \* the shared tables: which keys have an entry, and what it holds
  bytes,    \* the published sizes, one counter per partition
  answer    \* its outcome: "none" yet, an error, or "rows"; and the rows

vars == <<input, read, from, scatter, pc, at, ends, table, bytes, answer>>

Errors == {"Overflow", "LimitExceeded"}
ExtraAggs == 1..(SumArity - 1)

Init ==
  /\ input \in Inputs
  /\ read = [w \in Workers |-> 0]
  /\ from = [w \in Workers |-> 0]
  /\ scatter = [w \in Workers |-> {}]
  /\ pc = [w \in Workers |-> "scan"]
  /\ at = [w \in Workers |-> 0]
  /\ ends = [w \in Workers |-> FALSE]
  /\ table = [groups |-> {}, ok |-> TRUE,
              acc |-> [k \in Keys |-> Narrowed(0)],
              extra |-> [k \in Keys |-> [a \in ExtraAggs |-> NoWord]]]
  /\ bytes = [p \in 0..(Parts - 1) |-> 0]
  /\ answer = [outcome |-> "none", rows |-> {}]

-----------------------------------------------------------------------------
(* PartTable::add, on one row. *)

\* Aggregate 0 of a key that has an entry: one checked add while it fits, the
\* two-limb accumulator from the first overflow on.
AddInlineRefuses(st, r) ==
  LET s == CheckedAdd(st.acc[r.key].lo, r.val)
  IN  IF s = NoWord THEN [st EXCEPT !.ok = FALSE] ELSE [st EXCEPT !.acc[r.key].lo = s]

AddInline(st, r) ==
  LET a == st.acc[r.key]
      w == IF a.wide THEN a ELSE Widen(a)
  IN  IF ~a.wide /\ CheckedAdd(a.lo, r.val) # NoWord
      THEN [st EXCEPT !.acc[r.key].lo = CheckedAdd(a.lo, r.val)]
      ELSE IF WideAddFits(w.hi, w.lo, r.val)
      THEN [st EXCEPT !.acc[r.key] = WideAdd(w, r.val)]
      ELSE [st EXCEPT !.ok = FALSE]

\* A further aggregate of a key that has an entry: a checked add, no wider.
AddExtra(st, r) ==
  LET slot == st.extra[r.key][r.agg]
      s == CheckedAdd(IF slot = NoWord THEN 0 ELSE slot, r.val)
  IN  IF s = NoWord
      THEN [st EXCEPT !.ok = FALSE]
      ELSE [st EXCEPT !.extra[r.key][r.agg] = s]

\* The first sighting of a key, through whichever aggregate.
Insert(st, r) ==
  [st EXCEPT !.groups = @ \cup {r.key},
             !.acc[r.key] = Narrowed(IF r.agg = 0 THEN r.val ELSE 0),
             !.extra[r.key] = IF r.agg = 0 THEN @ ELSE [@ EXCEPT ![r.agg] = r.val]]

AddRow(st, r) ==
  IF ~st.ok THEN st
  ELSE IF r.key \notin st.groups THEN Insert(st, r)
  ELSE IF r.agg = 0 THEN AddInline(st, r)
  ELSE AddExtra(st, r)

Size(t, p) == Cardinality({k \in t.groups : PartOf[k] = p})

-----------------------------------------------------------------------------
\* Scatter::push_agg: buffer one row, and flush when the buffer is full.
Push(w) ==
  /\ pc[w] = "scan"
  /\ read[w] < Len(input[w])
  /\ LET r == input[w][read[w] + 1]
     IN  IF r.key \in LongKeys
         THEN /\ pc' = [pc EXCEPT ![w] = "LimitExceeded"]
              /\ UNCHANGED <<read, scatter, at, ends>>
         ELSE /\ read' = [read EXCEPT ![w] = @ + 1]
              /\ scatter' = [scatter EXCEPT ![w] = @ \cup {read[w] + 1}]
              /\ IF Cardinality(scatter[w]) + 1 >= FlushRows
                 THEN /\ pc' = [pc EXCEPT ![w] = "flush"]
                      /\ at' = [at EXCEPT ![w] = 0]
                      /\ ends' = [ends EXCEPT ![w] = FALSE]
                 ELSE UNCHANGED <<pc, at, ends>>
  /\ UNCHANGED <<input, from, table, bytes, answer>>

\* The end of a batch: whatever is buffered is drained, and then the budget is
\* checked.
EndBatch(w) ==
  /\ pc[w] = "scan"
  /\ read[w] > from[w] \/ read[w] = Len(input[w])
  /\ pc' = [pc EXCEPT ![w] = "flush"]
  /\ at' = [at EXCEPT ![w] = 0]
  /\ ends' = [ends EXCEPT ![w] = TRUE]
  /\ UNCHANGED <<input, read, from, scatter, table, bytes, answer>>

\* The rows of w's buffer that go to partition p, and the tables once those have
\* been added, in the order they were pushed.
Run(w, p) == {i \in scatter[w] : PartOf[input[w][i].key] = p}

Added(w, run) ==
  LET upto[n \in 0..read[w]] ==
        IF n = 0 THEN table
        ELSE IF n \in run THEN AddRow(upto[n - 1], input[w][n]) ELSE upto[n - 1]
  IN  upto[read[w]]

NextAfterNeverChecks(w, p) == IF p < Parts - 1 THEN "flush" ELSE "scan"

\* Past the last partition: back to the morsel, or on to the budget check.
NextAfter(w, p) ==
  IF p < Parts - 1 THEN "flush" ELSE IF ends[w] THEN "check" ELSE "scan"

DrainPublishesFirst(w, p) ==
  LET run == Run(w, p)
      t == Added(w, run)
  IN  /\ table' = [t EXCEPT !.ok = TRUE]
      /\ bytes' = [bytes EXCEPT ![p] = Size(table, p)]
      /\ scatter' = [scatter EXCEPT ![w] = @ \ run]
      /\ pc' = [pc EXCEPT ![w] = IF t.ok THEN NextAfter(w, p) ELSE "Overflow"]

\* One partition's lock, held for its whole run of pending rows.  An error
\* leaves the buffer as it was, and the rows before it applied.
Drain(w, p) ==
  LET run == Run(w, p)
      t == Added(w, run)
  IN  /\ table' = [t EXCEPT !.ok = TRUE]
      /\ IF t.ok
         THEN /\ bytes' = IF run = {} THEN bytes ELSE [bytes EXCEPT ![p] = Size(t, p)]
              /\ scatter' = [scatter EXCEPT ![w] = @ \ run]
              /\ pc' = [pc EXCEPT ![w] = NextAfter(w, p)]
         ELSE /\ pc' = [pc EXCEPT ![w] = "Overflow"]
              /\ UNCHANGED <<bytes, scatter>>

Flush(w) ==
  /\ pc[w] = "flush"
  /\ Drain(w, at[w])
  /\ at' = [at EXCEPT ![w] = IF @ < Parts - 1 THEN @ + 1 ELSE 0]
  /\ UNCHANGED <<input, read, from, ends, answer>>

\* SharedAgg::bytes: the published counters, read without a lock.
Published == SumFunction(bytes)

\* check_budget, and the next batch if there is one.
CheckBudget(w) ==
  /\ pc[w] = "check"
  /\ pc' = [pc EXCEPT ![w] =
              IF Published > MemPool THEN "LimitExceeded"
              ELSE IF read[w] = Len(input[w]) THEN "done" ELSE "scan"]
  /\ from' = [from EXCEPT ![w] = read[w]]
  /\ UNCHANGED <<input, read, scatter, at, ends, table, bytes, answer>>

\* A worker that is between batches when another has failed takes no more.
Abandon(w) ==
  /\ pc[w] = "scan" /\ read[w] = from[w]
  /\ \E v \in Workers : pc[v] \in Errors
  /\ pc' = [pc EXCEPT ![w] = "done"]
  /\ UNCHANGED <<input, read, from, scatter, at, ends, table, bytes, answer>>

-----------------------------------------------------------------------------
Settled == \A w \in Workers : pc[w] \in Errors \cup {"done"}

\* collect::<Result<Vec<_>>>: one of the errors there were.
Fail ==
  /\ answer.outcome = "none" /\ Settled
  /\ \E w \in Workers :
       pc[w] \in Errors /\ answer' = [outcome |-> pc[w], rows |-> {}]
  /\ UNCHANGED <<input, read, from, scatter, pc, at, ends, table, bytes>>

\* into_index on every partition: an entry whose sum does not fit refuses the
\* answer; a zero sum is dropped when the plan says so; an aggregate that saw no
\* row of a group is zero.
Kept(k) == ~DropZero \/ FinalSum(table.acc[k]) # 0

SumsOf(k) ==
  [a \in 0..(SumArity - 1) |->
     IF a = 0 THEN FinalSum(table.acc[k])
     ELSE IF table.extra[k][a] = NoWord THEN 0 ELSE table.extra[k][a]]

IntoRows ==
  /\ answer.outcome = "none"
  /\ \A w \in Workers : pc[w] = "done"
  /\ answer' =
       IF \E k \in table.groups : FinalSum(table.acc[k]) = NoWord
       THEN [outcome |-> "Overflow", rows |-> {}]
       ELSE [outcome |-> "rows",
             rows |-> {<<k, SumsOf(k)>> : k \in {g \in table.groups : Kept(g)}}]
  /\ UNCHANGED <<input, read, from, scatter, pc, at, ends, table, bytes>>

WorkerStep(w) ==
  Push(w) \/ EndBatch(w) \/ Flush(w) \/ CheckBudget(w) \/ Abandon(w)

Next == (\E w \in Workers : WorkerStep(w)) \/ Fail \/ IntoRows

Spec == Init /\ [][Next]_vars

\* A worker on the pool runs until it has nothing left to do.
FairSpec ==
  /\ Spec
  /\ \A w \in Workers : WF_vars(WorkerStep(w))
  /\ WF_vars(Fail \/ IntoRows)

-----------------------------------------------------------------------------
TypeOK ==
  /\ input \in Inputs
  /\ read \in [Workers -> Nat] /\ from \in [Workers -> Nat]
  /\ scatter \in [Workers -> SUBSET Nat]
  /\ pc \in [Workers -> {"scan", "flush", "check", "done"} \cup Errors]
  /\ at \in [Workers -> 0..(Parts - 1)] /\ ends \in [Workers -> BOOLEAN]
  /\ table \in [groups : SUBSET Keys, ok : {TRUE},
                acc : [Keys -> [wide : BOOLEAN, hi : HiWord, lo : Word]],
                extra : [Keys -> [ExtraAggs -> Word \cup {NoWord}]]]
  /\ bytes \in [0..(Parts - 1) -> Nat]
  /\ answer.outcome \in {"none", "rows"} \cup Errors

\* A buffer holds rows that were read, and never more than a flush takes.
Buffers ==
  \A w \in Workers :
    /\ from[w] <= read[w] /\ read[w] <= Len(input[w])
    /\ scatter[w] \subseteq 1..read[w] /\ Cardinality(scatter[w]) <= FlushRows

\* The rows there are, as worker and place; and what some of them add up to, for
\* one aggregate of one key.
Places == UNION {{w} \X DOMAIN input[w] : w \in Workers}
RowAt(x) == input[x[1]][x[2]]

SumOf(S, k, a) ==
  SumFunctionOnSet([x \in Places |-> IF x \in S /\ RowAt(x).key = k /\ RowAt(x).agg = a
                                    THEN RowAt(x).val ELSE 0], Places)

Exact(k, a) == SumOf(Places, k, a)
Seen(k) == \E w \in Workers : \E i \in DOMAIN input[w] : input[w][i].key = k

Held(k, a) ==
  IF a = 0 THEN ValueOf(table.acc[k])
  ELSE IF table.extra[k][a] = NoWord THEN 0 ELSE table.extra[k][a]

\* The rows that have been through a buffer.
Counted == {x \in Places : x[2] <= read[x[1]] /\ x[2] \notin scatter[x[1]]}

(* No row is lost or counted twice on its way through the buffers and the  *)
(* partition locks, however the flushes of the workers interleave and      *)
(* whatever a running sum does: until a sum overflows, what a group holds  *)
(* is the sum of the rows read for it that are in no buffer any more.      *)
Conserved ==
  (\A w \in Workers : pc[w] # "Overflow") =>
    \A k \in Keys : \A a \in 0..(SumArity - 1) : Held(k, a) = SumOf(Counted, k, a)

(* Rows are conserved, in buffers that are never too full.                 *)
RowsConserved == TypeOK /\ Buffers /\ Conserved

(* An answer has exactly the groups that were seen, less the zero sums if  *)
(* the plan drops them, and every sum in it is the exact one.              *)
AnswerExact ==
  answer.outcome = "rows" =>
    answer.rows =
      {<<k, [a \in 0..(SumArity - 1) |-> Exact(k, a)]>> :
         k \in {g \in Keys : Seen(g) /\ (DropZero => Exact(g, 0) # 0)}}

(* src/exec/agg.rs:214-216: "An entry is refused when its *answer* will    *)
(* not fit, not when some partial sum did not ... whatever order the rows  *)
(* arrived in."                                                            *)
RefusedOnlyForTheAnswer ==
  answer.outcome = "Overflow" =>
    \E k \in Keys : \E a \in 0..(SumArity - 1) : Exact(k, a) \notin Word

(* A query with one sum keeps that promise, over fewer rows than the high  *)
(* limb counts (2^63: it is an i64).                                       *)
OneSum == \A w \in Workers : \A i \in DOMAIN input[w] : input[w][i].agg = 0
RowsFit == Cardinality(Places) < HiHalf
OneSumRefusedForTheAnswer == OneSum /\ RowsFit => RefusedOnlyForTheAnswer

(* What is answered is exact, and what is refused has its cause.           *)
AnswerHonest == AnswerExact /\ OneSumRefusedForTheAnswer

(* The budget is checked against counters that lag behind the tables, but  *)
(* the last flush is followed by a check that sees them all: an answer is  *)
(* never larger than mem_pool_bytes.                                       *)
BudgetHolds == answer.outcome = "rows" => Cardinality(table.groups) <= MemPool

(* The counters never claim more than the tables hold.                     *)
PublishedIsALowerBound ==
  \A p \in DOMAIN bytes : bytes[p] <= Size(table, p)

(* The budget is kept, by counters that never run ahead.                   *)
BudgetKept == BudgetHolds /\ PublishedIsALowerBound

(* Every fold ends, in an answer or an error.                              *)
Ends == <>(answer.outcome # "none")
=============================================================================
