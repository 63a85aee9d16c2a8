------------------------------- MODULE FoldPool -------------------------------
(***************************************************************************)
(* Queries on the fold's thread pool (Burrmill::query_with_cancel in       *)
(* src/lib.rs, SignedFoldExec::run and fold_morsel in                      *)
(* src/exec/signed_fold.rs, SealedSegments::morsels in src/segment.rs).    *)
(* A query admitted by the gate hands one root job to the pool.  The root  *)
(* cuts the morsels if nobody has yet, groups them into batches and waits  *)
(* for the batches; a pool thread that waits runs whatever job it finds    *)
(* on top of its own stack.                                                *)
(*                                                                         *)
(* The gate is only its width here; Gate.tla has its line.  What a batch   *)
(* adds up to is in SharedAgg.tla.                                         *)
(***************************************************************************)
EXTENDS Integers, Sequences, FiniteSets, SequencesExt

CONSTANTS
  Threads,   \* the pool's threads
  Queries,   \* the queries, each asked once
  Cancellable,  \* those whose caller may set the token
  Timed,     \* those that may run past their deadline
  Width,     \* how many of them the gate lets in
  Files,     \* the segment files of the table
  Unreadable, \* those whose footer may turn out not to be readable
  Lens,      \* the lengths the morsels of the table may have: a set of sequences
  MinBatch, MaxBatch,  \* the row budget of a batch when a query is alone
  MaxBeyond  \* bound: how far `beyond` is counted

ASSUME FoldPoolAssumption ==
  /\ IsFiniteSet(Threads) /\ Threads # {} /\ IsFiniteSet(Queries)
  /\ Cancellable \subseteq Queries /\ Timed \subseteq Queries /\ Unreadable \subseteq Files
  /\ Width \in Nat \ {0} /\ MaxBeyond \in Nat \ {0} /\ Lens \subseteq Seq(Nat)
  /\ MinBatch \in Nat \ {0} /\ MaxBatch \in Nat /\ MinBatch <= MaxBatch

VARIABLES
  lens,       \* the lengths of the table's morsels; never changes
  cut,        \* the OnceLock: whether the morsels have been cut
  injected,   \* the root jobs no thread has taken yet, in order
  pending,    \* the tasks forked and not taken: a footer or a batch
  stack,      \* what each thread is running, innermost first
  state,      \* each query: "out", "in" the pool, or its outcome
  degree,     \* the share of the pool it was admitted with; 0 is all of it
  failed,     \* the first error one of its tasks returned, or "none"
  cancelled, late,  \* its token, and whether its deadline has passed
  folded,     \* how many times each of its morsels was folded
  reading,    \* whether a thread has looked at the token and the clock, and reads the rows
  beyond      \* history: the morsels each thread folded of a query that was to stop

vars == <<lens, cut, injected, pending, stack, state, degree, failed,
          cancelled, late, folded, reading, beyond>>

Morsels == DOMAIN lens
Errors == {"Cancelled", "Timeout", "Io"}
Outcomes == {"rows"} \cup Errors
Admitted == {q \in Queries : state[q] = "in"}
InFlight == Cardinality(Admitted)

Init ==
  /\ lens \in Lens
  /\ cut = "no"
  /\ injected = <<>> /\ pending = {}
  /\ stack = [t \in Threads |-> <<>>]
  /\ state = [q \in Queries |-> "out"]
  /\ degree = [q \in Queries |-> 0]
  /\ failed = [q \in Queries |-> "none"]
  /\ cancelled = [q \in Queries |-> FALSE] /\ late = [q \in Queries |-> FALSE]
  /\ folded = [q \in Queries |-> [m \in Morsels |-> 0]]
  /\ reading = [t \in Threads |-> FALSE]
  /\ beyond = [q \in Queries |-> [t \in Threads |-> 0]]

-----------------------------------------------------------------------------
(* coalesce: morsels in order, cut into slices of at least `target` rows;  *)
(* when sharing, the last of 2 * degree slices takes the remainder.        *)

Oversub == 2
AtLeast(n, low) == IF n < low THEN low ELSE n
Clamp(n, low, high) == IF n < low THEN low ELSE IF n > high THEN high ELSE n

Rows == FoldLeft(LAMBDA n, len : n + len, 0, lens)

Target(d) ==
  IF d > 0 THEN AtLeast(Rows \div (d * Oversub), 1)
  ELSE Clamp(Rows \div (Cardinality(Threads) * 4), MinBatch, MaxBatch)

\* One turn of the loop: morsel m joins the open slice, which is cut behind it when
\* it is full.
Grown(d, acc, m) ==
  LET rows == acc.rows + lens[m]
  IN  IF rows >= Target(d) /\ (d > 0 => Cardinality(acc.cuts) + 1 < d * Oversub)
      THEN [cuts |-> acc.cuts \cup {m}, rows |-> 0]
      ELSE [acc EXCEPT !.rows = rows]

\* The morsels behind which a slice was cut.
Cuts(d) ==
  LET upto[m \in 0..Len(lens)] ==
        IF m = 0 THEN [cuts |-> {}, rows |-> 0] ELSE Grown(d, upto[m - 1], m)
  IN  upto[Len(lens)].cuts

\* The slices, by their first morsel and their last: from cut to cut, and what
\* is left behind the last one.
Coalesce(d) ==
  {s \in [first : Morsels, last : Morsels] :
     /\ s.first <= s.last
     /\ s.first = 1 \/ s.first - 1 \in Cuts(d)
     /\ s.last = Len(lens) \/ s.last \in Cuts(d)
     /\ \A m \in Cuts(d) : ~(s.first <= m /\ m < s.last)}

-----------------------------------------------------------------------------
Root(q, phase) == [kind |-> "root", q |-> q, phase |-> phase]
Footer(q, f) == [kind |-> "footer", q |-> q, file |-> f]
Batch(q, s) == [kind |-> "batch", q |-> q, first |-> s.first, last |-> s.last]

Busy(t) == stack[t] # <<>>
Top(t) == Head(stack[t])
RunsRoot(t, phase) == Busy(t) /\ Top(t).kind = "root" /\ Top(t).phase = phase
RunsTask(t, kind) == Busy(t) /\ Top(t).kind = kind

Replace(t, frame) == stack' = [stack EXCEPT ![t] = <<frame>> \o Tail(@)]
Return(t) == stack' = [stack EXCEPT ![t] = Tail(@)]

\* A parallel iterator is done when none of its tasks is left or running.
Joined(q) ==
  /\ \A p \in pending : p.q # q
  /\ \A t \in Threads : \A i \in DOMAIN stack[t] : stack[t][i].q = q => stack[t][i].kind = "root"

\* Through the gate and, with nothing in between, into the pool.  The pass carries the
\* number inside, counted under the gate's lock: by it a query has all of the pool or
\* a share, for as long as it runs.
Enter(q) ==
  LET inside == InFlight + 1 IN
  /\ state[q] = "out"
  /\ inside <= Width
  /\ state' = [state EXCEPT ![q] = "in"]
  /\ degree' = [degree EXCEPT ![q] =
       IF inside = 1 THEN 0 ELSE AtLeast(Cardinality(Threads) \div inside, 1)]
  /\ injected' = Append(injected, q)
  /\ UNCHANGED <<lens, cut, pending, stack, failed, cancelled, late, folded, reading, beyond>>

\* Cancelled in front of a full gate.
Forfeit(q) ==
  /\ state[q] = "out"
  /\ InFlight >= Width /\ cancelled[q]
  /\ state' = [state EXCEPT ![q] = "Cancelled"]
  /\ UNCHANGED <<lens, cut, injected, pending, stack, degree, failed, cancelled, late, folded, reading, beyond>>

\* The morsels are looked up, or a task is forked for every file.
CutHoldingTheLock(t) ==
  /\ RunsRoot(t, "start") /\ cut = "no"
  /\ cut' = "busy"
  /\ pending' = pending \cup {Footer(Top(t).q, f) : f \in Files}
  /\ Replace(t, Root(Top(t).q, "cut"))
  /\ UNCHANGED <<lens, injected, state, degree, failed, cancelled, late, folded, reading, beyond>>

Cut(t) ==
  /\ RunsRoot(t, "start") /\ cut = "no"
  /\ pending' = pending \cup {Footer(Top(t).q, f) : f \in Files}
  /\ Replace(t, Root(Top(t).q, "cut"))
  /\ UNCHANGED <<lens, cut, injected, state, degree, failed, cancelled, late, folded, reading, beyond>>

\* The morsels are there: group them, and fork a task for every batch.
ForkBatches(t) ==
  /\ \/ RunsRoot(t, "start") /\ cut = "yes"
     \/ RunsRoot(t, "cut") /\ Joined(Top(t).q) /\ failed[Top(t).q] = "none"
  /\ cut' = "yes"
  /\ pending' = pending \cup
       LET q == Top(t).q IN {Batch(q, s) : s \in Coalesce(degree[q])}
  /\ Replace(t, Root(Top(t).q, "fold"))
  /\ UNCHANGED <<lens, injected, state, degree, failed, cancelled, late, folded, reading, beyond>>

\* Mutant: the first error is returned without waiting for the other tasks.
FinishAtFirstError(t) ==
  /\ \/ RunsRoot(t, "fold") /\ Joined(Top(t).q)
     \/ RunsRoot(t, "fold") /\ failed[Top(t).q] # "none"
     \/ RunsRoot(t, "cut") /\ failed[Top(t).q] # "none"
  /\ LET q == Top(t).q
     IN  state' = [state EXCEPT ![q] = IF failed[q] = "none" THEN "rows" ELSE failed[q]]
  /\ Return(t)
  /\ UNCHANGED <<lens, cut, injected, pending, degree, failed, cancelled, late, folded, reading, beyond>>

\* Every task has returned: the first error, or the rows; the turn is given back.
Finish(t) ==
  /\ \/ RunsRoot(t, "fold")
     \/ RunsRoot(t, "cut") /\ failed[Top(t).q] # "none"
  /\ Joined(Top(t).q)
  /\ LET q == Top(t).q
     IN  state' = [state EXCEPT ![q] = IF failed[q] = "none" THEN "rows" ELSE failed[q]]
  /\ Return(t)
  /\ UNCHANGED <<lens, cut, injected, pending, degree, failed, cancelled, late, folded, reading, beyond>>

\* A thread takes jobs when it has nothing to run or waits for a join; those of
\* its own query first, then other threads', then from outside.
Waits(t) ==
  Busy(t) => Top(t).kind = "root" /\ Top(t).phase # "start" /\ ~Joined(Top(t).q)

Own(t) == IF Busy(t) THEN {p \in pending : p.q = Top(t).q} ELSE {}

TakeTask(t) ==
  /\ Waits(t)
  /\ \E p \in IF Own(t) # {} THEN Own(t) ELSE pending :
       /\ pending' = pending \ {p}
       /\ stack' = IF failed[p.q] = "none" THEN [stack EXCEPT ![t] = <<p>> \o @] ELSE stack
  /\ UNCHANGED <<lens, cut, injected, state, degree, failed, cancelled, late, folded, reading, beyond>>

TakeInjected(t) ==
  /\ Waits(t) /\ pending = {}
  /\ injected # <<>>
  /\ stack' = [stack EXCEPT ![t] = <<Root(Head(injected), "start")>> \o @]
  /\ injected' = Tail(injected)
  /\ UNCHANGED <<lens, cut, pending, state, degree, failed, cancelled, late, folded, reading, beyond>>

Fail(t, e) ==
  /\ failed' = [failed EXCEPT ![Top(t).q] = IF @ = "none" THEN e ELSE @]
  /\ Return(t)

ReadFooter(t) ==
  /\ RunsTask(t, "footer")
  /\ \/ Return(t) /\ UNCHANGED failed
     \/ Top(t).file \in Unreadable /\ Fail(t, "Io")
  /\ UNCHANGED <<lens, cut, injected, pending, state, degree, cancelled, late, folded, reading, beyond>>

Error(q) ==
  IF cancelled[q] THEN "Cancelled" ELSE IF late[q] THEN "Timeout" ELSE "none"

\* fold_morsel: the token and the deadline ...
CheckMorsel(t) ==
  /\ RunsTask(t, "batch") /\ Top(t).first <= Top(t).last /\ ~reading[t]
  /\ IF Error(Top(t).q) # "none"
     THEN Fail(t, Error(Top(t).q)) /\ UNCHANGED reading
     ELSE reading' = [reading EXCEPT ![t] = TRUE] /\ UNCHANGED <<stack, failed>>
  /\ UNCHANGED <<lens, cut, injected, pending, state, degree, cancelled, late, folded, beyond>>

CountBeyond(t) ==
  beyond' = [beyond EXCEPT ![Top(t).q][t] =
    IF Error(Top(t).q) # "none" /\ @ < MaxBeyond THEN @ + 1 ELSE @]

\* Mutant: the token and the deadline are looked at once for a batch.
FoldMorselUnlooked(t) ==
  /\ RunsTask(t, "batch") /\ Top(t).first <= Top(t).last /\ reading[t]
  /\ folded' = [folded EXCEPT ![Top(t).q][Top(t).first] = @ + 1]
  /\ Replace(t, [Top(t) EXCEPT !.first = @ + 1])
  /\ reading' = [reading EXCEPT ![t] = Top(t).first < Top(t).last]
  /\ CountBeyond(t)
  /\ UNCHANGED <<lens, cut, injected, pending, state, degree, failed, cancelled, late>>

\* ... and then the rows, whatever has become of either meanwhile.
FoldMorsel(t) ==
  /\ RunsTask(t, "batch") /\ Top(t).first <= Top(t).last /\ reading[t]
  /\ folded' = [folded EXCEPT ![Top(t).q][Top(t).first] = @ + 1]
  /\ Replace(t, [Top(t) EXCEPT !.first = @ + 1])
  /\ reading' = [reading EXCEPT ![t] = FALSE]
  /\ CountBeyond(t)
  /\ UNCHANGED <<lens, cut, injected, pending, state, degree, failed, cancelled, late>>

\* The end of a batch: check_budget looks at the clock once more.
EndBatch(t) ==
  /\ RunsTask(t, "batch") /\ Top(t).first > Top(t).last
  /\ IF late[Top(t).q] THEN Fail(t, "Timeout") ELSE Return(t) /\ UNCHANGED failed
  /\ UNCHANGED <<lens, cut, injected, pending, state, degree, cancelled, late, folded, reading, beyond>>

\* From outside: the token is set; the clock, which run() started, runs out.
Cancel(q) ==
  /\ ~cancelled[q]
  /\ cancelled' = [cancelled EXCEPT ![q] = TRUE]
  /\ UNCHANGED <<lens, cut, injected, pending, stack, state, degree, failed, late, folded, reading, beyond>>

Expire(q) ==
  /\ ~late[q]
  /\ state[q] = "in" /\ q \notin ToSet(injected)
  /\ late' = [late EXCEPT ![q] = TRUE]
  /\ UNCHANGED <<lens, cut, injected, pending, stack, state, degree, failed, cancelled, folded, reading, beyond>>

ThreadStep(t) ==
  \/ Cut(t) \/ ForkBatches(t) \/ Finish(t) \/ TakeTask(t) \/ TakeInjected(t)
  \/ ReadFooter(t) \/ CheckMorsel(t) \/ FoldMorsel(t) \/ EndBatch(t)

CallerStep(q) == Enter(q) \/ Forfeit(q)

Next ==
  \/ \E t \in Threads : ThreadStep(t)
  \/ \E q \in Queries : CallerStep(q)
  \/ \E q \in Cancellable : Cancel(q)
  \/ \E q \in Timed : Expire(q)

Spec == Init /\ [][Next]_vars

\* Some thread of the pool runs while any of them has something to run, and the
\* gate's line gets everybody in; nobody need ever cancel, no deadline need pass.
FairSpec ==
  /\ Spec
  /\ WF_vars(\E t \in Threads : ThreadStep(t))
  /\ WF_vars(\E q \in Queries : CallerStep(q))

-----------------------------------------------------------------------------
Frame ==
  [kind : {"root"}, q : Queries, phase : {"start", "cut", "fold"}]
    \cup [kind : {"footer"}, q : Queries, file : Files]
    \cup [kind : {"batch"}, q : Queries, first : 1..(Len(lens) + 1), last : Morsels]

TypeOK ==
  /\ lens \in Lens /\ cut \in {"no", "yes"}
  /\ \A q \in ToSet(injected) : q \in Queries
  /\ pending \subseteq Frame
  /\ \A t \in Threads : \A i \in DOMAIN stack[t] : stack[t][i] \in Frame
  /\ state \in [Queries -> {"out", "in"} \cup Outcomes]
  /\ degree \in [Queries -> 0..Cardinality(Threads)]
  /\ failed \in [Queries -> {"none"} \cup Errors]
  /\ cancelled \in [Queries -> BOOLEAN] /\ late \in [Queries -> BOOLEAN]
  /\ folded \in [Queries -> [Morsels -> 0..1]]
  /\ reading \in [Threads -> BOOLEAN]
  /\ beyond \in [Queries -> [Threads -> 0..MaxBeyond]]

(* An answer is the whole table, once: whatever the grouping, whoever took *)
(* which batch, and whatever other queries ran on the same threads, no     *)
(* morsel is left out and none is folded twice.                            *)
AnswerIsWhole ==
  \A q \in Queries : state[q] = "rows" => \A m \in Morsels : folded[q][m] = 1

(* A query that has an outcome left nothing behind in the pool: no task,   *)
(* no frame, no root job that a thread would still run for nobody.         *)
NothingLeftBehind ==
  \A q \in Queries : state[q] \in Outcomes =>
    /\ \A p \in pending : p.q # q
    /\ \A t \in Threads : \A i \in DOMAIN stack[t] : stack[t][i].q # q
    /\ q \notin ToSet(injected)

(* A query that was admitted with a share of the pool never has more       *)
(* batches outstanding, waiting or being folded, than twice its share: so  *)
(* it never folds on more threads than that, however short its morsels.    *)
ShareHolds ==
  \A q \in Queries : degree[q] > 0 =>
    Cardinality({p \in pending : p.kind = "batch" /\ p.q = q})
      + Cardinality({t \in Threads : \E i \in DOMAIN stack[t] :
                       stack[t][i].kind = "batch" /\ stack[t][i].q = q}) <= Oversub * degree[q]

(* Whoever ran what for whom, an answer is whole, nothing outlives its     *)
(* query, and no query has more of the pool than its share.                *)
PoolInv == TypeOK /\ AnswerIsWhole /\ NothingLeftBehind /\ ShareHolds

(* From the moment its token is set or its deadline passes, however much of *)
(* it is queued, stolen or half read by then, no thread folds more than the *)
(* one morsel of the query that it was past the check of: no more than there *)
(* are threads in all.                                                      *)
OneMoreMorselEach == \A q \in Queries, t \in Threads : beyond[q][t] <= 1

(* No query is stuck for ever: threads that wait on top of one another,    *)
(* and readers of morsels another query is cutting, all get on.            *)
EveryQueryEnds == \A q \in Queries : <>(state[q] \in Outcomes)
=============================================================================
