# Burrmill in TLA+

Burrmill answers SQL over sealed Parquet segments plus a live tip. It has two layers in one
crate (`src/crates/burrmill/src/`):

- the **owned operator** (`Burrmill`, the default build): a partitioned, order-free fold of signed
  sums on a thread pool behind an admission gate, with a hot/cold seam;
- the **engine** (`Engine`, feature `datafusion`, `df/`): DataFusion as planner and executor, with
  Burrmill's own dialect, checked arithmetic, plan rewrites, catalogue and memory rules.

This directory holds TLA+ modules of the parts that keep state, are concurrent, do arithmetic at an
edge or rewrite what a statement means; TLC configurations that check them on small instances; and
proofs, checked by TLAPS, that the properties that matter most hold for every value of the constants.
Definitions carry the names of the code where TLA+ allows it, and `PROJECT.json` maps each one to the
lines it stands for.

    tlc -workers 2 -config MCGate.cfg MCGate.tla     # a run
    tlapm GateProofs.tla                             # a proof module

Contents: [inventory](#inventory) · [modules](#the-modules) · [runs](#the-runs) ·
[fairness](#fairness) · [proofs](#proofs) · [where code and words part](#where-the-code-and-its-words-part) ·
[not modelled](#what-is-not-modelled) · [plan](#plan)

## Inventory

For each part: the state it keeps, what it does, what is hard, and what makes it right.

### The owned operator

| Part (source) | State | Operations | Hard | Correct when |
|---|---|---|---|---|
| **Admission gate** (`gate.rs`) | `next`, `released`, `in_flight`, `peak` under one mutex; a condition variable | `enter`, `enter_cancellable`, dropping a `Pass` | a waiter may give up anywhere in line; nobody tells it it was cancelled; every ticket must be released by somebody, once | first come first served; no slot lost; a cancelled waiter leaves |
| **Hot/cold seam** (`seam.rs`) | `MemoryTip`: unsealed rows and the watermark under one lock | `append`, `seal_through`, `snapshot`, `check_disjoint` | the tip and the directory are read at different moments while sealing goes on | a row there was at the snapshot is counted exactly once (COR-1) |
| **Segments** (`segment.rs`) | the files listed at opening; a `OnceLock` of morsels | `refresh` (list again), `morsels` (read footers, cut) | a file visible before it is whole; the cutting is itself parallel work on the pool | the listing is not older than the snapshot; no thread waits for itself |
| **Query path** (`lib.rs`) | none between queries | `query_with_cancel`: plan, snapshot, resolve, pass the gate, run on the pool | the order of those steps; the share of the pool is fixed on entry | answer or refusal is of the snapshot's moment |
| **Fold** (`exec/signed_fold.rs`) | token, deadline, batches of morsels | `run`, `coalesce`, `fold_morsel`, `check_budget` | a thread that waits for a join runs other jobs on its own stack; first error stops the rest | every morsel folded once or no rows; nothing left behind; stops when told |
| **Aggregation** (`exec/agg.rs`) | 64 partitions of groups, each under a mutex; byte counters; a scatter buffer per worker | `push_agg`, `flush`, `PartTable::add`, `bytes`, `into_rows` | two workers flush into the same groups; a sum leaves the word and comes back; a flush fails half way; counters lag | the answer is the exact sum, whatever the order; a refusal is for the answer; the budget holds |
| **Checked arithmetic** (`exec/checked.rs`) | none | `checked_add`, `checked_neg` | the ends of the `i128` range | exact or refused |
| **Limits** (`limits.rs`) | none | caps on memory, time, rows, bytes | tested at some points only | an answer is never over a cap |
| **Planner** (`plan.rs`) | none | SQL tree to a signed-fold plan, or a refusal | which shapes are admitted, and that nothing else a query says is dropped | only shapes the fold computes as SQL would |

### The engine

| Part (source under `df/`) | State | Operations | Hard | Correct when |
|---|---|---|---|---|
| **Names** (`host.rs`, `tables.rs`, `session.rs`, parts of `mod.rs`, `dialect.rs`) | bound tables and views; a count per identifier; the rows of `information_schema`; an undo map | `register_view`, `register_rows`, `register_facts`, `create_table_as`, `load_parquet`, `drop_relation`, `begin`, `commit`, `rollback` | two caches kept up by increments; a definition of several parts that may fail between them | caches equal what a rebuild would give; a rollback restores |
| **Statements** (`mod.rs`, `cancel.rs`) | one cancel token per engine, a pass, a stream of batches, on a host's runtime a channel of one | `sql`, `sql_for_each`, cancel, reset | the token armed and cleared between any two steps; a consumer that stops early against a full channel | an answer is whole; every statement ends and stops what it started |
| **Guards** (`depth.rs`) | a work list per statement | count set operations, walk the tree on the heap | one kind of node not pushed, or pushed with its depth begun afresh | refuses exactly what is over a bound |
| **Subqueries** (`subqueries.rs`, `dialect.rs`) | none | predicates to counts, names told apart | three-valued logic; a name that means something else one level down | DuckDB's answer |
| **Plan rules** (`session.rs` and `outerorder`, `nullsub`, `topn`, `extreme`, `distinct`, `distinctrows`, `onerow`, `correlate`, `latest`, `lastnonnull`) | none | plan to plan, one after the other | each matches what those before it left: NULLs, ties, empty inputs, names, order | same rows |
| **Fold in the engine** (`fold.rs`) | none | puts the owned fold in the place of an aggregate | shape of keys, casts, filters and facts; the order it declares | same rows |
| **Checked rule** (`rule.rs`) | a set of tainted columns | checked forms, guards, refusals | taint must follow a column through every kind of node | answers as DuckDB, or refuses |
| **Checked sums** (`checked.rs`, `wide.rs`) | limbs per group | update, merge, emit, retract | partial groups and sliding frames; the ends of a type | refuses for the answer alone |
| **Texts and constants** (`fastcast.rs`, `constants.rs`, `wide.rs`) | none | read a text three ways; move a constant | signs, blanks, exponents; saturation | the three agree; no comparison changes |
| **Floating sums** (`floatsum.rs`, `doubles.rs`) | an exact accumulator per group | add, take back, merge, emit, round once | carries before a bucket wraps; partial emission | the rounded exact sum |
| **Shared subqueries** (`sharing.rs`) | a definition per repeat, a cell its readers share | find, publish, compute, read, drop, fail | readers in any order, leaving early; rules that rebuild plans | every reader the same whole answer, or the error |
| **Narrowed pages** (`narrow.rs`) | held sides of a join | keys of the kept rows pushed below each side | ties, NULL keys, keys traced through projections and other sides | the page of the whole answer |
| **Held input** (`heldinput.rs`) | reservations against a shared pool | grow, give back, cut, drop | what is held must be charged for as long as it is kept | charges fit the pool and return to it |
| **Range joins** (`rangejoin.rs`, `rangebounds.rs`) | a sorted side; filters set while a scan reads | probe, stop, resume, publish | NULLs, outer rows, resuming in the middle of a row's matches | equals the nested loop; a skipped row is not needed |
| **Ordered lists** (`ordered_agg.rs`) | entries that point into kept batches | update, merge, emit, release | arrival order between equal keys; a batch released too early | each list in order |
| **Choices of operators** (`smallinputs.rs`, `buildside.rs`, `joinfilters.rs`, `topkfilter.rs`, `encode.rs`) | none | physical plan to physical plan | statistics | same rows |
| **Reach analysis** (`inspect.rs`, `walk.rs`), **dialect, functions, messages** (`dialect.rs`, `duckfns.rs`, `printf.rs`, `names.rs`, ...) | none | text and trees | DuckDB's letter | same text |

`generated/` holds code taken from DataFusion and `src/crates/burrmill-bench` measures the rest;
neither is Burrmill's logic.

### How they interact

    indexer --append, seal--> tip + segment files
    host --query--> plan.rs -> [ snapshot tip -> list directory -> gate -> pool ]
                       |                 |                          |      |
            FoldPlanner.tla   Seam.tla: which rows count     Gate.tla     FoldPool.tla: who runs what, when
                       |                                                   |
                       +---- SignedFold.tla: what a row adds ----- SharedAgg.tla: what they add up to
                                                                         (Words.tla: in how wide a word)

    host --sql--> Depth -> Subqueries -> plan rules -------------------> physical plan -> stream
                  (is it   (names and    Rewrites, FoldRule, CheckedRule,   |              |
                  bounded) counts)       SharedPlans, NarrowJoins,          |        Statement.tla
                                         MoveConstants                      |
                            HeldInput, RangeJoin, RangeBounds, OrderedAgg, Sharing,
                            CheckedSums, FloatSum: what its operators do
    host --register, materialise, begin/rollback--> names --> every engine statement   (HostCatalog.tla)

A query of the owned operator is the composition of Gate, Seam, FoldPool, SharedAgg and SignedFold. They
are kept apart because they meet in narrow places: the gate gives the pool nothing but a count
(`Pass::in_flight`, in FoldPool as `degree`), the seam gives the fold two sets of rows that no longer
change once the query has them, and the fold gives the accumulator rows in any order (in SharedAgg:
any split of any rows between workers, in any interleaving). The engine's rules are composed:
`Rewrites`, `FoldRule` and `SignedFold` run over one plan, in the order of `session.rs`, and
`NarrowJoins` runs after `SharedPlans` and `CheckedRule` on one statement.

## The modules

### The owned operator and the front of the engine

| Module | Models | State and actions against the code |
|---|---|---|
| `AdmissionLine` | what the gate promises | a line of callers, a set of called ones, free slots; no tickets |
| `Gate` | `gate.rs`, `CancelToken` | `next`, `released`, `inFlight`, `peak` are the fields of `State` and `Gate`. `EnterAtOnce`, `EnterForfeit`, `EnterWait` are the three ways through `enter_cancellable` up to the first sleep (the mutex is held for the whole of each); `WakeAdmit`, `WakeForfeit` one turn of its loop; `Leave` is `Pass::drop`; `Cancel`, `Reset` the token. `forfeited` is history |
| `Words` | `exec/checked.rs`, the two-limb accumulator of `exec/agg.rs` | `CheckedAdd`, `Widen`, `WideAdd`, `Narrow`, `FinalSum`, with the range of a word, `Half`, and of the high limb as constants: 2^127 in the code, 8 in the runs, any positive number in the proofs |
| `SharedAgg` | `Scatter`, `SharedAgg`, the worker loop of `SignedFoldExec::run` | `scatter` is which of the rows a worker has read are in its buffer; `Push` (one row into it), `Flush` (the run of one partition, under its lock, in the order it was read), `CheckBudget`, `EndBatch`, `Abandon`, `Fail`, `IntoRows`. A batch may end after any row, which covers every grouping |
| `Seam` | `seam.rs`, listing and footers of `segment.rs`, the order of `query_with_cancel`, what both halves of the fold make of a row | the indexer: `AppendRow`, `Reappend`, `StartSeal`, `WriteSegment`, `FinishSegment`, `SealThrough`; the query: `Snapshot`, `ListBranch` once per arm, `Footers`, `Fold`. A value is only how it parses; the result is how often each row went to each party |
| `FoldPool` | root jobs and batches on rayon, `coalesce`, `morsels`, `degree`, token and deadline | a thread's `stack` holds what it runs, innermost first: a thread that waits for a join puts other jobs on top (`TakeTask`, `TakeInjected`). `Cut`, `ForkBatches`, `Finish` are the stretches of `run` between its joins; `ReadFooter` (which may fail), `CheckMorsel` (the token and the clock), `FoldMorsel` and `EndBatch` the tasks. `coalesce` is the set of morsels a slice ends behind; `beyond` is history |
| `HostCatalog` | registrations, host tables, transactions, the identifier counts, `information_schema` | one action per method (`&mut self` makes each atomic); `FactsFail` is every early return of `register_facts` after its first part; `Plans` and `Survey` are what statements do to the caches |
| `Statement` | `sql`, `sql_for_each` on the caller's and on a host's runtime, the token, the gate, the scans' tasks | `Call` refuses or plans, `FailToExecute` is a physical plan that cannot be made; `Step` is the next stretch of a statement up to its next wait (gate, poll, callback, send into the full channel, the end); `Receive` is the host's thread at the channel; `Scan`, `ScanEnds` the tasks, each looking at the token; `Cancel`, `Reset` the host at any moment |
| `Depth` | `depth.rs` | a statement as a tree of node kinds; `work` is the walk's own stack, `groups` its counters; `WalkStatement`, `WalkQuery`, `WalkSet`, `WalkExpr` pop one node and push what the code pushes for it, with the depth it gives it |

### Plans and what they answer

| Module | Models | State and actions against the code |
|---|---|---|
| `SignedFold` | `exec/signed_fold.rs` and `agg.rs` as a function: what a planned fold answers | `Contributions` of the rows, keys, refusals, canonical order |
| `Plans` | DataFusion's logical plans, external: nodes, expressions in three-valued logic, `Eval` | the reference every rule is checked against |
| `FoldPlanner` | `plan.rs` | a query is its clauses as parsed; `Refuse` and `PlanQuery` are the two ends of `plan`, `RunQuery` runs the fold |
| `FoldRule` | `fold.rs` | which aggregates become a fold and what the node declares |
| `Rewrites` | the rules of `session.rs` in their order | `stmt.ran` counts the rules that ran; `Apply` runs the next one over every node from below |
| `CheckedRule` | `rule.rs`, DataFusion's coercion where it matters | taint and exposure of columns, checked forms, guards, refusals |
| `SharedPlans` | `sharing.rs` as plans | candidates, innermost repeats first, definitions and references |
| `NarrowJoins` | `narrow.rs` | a machine that shares, coerces, narrows and answers one statement, as `df/mod.rs` does |
| `Subqueries` | `subqueries.rs` | names of derived tables, predicates to counts, aggregates told apart; DuckDB's meaning beside it |

### Operators

| Module | Models | State and actions against the code |
|---|---|---|
| `HeldInput` | `heldinput.rs` | each stream of a statement: `HeldPolls` is one poll, `Drop` at any time; charges against one pool |
| `RangeJoin` | `rangejoin.rs` | `Build` by the partition that polls first, in any order the sort may leave equal bounds in; `Call` is one turn of the stream's loop, after the token; `RowBegins`, `Halve`, `Found`, `Examine`, `RowEnds` are the stretches of `probe`'s loops, `Pause` and `BatchEnds` its two returns |
| `RangeBounds` | `rangebounds.rs` | `Collect`, `CollectEnds`, `Publish` one column's filter, `ReadGroup` of the scan |
| `OrderedAgg` | `ordered_agg.rs` | batches kept, entries into them; `UpdateLists`, `MergeLists`, `ConvertLists` (rows that go round partial aggregation), emission and release |
| `Sharing`, `OnceAnswer` | the cell of `sharing.rs` | `Rewrite` (a rule rebuilds the plan, kept or thrown away), `PublishShared`, `Execute`, and per reader `Poll`, `Given`, `Compute`, `Collected`, `Fail`, `Drop`; `OnceAnswer` is what it promises |
| `Limbs`, `CheckedSums` | `wide.rs`; `checked.rs` | limb arithmetic; `SumUpdate`, `SumSkip`, `SumEnters`, `SumLeaves`, `SumEmit`; the arithmetic and shifts of a row |
| `TextNumbers` | `duck_number` of `wide.rs`, `fastcast.rs`, `ExactWide` | the three readings of a text |
| `MoveConstants` | `constants.rs` | `MovedOnce` one comparison, `Settled` until nothing moves, `Between` its two bounds |
| `FloatSum` | `floatsum.rs`, `doubles.rs` | `Update`, `Widen`, `Retract`, `EmitGroups` with merging; buckets, carries, the one rounding |

`GateProofs`, `SharedAggProofs`, `SeamProofs`, `FoldPoolProofs`, `HostCatalogProofs`, `StatementProofs` and
`SharingProofs` hold the theorems about the module each is named for (`SharedAggProofs` also those about
`Words`, `SeamProofs` those about `FloatSum`), `OperatorsProofs` those about `HeldInput`, `RangeBounds` and
`RangeJoin`; `MC...` modules give the constants
their values. `MCOperators`, `MCHostCatalog`, `MCSeam` and `MCPlans` put several machines into one run: one
of them moves and the others rest, so that a state says of one machine what a run of its own would.

### Abstractions worth knowing

- `Gate`: a sleeping waiter may look at the state at any time (`Wake`), which covers notifications,
  spurious wake-ups and the poll alike; whether it *must* look is fairness.
- `SharedAgg`: groups are counted instead of bytes, one unit each; the group table is a function, not an
  open-addressing table with arenas. A buffer is a set of places in what its worker reads, since one
  partition's rows are flushed in the order they were pushed. The counters are read in one step. The
  code reads them one after the other and without ordering; that a counter is read later than another
  only makes the sum larger here, as counters never shrink, and every worker checks after its own last
  flush; how a weak memory order may delay what one thread sees of another's counter is left out.
- `Seam`: what a row adds to a party is how many of the plan's arms credit it there less how many debit it.
- One query at a time in `Seam` (queries do not disturb one another: a query only reads); segments of
  one table never lose rows or files, as the indexer only adds; the fold itself is one step, since
  both of its inputs are fixed by then.
- `FoldPool`: a table with one list of morsels; a batch's arithmetic is in SharedAgg; the parallel
  section that turns partitions into rows is part of `Finish`. A query's share is fixed in the step that lets it in, as
  `Pass::in_flight` is counted there, under the gate's lock (`gate.rs:103-107`).
- `HostCatalog`: a body stands for rows and a captured plan; how many identifiers a body has is its
  columns. A body in `Unsealed` has no segment file yet, so that its raw part is an empty in-memory table.
- `FloatSum`: a batch is one row, so that ranges are looked at after exactly `CheckEvery` rows, where the code
  looks at the end of the batch that passes it; merging goes bucket by bucket, the code's slot by slot, with
  the same buckets in the end.
- `HeldInput`: what DataFusion spills or frees of its own when the pool refuses is not modelled; a refusal ends
  the statement.
- `NarrowJoins`: no mark joins, and no `EXISTS` or `IN` left as an expression, both of which `narrow.rs` leaves alone.
- `MoveConstants`: no volatile expression, which the code leaves where it is (`constants.rs:84`).
- `Statement`: a plan is how many batches each scan has, whether the plan holds back until the scans
  end, whether it is endless, whether it fails; batches carry nothing.
- `Plans`: tables of two columns; a text is an integer's digits, `Odd` (digits that are no integer), or
  `Junk`; DataFusion's own optimizer is taken to keep meanings, and what it refuses to plan is `Plannable`.
- `Depth`: a node is its kind and its children; kinds are those the walk tells apart.
- `Limbs`, `CheckedSums`, `FloatSum`: widths are constants; carries, signs and the rounding are as
  the code does them, at 4 bits a limb, 4 significant bits a double.
- `RangeJoin`, `RangeBounds`: values are small integers and NULL; Parquet's row groups are their extremes. A
  partition's right side is one batch; the batches of the left side are their memory before and after they
  are put together.

## The runs

Ten runs that pass and two that end in a counterexample; PROJECT.json says what each shows and names a
mutant for every property: a plausible bug in one definition that makes TLC find it broken. A property
named here is often a conjunction of named parts, each stated where it is defined.

| Run | Bounds | Properties |
|---|---|---|
| `MCGate` | 4 callers, 3 of them cancellable, width 2, 5 tickets | `Ordered` (tickets unique, places held), `Slots` (types, accounting, no idle slot, occupancy), the refinement `LineRefined`, `NoStarvation`, `CancelIsPrompt` |
| `MCSharedAgg` | 2 workers, 4 keys in 2 partitions, words of 4 bits, one and two sums, buffers of 2 rows, a high limb of 4 bits, budget of 2 groups | `RowsConserved`, `AnswerHonest` (exact, and one sum is refused only for its answer), `BudgetKept`, `Ends` |
| `MCSeam` | seam: 4 rows in 3 blocks, torn files, 2 rows that may come again. Doubles: 4 significant bits, 6 exponents, buckets of 2 orders, 2 partial aggregates, 2 groups, 4 rows | `CoherentAnswer`, `RefusalHonest`, `SealedOnce`; `FloatsKept` (totals, ranges, places), `FloatsExact` (the answer rounded once) |
| `MCFoldPool` | 2 threads, 3 queries, width 2, up to 3 morsels behind a footer that may be unreadable, one query cancellable, one with a deadline | `PoolInv` (the answer whole, nothing left behind, shares kept), `OneMoreMorselEach` (what is folded after a query is told to stop) |
| `MCFoldPoolLive` | 2 threads, 2 queries, 2 files of which one may be unreadable, 2 morsels | `EveryQueryEnds` |
| `MCHostCatalog` | names: 1 relation opened from a nest, 2 bodies of which one fails, 2 columns. Guards: depth 4, 5 terms, 2 nested queries. Subqueries: 47 texts, each over every content of its tables | `KnownIsCurrent`, `CanUndo`; `BoundsKept`; `SubqueriesMean` |
| `MCStatement` | 2 calls, one from a host's runtime, gate of 1, channel of 1, 2 scans, 5 shapes of plan, the token set and cleared once | `StatementInv` (the gate, cancellation, the answer whole), `StatementsEnd` |
| `MCSharing` | 2 subqueries, the outer reading the inner, 5 readers of which one runs early, 2 rewrites, 2 failures | `CellInv`, the refinement `OneAnswer`, `EveryReaderEnds` |
| `MCOperators` | held input: 2 streams, a pool of 12 bytes; joins of up to 4 by 4 rows, 2 partitions, output cut at 2; scans of 3 row groups, 7 join types; lists of 2 parts, 4 rows; sums of 4 types over 4 rows; limbs of 4 bits; some 4,000 texts; some 50,000 comparisons | `HeldInv`, `JoinInv`, `JoinEnds`, `SkipsNothingNeeded`, `ListAnswer`, `SumsExact`, `ArithmeticExact`, `TextsRead`, `ConstantsMove` |
| `MCPlans` | statements of every shape a rule looks for and of each shape it must leave, over every content of up to 2 rows (3 where one table is read) with NULLs, odd texts and the ends of their types | `AnswerKept`, `ShapeKept` (names, order, what a fold declares, and that DataFusion plans what is left), `PlannedMeans`, `ArithmeticRefuses`, `PageAnswered` |
| `MCPlansDropped` | the planner's queries | `NothingDropped` is violated |
| `MCCaptured` | one text | `MovedMeansTheSame` is violated |

Why these bounds are enough to be interesting:

- **Gate.** Two slots and four callers give a line of two behind a full gate, so a forfeit can happen
  behind the head, and the head be called because of it. `MaxTickets` bounds how many arrivals there
  are in a behaviour; five let a caller come back after it left or gave up, and let two forfeits
  precede a late holder's leaving. When tickets run out, nobody arrives, but everybody there can still
  leave, so no liveness property holds merely because the model stops. Callers are not made
  symmetric, as liveness is checked in the same run.
- **SharedAgg.** With -8..7 the values -8, 1 and 7 leave the word upwards and downwards, come back,
  and meet at zero; two rows per worker let both workers widen the same entry; three keys against a
  budget of two make the budget bite, and a key too long fails one worker in the middle of a batch.
  The high limb, an `i64` in the code, has a range of its own (`HiHalf`, 8 here), and a query of one sum
  keeps its promise over fewer rows than that (`RowsFit`: 2^63 in the code). `FlushRows = 2` makes a flush happen in
  the middle of a batch as well as at its end.
- **Seam.** Three blocks let two seals run under one query, with block 0 sealed or not (nothing sealed
  is not block zero), and rows above, at and below the watermark in one snapshot. `AtomicInstall` is
  FALSE in the run: it has every behaviour of the atomic case and those with torn files.
- **Doubles.** Four significant bits in buckets of two orders put a significand in up to three
  buckets, the third row moves a group from its inline values to buckets, a far exponent from two
  buckets to all of them, and `Limit` lies low enough for a bucket to be carried before it is reached.
  The rounding is compared with a definition of "nearest, ties to even" for every integer up to 1200.
  The symmetry of the run is that of the partial aggregates, which no property names.
- **FoldPool.** Two threads suffice for a thread that waits under work of another query while the
  other thread runs the rest of its own; three queries against width 2 give one that is cancelled in
  front of the gate. Morsels of equal length and of unequal length give groups that close early and
  a remainder. `MinBatch`/`MaxBatch` stand for 4096 and `MORSEL_ROWS`. `MaxBeyond` bounds a history
  counter, above the one morsel it is compared with. Thread symmetry is used in the safety run only.
- **HostCatalog.** One relation has four names (its own and the hidden parts), bound and unbound
  in every order; the nest makes it start as a view over a hidden part. The second body shares a
  column with the first and has one named like the relation, so the counts go above one and a name
  stays while either carrier does. Several relations at once are left to the proofs, which have any number.
- **Depth.** Each probe, at, just under and over a bound, stands in every place of a statement a walk
  can forget: items, joins, CTEs, `VALUES`, window frames, pipes, `INSERT`, `EXPLAIN`, both sides of a set
  operation. The reference recurses over the tree and knows nothing of the work list.
- **Subqueries.** `IN`, `NOT IN` and `EXISTS`, in `WHERE`, in items, in `HAVING` and inside aggregates,
  correlated or not, and names that repeat in every kind of `FROM`, over tables that are empty or have
  NULLs. Ten texts may be refused by DataFusion; the others must be answered, as DuckDB answers them.
- **Statement.** A channel of one and a gate of one make every wait of the code reachable: a producer at
  the full channel, a consumer that refused the last batch, a call in line behind an endless one. The
  shapes are one batch a scan, the same failing, holding back, endless and streaming, endless and silent.
- **Sharing.** Two layers let a reader of the outer wait for itself through the inner one if a plan
  were published wrongly; two rewrites let a rule's plan be thrown away after it was published.
- **Operators.** Joins have equal bounds, NULLs on either side and right rows with no match; the output
  bound of two cuts inside the matches of one row. Scans have bounds published between any two row
  groups. Sums are at the ends of their types, so that every running sum leaves them and comes back.
- **Plans.** Two rows an outer table and two an inner one are the least with a tie, a duplicate key, a
  NULL and an unmatched row at once; cases with three rows separate "the latest" from "the other one".
  Each rule has cases it must change and near misses it must leave.

Deadlock is not checked where the system really stops: a fold, a pool, a statement's plan or an
operator that has answered. Gate, Statement and Sharing are checked for it (an `Idle` or `Over` step
stands for a system in which everything has ended).

### Fairness

- `PollingSpec` (Gate): weak fairness of `Wake` for every caller, which the wait with a timeout of
  2 ms justifies: a waiter looks again whether or not it is notified. Nothing is assumed of holders
  and nothing of cancellation; that holders leave is the *premise* of `NoStarvation`, and
  `CancelIsPrompt` does without it.
- `FairSpec` (SharedAgg): each worker takes its next step, being a closure on a pool thread; and the
  fold takes up what they leave.
- `FairSpec` (FoldPool): *some* thread of the pool runs while any has something to run, and the
  callers are let in eventually (which is what the gate's properties say). No fairness per thread is
  needed, and none of cancellation or of the clock.
- `Fairness` (Statement): the thread of each call, the host's thread at its channel and each scan's task
  run. Nobody need call, cancel or clear the token; `StatementsEnd` says what follows if the token
  stays set, or if nothing endless is ahead.
- `Fairness` (Sharing): the statement is executed, and the runtime polls every reader. No computation
  need fail, and no reader need be dropped.
- `MCOperators`: each partition of a range join is polled.

## Proofs

Every theorem is for all values of the constants under the named assumption of its module
(`GateAssumption`, `WordsAssumption`, ...), which TLC evaluates in the runs. They ask that what a
deployment has finitely many of is finite (callers, threads, queries, keys, workers, scans), that numbers
are numbers, and what the code guarantees: a width of at least one, `MIN_BATCH` no larger than the largest
batch. Three say what a placeholder is not: `"gap"` is no caller, `Unread` no reader, and a plan that fails
has something to read first or never ends. Each inductive invariant was checked by TLC before it was proved.

**Gate** (`GateProofs`). Any finite set of callers, any width, any number of tickets.

- `Typing`, `TicketsAccounted`: `Counted` = types and "tickets handed out = released + waiting +
  inside" is inductive as it stands; each action moves one caller between two of the three.
- `LineOrdered` (`Ordered`): no two waiters share a ticket and every ticket between the window and `next`
  is held by a waiter or was given up; needs types only.
- `SlotsAccounted`: slots in use plus those whose turn has come are exactly what the window covers. A
  forfeit moves the window by one and takes away a ticket that may lie inside or outside it; lemma
  `GiveUpKeepsSlots` splits that. Its strengthening is `SlotInv`.
- `OccupancyBounded`: from the above, at most the width plus the tickets given up early are inside.
  `SlotsKept` (`Slots`) is the four together.
- `WidthWithoutForfeits`: the documented width, as long as nobody has given up.
- `GateIsLine` (`LineRefined`): the gate implements `AdmissionLine`. Under the mapping the line is what
  stands at the tickets from the window on. `LineHeld` and `QueueShaped` say in which order; one lemma per
  way through the code (`AtOnceStep`, `WaitStep`, `AdmitStep`, `DepartStep`, `GiveUpStep`,
  `ArriveGoneStep`) names the step of the line it is. The hard ones are those that move the window: the
  head of the line is called, or the gap of somebody who gave up is closed.

**Words** (`SharedAggProofs`). Any word width: `WidenKeepsValue`, `WideAddExact` (sign and carry both
reach the high limb) and `FinalSumExact` (a number exactly when it fits). The accumulator exists for
these facts, and the theorems about SharedAgg rest on them.

**SharedAgg** (`SharedAggProofs`). Any workers, keys, partitions, rows, sums and widths of a word. `IInv`
has seven parts; the last four carry the theorems.

- `BufferInv`: a buffer is empty before a batch, after a flush and when its worker is done, and during a
  flush holds nothing of a partition it has passed. Without it a row could be left behind.
- `RowsAreConserved` (`RowsConserved`): until a sum overflows, what a group holds is the sum of
  the rows that have left the buffers (`SumsInv`). A flush adds a run row by row: `AddedKeeps` is an
  induction over it, `RowAdded` its step, one lemma for each of `Insert`, `AddInline` and `AddExtra`.
  `SumAdds`, from the definition of the community modules' fold (`SumIs`, `SumChange`), moves one row from
  the buffers into a sum.
- `BudgetIsKept` (`BudgetKept`): a counter is behind its table only until the flush that changed it is over
  or has spilled (`PublishedInv`); while the tables are over the budget somebody has failed or has a check
  before it (`BudgetInv`), so that nobody can be the last to finish.
- `AnswersAreHonest` (`AnswerHonest`): when all are done every row is counted (`AllCounted`), so that the
  answer's sums are the exact ones. With one sum and fewer rows than the high limb counts, the two-limb
  accumulator never spills (`SpillInv`: what a group holds is at most its rows times a word), so that a
  refusal is `FinalSum`'s, for an answer that does not fit.

**Seam** (`SeamProofs`). Any rows, tables, blocks and plan.

- `SealingKeepsRowsOnce` (`SealedOnce`): `NestInv`, five named parts. Two segments of one table never
  share a row, a segment's rows lie below its upper block, and each row indexed lies on its side of the
  watermark, or is in a segment being sealed. `SealedOnce` alone is not inductive: it says nothing of
  segments already written while the watermark has not moved.
- `Cor1` (`CoherentAnswer`): for a plan the hot half agrees with (`BalanceSheet`: reads every table, no
  strict cast, one credit and one debit per row). `QueryInv` says what the snapshot and the listings
  promise while the indexer goes on: the rows committed then are in the snapshot or at or below its
  watermark, and those are in every listing, each in one segment. Torn files and rows delivered again
  are covered; the proof makes no use of atomic installation.
- `RefusalsHonest` (`RefusalHonest`), for every plan: `TipInv` adds that a row of the tip at or below the
  watermark was delivered again, which is the one cause of a refusal at the seam.

**Floating sums** (`SeamProofs`, its second half). Any format of doubles with a bit of fraction and two finite
exponents, any size of buckets, values, partial aggregates, groups, rows, limit (not less than two values, as
`exact_mut` has it) and interval of range checks.

- `FloatsAreKept` (`FloatsKept`): until an update is refused, what a group's slot points to stands for the
  values it was given: the total in units, the count of each special, the number of values. `FloatsKept` is
  not inductive: it does not say that an empty inline slot holds no units, without which promoting a sum may
  lose some, nor that a window has one group, without which rows could be taken back that were never given.
  `FInv` has three parts: every partial aggregate is in order, refused or not (`Kept`: the parts of each sum as
  `Sound` has them, every slot with a place of its own and every place with a slot, the promoted counted);
  what was fed is what stands, in few groups and within range (`Standing`); and a window has one group, with as
  many values as its frame (`Framed`).
- A sum in order is one function of its buckets, whatever slots it lies in (`Entries`). So there is one lemma
  for each way a value gets in (`IntoSlot`, `Promoted`, `BucketSlow`, `AddUnits`, `RowInto`), which changes one
  bucket, and `Total` changes by that much. A double's units are its bucket's units at the bucket's order, since
  powers of two add up (`Two`): no bit is lost on the way in. A batch and a merged state are inductions over the
  buckets that are poured.
- Unchecked rows raise a bucket by at most `MaxUnits` each, so that it is within `Far` of the limit; a merged
  or retracted total that is past the limit is refused. That two values cannot be refused is what lets
  `exact_mut` use `expect`.
- Partial emission renumbers: `Rank` is a bijection from the slots kept to the places kept (`PlacesKept`),
  so that nothing is shared or lost (`AfterTakingKeeps`), for both halves of the slots.

**FoldPool** (`FoldPoolProofs`). Any threads, queries, footers, lengths of morsels and widths.

- Slices: `CutsAre` (an induction over the loop of `coalesce`), `SlicesApart` and `SliceOf`: every
  morsel is in exactly one slice; `SlicesFew`: a query that shares the pool has at most twice its share.
- `PoolKept` (`PoolInv`): `StackInv` (under a thread's innermost frame are only roots that wait, and a
  query has one root in the whole pool), `QueueInv` (a query let in has one job, queued or running),
  `TaskInv` (a task belongs to a root that waits for it), `FoldInv` (a morsel is folded once, or one batch
  has it before it, or its query failed), `ShareInv`. The frames of other queries that a thread takes up
  while it waits are why a root must be found anywhere on any stack; `PushKeeps`, `PopKeeps` and
  `ReplaceKeeps` say what the three ways to change a stack leave of it.
- `StopsWithinAMorselEach` (`OneMoreMorselEach`): between a batch's look at the token and the end of its
  morsel anything may happen, so the bound says nothing by itself of the next step. `StopInv` is what
  is kept: a thread that has folded one morsel too many of a query is not past the check of another of it, and
  none has folded one while the query may still go on. It rests on a token that is never cleared and on a
  clock that does not run back (`StaysStopped`), and on who runs a task (`OthersRunOn`).

**HostCatalog** (`HostCatalogProofs`). Any relations, bodies and columns.

- `KnownStaysCurrent` (`KnownIsCurrent`): `Renamed` turns the counts of the old tables into those of the
  new ones; `CountedApart` counts the carriers of an identifier among the names that change and those
  that do not. The invariant also needs that a transaction saves only names, or a rollback could rename
  others.
- `TransactionsCanUndo` (`CanUndo`), `RollbackUndoes`: the undo map is right for every name that no
  registration has touched since the transaction began, and a rollback puts those back.

**Statement** (`StatementProofs`). Any calls, scans, plans, channel and gate.

- `StatementsKept` (`StatementInv`), with `AnswersAreWhole` for its last part: `CallInv` speaks of one call whatever the
  others do, which is why one lemma per stretch of the code suffices (`EnterKeeps`, `PollKeeps`,
  `SendKeeps`, ...). `NothingLost` is its heart: batches handed on, in hand, in the channel and ready,
  with those the scans have still to read, are the batches of the plan; `Heard` bounds what a callback may
  still get once the token is set by what has passed the check.

**Sharing** (`SharingProofs`). Any subqueries, readers and nesting.

- `CellKept` (`CellInv`): needs that nothing runs while the rules do (`QuietRules`), that what is published
  afterwards is the plan they kept, and that a holder reads the subquery it holds.
- `SharingIsOnce` (`OneAnswer`): every step is a step or a stutter of `OnceAnswer`; readers that leave
  take nothing with them that somebody else needs (`GoneIsClosed`).

**Operators** (`OperatorsProofs`).

- `StreamsAreCharged` (`HeldInv`), for any number of streams, inputs, pool and batch size. `StreamInv` speaks of
  one stream, so that there is one lemma per step (`WindowTakesKeeps`, `EmitKeeps`, ...), and `OneStreamMoves`
  puts it back among the others. Rows handed on, ready, pending and not taken yet are those of the input
  (`RowsKept`), and as long as more may follow every batch so far is full or has reached its bound
  (`CutKept`, `GatherKept`). `FullAndRest` and `SlicesCut` say that the two ways to cut lose nothing, for
  any batch size; they rest on sums over sequences (`SumStep`, `SumShift`, `SumOfEqual`).
- `SkippingChangesNoAnswer` (`SkipsNothingNeeded`), for any join, build side, conditions and row groups: a
  published filter is the extremes of the whole build side, so that a row of a skipped group pairs with
  nothing (`SkippedIsUnpaired`), and `BoundsTaken` asks that the join type drops such rows.
- `JoinIsNestedLoop` (`JoinInv`), for any inputs, filter, partitions and sizes of a call. The inductive
  invariant, `JoinStrong`, has three parts. What is built is one of `Orders` with its suffix minima
  (`BuildsShape`, `LeastFrom`: at or after a place there is a least upper bound). While a row is searched,
  every candidate left of `lo` fails the lower bound and every one from `hi` on meets it, so that what is
  found is the first (`BoundsInOrder`). And the rows handed on are those of the rows before the cursor and,
  of the cursor's own, those of the candidates before its place, each once and in order; a pause changes
  none of that, as the cursor keeps the place. `ScanOver` is why a scan may end at a suffix minimum,
  `CandidatesMatch` and `TurnedHolds` why a candidate that meets both bounds matches the filter as it was
  written. `JoinMoves` has one lemma per step of the loop.

### Only model-checked

- Liveness (`NoStarvation`, `CancelIsPrompt`, `Ends`, `EveryQueryEnds`, `StatementsEnd`, `EveryReaderEnds`,
  `JoinEnds`): fairness and ENABLED are out of the prover's reach.
- `AnswerKept`, `ShapeKept`, `PlannedMeans`, `ArithmeticRefuses`, `PageAnswered`, `SubqueriesMean`, `BoundsKept`:
  plans, statements and their evaluation are recursive over trees, and induction over data needs a
  predicate as a parameter, which no installed prover takes. (Where the data is a natural number or a finite
  set it can be had for a *set* of numbers, from the well-foundedness of `<`: lemma `ByInduction`.)
- `FloatsExact`: that the buckets hold the exact total is proved, and so is all that happens to them; what
  only TLC checks is the one rounding of it (`Value`, `Plus`), whose bit lengths and limbs are quotients by powers
  of two, nonlinear arithmetic that the provers cannot do. `SumsExact`, `ArithmeticExact`, `TextsRead`,
  `ConstantsMove`: the same, over sequences of limbs and digits.
- `ListAnswer`: `OrderedAgg` selects and sorts entries with `SelectSeq` and `SortSeq`, of which the provers know
  nothing and no library theorem says anything. Enumerating the entries by their rank instead can be reasoned
  about, but on the bounds of `MCOperators` TLC does not finish it within the time of a run.

## Where the code and its words part

Two runs end with a counterexample.

1. **A dropped `WHERE`** (`MCPlansDropped`). `plan.rs` asks for a `WHERE` only of the arms; the outer
   query's is never looked at, so that a statement with one is planned without it and answers every
   group. `plan.rs:870-873` says that quietly dropping a clause is what must not happen. In the same
   way a derived table's `LIMIT` is dropped, `sum_argument` does not look at a sum's `FILTER`, and an outer
   key may be any expression, as only the first one's alias is compared (`plan.rs:267-271`): the run has a
   query of each (`Overlooked`), any of which breaks the property, and `PlannedMeans` leaves out exactly these
   (`PassedOver`). Read in the code but in no query: a derived table's `ORDER BY` and `WITH`, and the clauses
   of a parenthesised outer query.
2. **A captured operand** (`MCCaptured`). `movable` collects the aliases of a `FROM`'s own tables, not
   those of a parenthesised join, so that an operand may move under a relation of its own qualifier and
   is read as that relation's column (`subqueries.rs:531-553`).

Seen while modelling, each kept out of the cases of the runs or allowed for by a property where named:

- *Gate.* A waiter that gives up behind the head counts as released though no holder left, so the head is
  called early and one more than the width is inside, against "at most `capacity`" (`gate.rs:20-22`, `:91`).
  `Occupancy`, proved, is the bound that does hold. A waiter of the engine waits without a token.
- *Later sums.* The first sum of a group refuses only for its answer, as `agg.rs:214-216` says; the
  second and later ones are one checked addition per row (`:152`) and refuse for a partial sum, in some
  orders of the rows. `OneSumRefusedForTheAnswer` is what holds. A sum of which nothing was read is 0
  beside another sum, where SQL has NULL.
- *Plans over two tables.* The hot half adds each row of the tip to its credit party and takes it from
  its debit party whatever the arms say (`signed_fold.rs:231`). Plans for which that is the same are
  `BalanceSheet`, and `Cor1` is proved for those.
- *Stopping within a morsel.* The delay is said to be bounded "by one morsel"; it is one more morsel for each
  thread that was past the check (`OneMoreMorselEach`), and the thread that has to return may meanwhile have
  taken up another query's root (`signed_fold.rs:33-36`, `:195`).
- *Rollback.* `register_facts` inside a transaction drops its hidden parts through `drop_relation`, which
  saves them as bound before; the rollback binds them again (`host.rs:212`, `tables.rs:86`). One that fails
  after its first part leaves the hidden names registered. `refuse_replacing_a_table` recognises only an
  in-memory table.
- *`information_schema`.* Its rows are forgotten by registrations only (`tables.rs:45`).
- *Empty and unmatched.* `SELECT count(DISTINCT x), count(*)` of an empty table answers NULL for the second
  once counted in two levels (`distinct.rs:61`); a latest row over the NULL side of a left join counts that
  row (`latest.rs:201`, `:302`).
- *Depth.* The check is said to come before any visitor (`dialect.rs:713-715`), but two walks of `parse`
  precede it. `MINUS` is not among the set operations counted before parsing; the walk's own bound catches it.
- *Checked rule.* `rule.rs:9-10` says that a sum of a TRY_CAST is rewritten to sum the source exactly; only
  a HUGEINT of a text is, and other casts are summed as cast. A text beyond `i128` is dropped, as in
  DuckDB. A union of a HUGEINT arm with another sums the casts, and taint does not enter a scalar subquery. A
  guard of a tainted column does not refuse a text that is no number, where the cast in place does.
- *Shifts.* One of two signs keeps the left side's type where DuckDB's is HUGEINT, as `checked.rs:734` says.
- *Sharing.* Nothing keeps a repeat inside a recursive term from being shared, though `narrow.rs:68-69` says
  that nothing in one is computed once for the statement.
- *Constants.* A product with -1 compared with the least value of its type is answered false, though the
  doc leaves it alone.
- *Native fold.* `ORDER BY` the first part of a composite key sorts by length-prefixed bytes; a node over one key
  declares its rows sorted though the key may be an integer; `DECIMAL(38, 0)` is read as a whole `i128`.
- *Subqueries.* Names in a `WITH RECURSIVE` are all left alone; an operand of a query two levels out is
  qualified by the single relation and refused; a column-alias list that repeats a column is refused by
  DataFusion; a predicate inside an aggregate in `HAVING` over several tables is counted per row.

## What is not modelled

- SQL parsing and the reach analysis of `inspect.rs` and `walk.rs`: walks that keep a set of names, no state
  between calls.
- The dialect's expression rewrites, value-level functions, formatting and messages: some hundreds, each
  without state, whose definition is DuckDB's.
- Parquet decoding, projection, statistics pruning, cutting one row group at `MORSEL_ROWS`.
- The choice of operators by statistics (`smallinputs.rs`, `buildside.rs`, `joinfilters.rs`,
  `topkfilter.rs`, `encode.rs`): it changes how, not what, and its inputs are DataFusion's estimates.
- `max_rows` and `max_bytes`: tested once after the fold.
- Poisoned locks and panics, apart from a `Pass` dropped by unwinding, which is `Leave`.
- DataFusion itself, except as far as `Plans` says what a plan answers and what can be planned; `generated/`.
- The bench harness.
- Crashes: neither layer persists anything; segments and the manifest are the indexer's.

## Plan

Done: the owned operator (Gate, Words, SharedAgg, Seam, FoldPool, SignedFold, FoldPlanner); the engine's
names, statements, guards and subqueries; the plan rules and the fold's; checked arithmetic; sharing and
narrowed pages; the operators. Proved: every safety property and both refinements of Gate, Seam, SharedAgg,
FoldPool, HostCatalog, Statement, Sharing, HeldInput, RangeBounds and RangeJoin; of FloatSum, all but its rounding.

Next modules: the choice of held inputs (`smallinputs.rs`) and of the build side (`buildside.rs`,
`joinfilters.rs`) as rules over physical plans; the filter a top-k hands its scan (`topkfilter.rs`); the reach
analysis (`inspect.rs`) against a recursive definition, as `Depth` does it; `bound_segments` in HostCatalog.
