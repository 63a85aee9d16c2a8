------------------------------ MODULE OrderedAgg ------------------------------
(***************************************************************************)
(* `array_agg(x ORDER BY k)` of groups (src/df/ordered_agg.rs).  Values    *)
(* stay in the batches they came in; a kept row is an entry that points    *)
(* into one, and the entries of the groups that are emitted are sorted     *)
(* then.  The batches go once nothing points into them.                    *)
(***************************************************************************)
EXTENDS Integers, Sequences, FiniteSets, SequencesExt

CONSTANTS
  ListParts,   \* partial aggregates
  ListBatches, \* batches of input rows: group, key, value, whether a filter passes it
  MaxListRows  \* bounds the rows fed

VARIABLE lists

NullValue == "null"
Empty == [values |-> <<>>, entries |-> <<>>, groups |-> 0]

ListInit ==
  \E nulls \in BOOLEAN :
    lists = [ignoreNulls |-> nulls, rows |-> 0,
             acc |-> [p \in ListParts |-> Empty],
             \* What each group was given, in the order it came.
             fed |-> [p \in ListParts |-> <<>>]]

Kept(row) == row.filter /\ ~(lists.ignoreNulls /\ row.value = NullValue)

Push(a, values) == [a EXCEPT !.values = Append(@, values)]
MaxOf(x, y) == IF x > y THEN x ELSE y

\* Entries of batch b for the rows or items that are kept.
Pointing(b, S, Keep(_)) ==
  FoldLeft(LAMBDA t, i : IF Keep(S[i]) THEN Append(t, [g |-> S[i].group, b |-> b, r |-> i]) ELSE t,
           <<>>, [i \in DOMAIN S |-> i])

Item(a, e) == a.values[e.b][e.r]

\* By group, then key, arrival breaking ties.
Sorted(a, E) ==
  SortSeq([i \in DOMAIN E |-> [e |-> E[i], at |-> i]],
          LAMBDA x, y : LET kx == Item(a, x.e).key  ky == Item(a, y.e).key IN
            \/ x.e.g < y.e.g
            \/ x.e.g = y.e.g /\ kx < ky
            \/ x.e.g = y.e.g /\ kx = ky /\ x.at < y.at)

\* The list of each of the first n groups, NULL (no sequence) where one kept nothing.
Lists(a, n) ==
  LET taken == Sorted(a, SelectSeq(a.entries, LAMBDA e : e.g <= n))
      of(g) == SelectSeq(taken, LAMBDA x : x.e.g = g)
  IN [g \in 1..n |-> [i \in DOMAIN of(g) |-> Item(a, of(g)[i].e)]]

AfterReleasing(a, n) ==
  LET kept == SelectSeq(a.entries, LAMBDA e : e.g > n)
  IN [a EXCEPT !.entries = [i \in DOMAIN kept |-> [kept[i] EXCEPT !.g = @ - n]],
               !.groups = @ - n, !.values = IF n > 0 THEN <<>> ELSE @]

\* What is left behind is renumbered; batches nothing points into go.
After(a, n) ==
  LET kept == SelectSeq(a.entries, LAMBDA e : e.g > n)
      b == [a EXCEPT !.entries = [i \in DOMAIN kept |-> [kept[i] EXCEPT !.g = @ - n]],
                     !.groups = @ - n]
  IN IF b.entries = <<>> THEN [b EXCEPT !.values = <<>>] ELSE b

GrownTo(f, n) == f \o [g \in 1..MaxOf(0, n - Len(f)) |-> <<>>]

\* p takes a batch, whose values, or some of them, it keeps.
TakeBatch(p, batch, values, Keep(_)) ==
  LET a == Push(lists.acc[p], values)
      groups == MaxOf(a.groups, FoldLeft(LAMBDA n, r : MaxOf(n, r.group), 0, batch))
      fed == FoldLeft(LAMBDA f, r : IF Kept(r) THEN [f EXCEPT ![r.group] = Append(@, r)] ELSE f,
                      GrownTo(lists.fed[p], groups), batch)
  IN /\ lists.rows + Len(batch) <= MaxListRows
     /\ lists' = [lists EXCEPT !.rows = @ + Len(batch),
          !.acc[p] = [a EXCEPT !.groups = groups,
                               !.entries = @ \o Pointing(Len(a.values), values, Keep)],
          !.fed[p] = fed]

Always(r) == TRUE

UpdateLists(p, batch) == TakeBatch(p, batch, batch, Kept)

\* A batch that goes by the partial aggregates: each row a state of its own, a list
\* of the one value or NULL, merged into p.
ConvertLists(p, batch) == TakeBatch(p, batch, SelectSeq(batch, Kept), Always)

\* The first n groups of q are emitted as state, and merged into p: one batch
\* of the items of all its lists, a NULL list skipped.
StateItems(L) ==
  FoldLeft(LAMBDA t, g : t \o [i \in DOMAIN L[g] |-> [L[g][i] EXCEPT !.group = g]],
           <<>>, [g \in DOMAIN L |-> g])

MergeLists(p, q, n) ==
  LET L == Lists(lists.acc[q], n)  items == StateItems(L)  a == Push(lists.acc[p], items)
      groups == MaxOf(a.groups, n)
      fed == GrownTo(lists.fed[p], groups)
  IN /\ p # q /\ n \in 1..lists.acc[q].groups
     /\ lists' = [lists EXCEPT
          !.acc = [x \in ListParts |->
                     IF x = p THEN [a EXCEPT !.groups = groups,
                                      !.entries = @ \o Pointing(Len(a.values), items, Always)]
                     ELSE IF x = q THEN After(lists.acc[q], n) ELSE lists.acc[x]],
          !.fed = [x \in ListParts |->
                     IF x = p THEN [g \in DOMAIN fed |-> IF g <= n THEN fed[g] \o L[g] ELSE fed[g]]
                     ELSE IF x = q THEN SubSeq(lists.fed[q], n + 1, Len(lists.fed[q]))
                     ELSE lists.fed[x]]]

ListNext ==
  \/ \E p \in ListParts, b \in ListBatches : UpdateLists(p, b) \/ ConvertLists(p, b)
  \/ \E p, q \in ListParts, n \in 1..MaxListRows : MergeLists(p, q, n)

-----------------------------------------------------------------------------
StableByKey(S) ==
  LET T == SortSeq([i \in DOMAIN S |-> <<S[i], i>>],
             LAMBDA x, y : x[1].key < y[1].key \/ (x[1].key = y[1].key /\ x[2] < y[2]))
  IN [i \in DOMAIN S |-> T[i][1].value]

(* Whenever a group is emitted, in whatever parts it was fed, emitted and  *)
(* merged, its list holds what it was given, in the order of the keys and, *)
(* between equal keys, of arrival; no entry points into a batch that went. *)
ListsInOrder ==
  \A p \in ListParts : LET a == lists.acc[p]  L == Lists(a, a.groups) IN
    /\ \A i \in DOMAIN a.entries : a.entries[i].b \in DOMAIN a.values
    /\ a.groups = Len(lists.fed[p])
    /\ \A g \in 1..a.groups : [i \in DOMAIN L[g] |-> L[g][i].value] = StableByKey(lists.fed[p][g])
=============================================================================
