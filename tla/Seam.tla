--------------------------------- MODULE Seam ---------------------------------
(***************************************************************************)
(* The hot/cold seam (src/seam.rs, src/segment.rs, the query path in       *)
(* src/lib.rs and the two halves of the fold in src/exec/signed_fold.rs).  *)
(* An indexer keeps appending rows to the hot tip; when a range of blocks  *)
(* is final it writes the range into segments and then advances the        *)
(* watermark and prunes the tip in one step.  A query reads the tip once   *)
(* and the directory later, while all of that goes on.                     *)
(*                                                                         *)
(* A value is only how it parses.  What a fold made of a row is how often, *)
(* and with which sign, the row was added to each of its two parties.      *)
(***************************************************************************)
EXTENDS Integers, Sequences, FiniteSets

CONSTANTS
  Tables,         \* the tables of the nest
  Rows,           \* every row there will ever be
  MaxBlock,       \* bound: the last block
  Branches,       \* the plan: a sequence of Branch
  AtomicInstall,  \* the indexer renames a finished segment into place
  Redelivered     \* the rows the indexer may put back into the tip once sealed

Roles == {"credit", "debit"}

\* One arm of the plan's UNION ALL: its key is one of the row's parties.
Branch == [table : Tables, key : Roles, negated : BOOLEAN, strict_cast : BOOLEAN]

\* How the text of a value reads: an integer, SQL NULL, a text that looks like no
\* number, or one that looks like a number and is no canonical integer.
Kinds == {"int", "null", "word", "digits"}

ASSUME SeamAssumption ==
  /\ MaxBlock \in Nat
  /\ IsFiniteSet(Rows)
  /\ \A r \in Rows : r.table \in Tables /\ r.block \in 0..MaxBlock /\ r.kind \in Kinds
  /\ Branches \in Seq(Branch) /\ Branches # <<>>
  /\ AtomicInstall \in BOOLEAN /\ Redelivered \subseteq Rows

\* HotSnapshot::sealed_through before anything is sealed; not block zero.
NothingSealed == -1

VARIABLES
  indexed,        \* history: every row appended so far
  hot,            \* MemoryTip: the unsealed rows,
  sealedThrough,  \* ... and the watermark
  dir,            \* the segments in the directory: [table, upto, rows]
  torn,           \* those still being written
  sealing,        \* the block the indexer is sealing through, or NothingSealed
  pc,             \* the query: "idle", "list", "footers", "fold", "done"
  snap,           \* its HotSnapshot
  committed,      \* history: the rows there were when it took the snapshot
  listed,         \* the segments each branch resolved to
  result          \* its outcome, and how often each row went to each party

tipVars == <<indexed, hot, sealedThrough>>
queryVars == <<pc, snap, committed, listed, result>>
vars == <<indexed, hot, sealedThrough, dir, torn, sealing, queryVars>>

NoCount == [r \in Rows |-> [k \in Roles |-> 0]]
NoSnap == [rows |-> {}, sealedThrough |-> NothingSealed]

Init ==
  /\ indexed = {} /\ hot = {} /\ sealedThrough = NothingSealed
  /\ dir = {} /\ torn = {} /\ sealing = NothingSealed
  /\ pc = "idle" /\ snap = NoSnap /\ committed = {}
  /\ listed = <<>>
  /\ result = [outcome |-> "none", count |-> NoCount]

-----------------------------------------------------------------------------
(* The indexer. *)

\* MemoryTip::append, of a new row in a block that is not being sealed.
AppendRow(r) ==
  /\ r \notin indexed
  /\ r.block > sealedThrough /\ r.block > sealing
  /\ hot' = hot \cup {r}
  /\ indexed' = indexed \cup {r}
  /\ UNCHANGED <<sealedThrough, dir, torn, sealing, queryVars>>

\* MemoryTip::append, of a row that has been sealed already.
Reappend(r) ==
  /\ r \in Redelivered
  /\ r \in indexed \ hot
  /\ hot' = hot \cup {r}
  /\ UNCHANGED <<indexed, sealedThrough, dir, torn, sealing, queryVars>>

\* The blocks up to b are final: the indexer starts sealing them.
StartSeal(b) ==
  /\ sealing = NothingSealed
  /\ b > sealedThrough
  /\ sealing' = b
  /\ UNCHANGED <<tipVars, dir, torn, queryVars>>

Segment(t) ==
  [table |-> t, upto |-> sealing,
   rows |-> {r \in indexed : r.table = t /\ r.block > sealedThrough /\ r.block <= sealing}]

\* The rows of one table in that range go to a segment of their own.
WriteSegment(t) ==
  /\ sealing # NothingSealed
  /\ Segment(t) \notin dir
  /\ dir' = dir \cup {Segment(t)}
  /\ torn' = IF AtomicInstall THEN torn ELSE torn \cup {Segment(t)}
  /\ UNCHANGED <<tipVars, sealing, queryVars>>

FinishSegment(s) ==
  /\ s \in torn
  /\ torn' = torn \ {s}
  /\ UNCHANGED <<tipVars, dir, sealing, queryVars>>

\* Mutants: before every segment is there; with the watermark one block too far.
SealThroughEarly ==
  /\ sealing # NothingSealed
  /\ sealedThrough' = sealing
  /\ hot' = {r \in hot : r.block > sealing}
  /\ sealing' = NothingSealed
  /\ UNCHANGED <<indexed, dir, torn, queryVars>>

\* MemoryTip::seal_through, once every segment of the range is there: the
\* watermark and the prune under one lock.
SealThrough ==
  /\ sealing # NothingSealed
  /\ torn = {} /\ \A t \in Tables : Segment(t) \in dir
  /\ sealedThrough' = sealing
  /\ hot' = {r \in hot : r.block > sealing}
  /\ sealing' = NothingSealed
  /\ UNCHANGED <<indexed, dir, torn, queryVars>>

-----------------------------------------------------------------------------
(* The query. *)

\* HotTip::snapshot: the watermark and the rows together.
Snapshot ==
  /\ pc \in {"idle", "done"}
  /\ snap' = [rows |-> hot, sealedThrough |-> sealedThrough]
  /\ committed' = indexed
  /\ listed' = <<>>
  /\ result' = [outcome |-> "none", count |-> NoCount]
  /\ pc' = "list"
  /\ UNCHANGED <<tipVars, dir, torn, sealing>>

\* A listing from before the last seal.
ListBranchStale ==
  /\ pc = "list"
  /\ Len(listed) < Len(Branches)
  /\ listed' = Append(listed,
       {s \in dir : s.table = Branches[Len(listed) + 1].table /\ s.upto < snap.sealedThrough})
  /\ pc' = IF Len(listed) + 1 = Len(Branches) THEN "footers" ELSE "list"
  /\ UNCHANGED <<tipVars, dir, torn, sealing, snap, committed, result>>

\* Catalog::resolve and SealedSegments::refresh, branch by branch.
ListBranch ==
  /\ pc = "list"
  /\ Len(listed) < Len(Branches)
  /\ listed' = Append(listed, {s \in dir : s.table = Branches[Len(listed) + 1].table})
  /\ pc' = IF Len(listed) + 1 = Len(Branches) THEN "footers" ELSE "list"
  /\ UNCHANGED <<tipVars, dir, torn, sealing, snap, committed, result>>

\* SignedFoldExec::scans: the branch whose listing a table is read from.
Representative(i) == \A j \in 1..(i - 1) : Branches[j].table # Branches[i].table
Scans == {i \in DOMAIN Branches : Representative(i)}

\* cut_morsels reads every footer; a file still being written has none.
Footers ==
  /\ pc = "footers"
  /\ IF \E i \in Scans : listed[i] \cap torn # {}
     THEN pc' = "done" /\ result' = [outcome |-> "Substrate", count |-> NoCount]
     ELSE pc' = "fold" /\ UNCHANGED result
  /\ UNCHANGED <<tipVars, dir, torn, sealing, snap, committed, listed>>

\* HotSnapshot::check_disjoint.
Disjoint == \A r \in snap.rows : r.block > snap.sealedThrough

\* What the arms of a plan do with one row of their table.
Arms(r, k, neg) ==
  {i \in DOMAIN Branches :
     Branches[i].table = r.table /\ Branches[i].key = k /\ Branches[i].negated = neg}
Folded(r, k) ==
  IF r.kind = "int" THEN Cardinality(Arms(r, k, FALSE)) - Cardinality(Arms(r, k, TRUE)) ELSE 0

StrictArm(r) == \E i \in DOMAIN Branches : Branches[i].table = r.table /\ Branches[i].strict_cast
ColdRefuses(r) == r.kind = "digits" \/ (r.kind = "word" /\ StrictArm(r))

\* The cold half: rows above the watermark are skipped before they are parsed.
ColdUnfiltered(r) == TRUE
BelowWatermark(r) == r.block <= snap.sealedThrough
Holding(r) == {s \in UNION {listed[i] : i \in Scans} : r \in s.rows}
Cold == {r \in Rows : BelowWatermark(r) /\ Holding(r) # {}}

\* The hot half: every row is a credit and a debit, whatever the arms say.
HotFolded(r, k) ==
  IF r \in snap.rows /\ r.kind = "int" THEN (IF k = "credit" THEN 1 ELSE -1) ELSE 0

ColdFolded(r, k) == IF r \in Cold THEN Cardinality(Holding(r)) * Folded(r, k) ELSE 0

Outcome ==
  IF \E r \in Cold : ColdRefuses(r) THEN "NotAllowed"
  ELSE IF ~Disjoint THEN "Seam"
  ELSE IF \E r \in snap.rows : r.kind = "digits" THEN "NotAllowed"
  ELSE "rows"

\* Segments and the snapshot no longer change: both halves are one step.
Fold ==
  /\ pc = "fold"
  /\ pc' = "done"
  /\ result' = [outcome |-> Outcome,
                count |-> IF Outcome = "rows"
                          THEN [r \in Rows |-> [k \in Roles |-> ColdFolded(r, k) + HotFolded(r, k)]]
                          ELSE NoCount]
  /\ UNCHANGED <<tipVars, dir, torn, sealing, snap, committed, listed>>

-----------------------------------------------------------------------------
Indexer ==
  \/ \E r \in Rows : AppendRow(r) \/ Reappend(r)
  \/ \E b \in 0..MaxBlock : StartSeal(b)
  \/ \E t \in Tables : WriteSegment(t)
  \/ \E s \in torn : FinishSegment(s)
  \/ SealThrough

Query == Snapshot \/ ListBranch \/ Footers \/ Fold

Next == Indexer \/ Query

Spec == Init /\ [][Next]_vars

-----------------------------------------------------------------------------
Segments == [table : Tables, upto : 0..MaxBlock, rows : SUBSET Rows]
Watermarks == {NothingSealed} \cup 0..MaxBlock

TypeOK ==
  /\ indexed \subseteq Rows /\ hot \subseteq indexed
  /\ sealedThrough \in Watermarks /\ sealing \in Watermarks
  /\ dir \subseteq Segments /\ torn \subseteq dir
  /\ pc \in {"idle", "list", "footers", "fold", "done"}
  /\ snap \in [rows : SUBSET Rows, sealedThrough : Watermarks]
  /\ committed \subseteq indexed
  /\ listed \in Seq(SUBSET Segments)
  /\ result \in [outcome : {"none", "rows", "NotAllowed", "Seam", "Substrate"},
                 count : [Rows -> [Roles -> Int]]]

\* A plan the hot half agrees with: it reads every table there are rows of,
\* has no strict cast, and credits and debits each row once.
BalanceSheet ==
  \A r \in Rows :
    /\ \E i \in DOMAIN Branches : Branches[i].table = r.table
    /\ ~StrictArm(r)
    /\ r.kind = "int" => Folded(r, "credit") = 1 /\ Folded(r, "debit") = -1

(* COR-1.  An answer is what the plan makes of exactly the rows that were  *)
(* there when the query took its snapshot: none is in neither half, none   *)
(* is in both, none is in two segments, however the indexer appends and    *)
(* seals underneath; and a row the plan refuses is never passed over.      *)
CoherentAnswer ==
  result.outcome = "rows" =>
    /\ \A r \in committed : ~ColdRefuses(r)
    /\ \A r \in Rows, k \in Roles :
         result.count[r][k] = IF r \in committed THEN Folded(r, k) ELSE 0

(* A query is refused for a value only if a row it should count has that   *)
(* value, and for the seam only if a row was delivered again: a row the    *)
(* indexer appends once never meets itself, whatever is sealed meanwhile.  *)
RefusedForCause ==
  /\ result.outcome = "NotAllowed" => \E r \in committed : ColdRefuses(r)
  /\ result.outcome = "Seam" =>
       \E r \in snap.rows \cap Redelivered : r.block <= sealedThrough

(* A refusal has its cause, in a state of its type.                        *)
RefusalHonest == TypeOK /\ RefusedForCause

(* The two halves partition the rows at every instant, not only when a     *)
(* query looks: what is at or below the watermark is whole on disk, once,  *)
(* and what is above it is in the tip.                                     *)
SealedOnce ==
  \A r \in indexed :
    IF r.block <= sealedThrough
    THEN Cardinality({s \in dir \ torn : r \in s.rows}) = 1
    ELSE r \in hot
=============================================================================
