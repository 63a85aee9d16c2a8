------------------------------ MODULE SeamProofs ------------------------------
(***************************************************************************)
(* COR-1 for every nest: any tables, rows, number of blocks, any indexer   *)
(* that seals a range before it advances the watermark, whether or not it  *)
(* installs its segments whole or puts sealed rows back into the tip.      *)
(*                                                                         *)
(* And the sum of doubles, which must not depend on the line either: no    *)
(* unit of any value is lost on its way through slots, buckets, states and *)
(* window frames.                                                          *)
(***************************************************************************)
EXTENDS Seam, FloatSum, TLAPS, FiniteSetTheorems, WellFoundedInduction

(* What the rows carry. *)
LEMMA RowTypes ==
  ASSUME NEW r \in Rows
  PROVE  r.table \in Tables /\ r.block \in Int /\ r.block >= 0 /\ r.kind \in Kinds
  BY SeamAssumption

LEMMA WatermarkTypes ==
  /\ NothingSealed \in Int
  /\ \A w \in Watermarks : w \in Int /\ w >= NothingSealed
  BY SeamAssumption DEF NothingSealed, Watermarks

(* A table that some branch reads has a representative. *)
LEMMA HasRepresentative ==
  ASSUME NEW i \in DOMAIN Branches
  PROVE  \E j \in Scans : Branches[j].table = Branches[i].table
  <1> DEFINE Same == {j \in DOMAIN Branches : Branches[j].table = Branches[i].table}
  <1>1. DOMAIN Branches = 1..Len(Branches) /\ Len(Branches) \in Nat
    BY SeamAssumption
  <1>2. Same \subseteq Nat /\ Same # {}
    BY <1>1
  <1>3. PICK j \in Same : \A k \in Same : ~(<<k, j>> \in OpToRel(<, Nat))
    BY <1>2, NatLessThanWellFounded, WFMin
  <1>4. \A k \in Same : ~(k < j)
    BY <1>2, <1>3 DEF OpToRel
  <1>5. Representative(j)
    <2> SUFFICES ASSUME NEW k \in 1..(j - 1), Branches[k].table = Branches[j].table
                 PROVE  FALSE
      BY DEF Representative
    <2>1. k \in Same BY <1>1
    <2>. QED BY <2>1, <1>2, <1>4
  <1>. QED BY <1>5 DEF Scans

-----------------------------------------------------------------------------
(* The nest: what the indexer keeps true at every instant. *)
NestTypes ==
  /\ indexed \subseteq Rows /\ hot \subseteq indexed
  /\ sealedThrough \in Watermarks /\ sealing \in Watermarks
  /\ sealing # NothingSealed => sealing > sealedThrough
  /\ torn \subseteq dir
  /\ \A s \in dir : s.upto \in Int

\* A segment is of a sealed range, or of the one being sealed.
SegmentKinds ==
  /\ \A s \in dir :
       s.upto > sealedThrough => sealing # NothingSealed /\ s = Segment(s.table)
  /\ \A s \in torn : s.upto > sealedThrough

SegmentRows ==
  \A s \in dir : \A r \in s.rows :
    /\ r \in indexed /\ r.table = s.table
    /\ s.upto <= sealedThrough => r.block <= sealedThrough

SegmentsDisjoint ==
  \A s1, s2 \in dir : \A r \in s1.rows : r \in s2.rows => s1 = s2

Sides ==
  \A r \in indexed :
    IF r.block <= sealedThrough THEN \E s \in dir \ torn : r \in s.rows ELSE r \in hot

NestInv == NestTypes /\ SegmentKinds /\ SegmentRows /\ SegmentsDisjoint /\ Sides

LEMMA NestInit == Init => NestInv
  BY DEF Init, NestInv, NestTypes, SegmentKinds, SegmentRows, SegmentsDisjoint, Sides, Watermarks

LEMMA NestStep == NestInv /\ [Next]_vars => NestInv'
  <1> SUFFICES ASSUME NestInv, [Next]_vars PROVE NestInv'
    OBVIOUS
  <1> USE DEF NestInv
  <1>t. /\ \A r \in indexed : r.block \in Int /\ r.block >= 0 /\ r.table \in Tables
        /\ sealedThrough \in Int /\ sealing \in Int /\ NothingSealed \in Int
        /\ sealedThrough >= NothingSealed /\ sealing >= NothingSealed
    BY RowTypes, WatermarkTypes DEF NestTypes
  <1>1. ASSUME NEW r \in Rows, AppendRow(r) PROVE NestInv'
    <2>0. /\ r.block \in Int /\ r.block > sealedThrough /\ r.block > sealing /\ r \notin indexed
          /\ indexed' = indexed \cup {r} /\ hot' = hot \cup {r}
          /\ UNCHANGED <<sealedThrough, dir, torn, sealing>>
      BY <1>1, RowTypes DEF AppendRow
    <2>1. NestTypes' BY <2>0 DEF NestTypes
    <2>2. \A tab : Segment(tab)' = Segment(tab)
      <3> SUFFICES ASSUME NEW tab
                   PROVE  \A q : q \in indexed \cup {r} /\ q.table = tab
                                   /\ q.block > sealedThrough /\ q.block <= sealing
                            <=> q \in indexed /\ q.table = tab
                                   /\ q.block > sealedThrough /\ q.block <= sealing
        BY <2>0, Zenon DEF Segment
      <3>. QED BY <2>0, <1>t
    <2>3. SegmentKinds' BY <2>0, <2>2 DEF SegmentKinds
    <2>4. SegmentRows' BY <2>0 DEF SegmentRows
    <2>5. SegmentsDisjoint' BY <2>0 DEF SegmentsDisjoint
    <2>6. Sides' BY <2>0, <1>t DEF Sides
    <2>. QED BY <2>1, <2>3, <2>4, <2>5, <2>6
  <1>2. ASSUME NEW r \in Rows, Reappend(r) PROVE NestInv'
    <2>0. hot' = hot \cup {r} /\ r \in indexed /\ UNCHANGED <<indexed, sealedThrough, dir, torn, sealing>>
      BY <1>2 DEF Reappend
    <2>1. \A tab : Segment(tab)' = Segment(tab) BY <2>0 DEF Segment
    <2>2. NestTypes' BY <2>0 DEF NestTypes
    <2>3. SegmentKinds' BY <2>0, <2>1 DEF SegmentKinds
    <2>4. SegmentRows' BY <2>0 DEF SegmentRows
    <2>5. SegmentsDisjoint' BY <2>0 DEF SegmentsDisjoint
    <2>6. Sides' BY <2>0 DEF Sides
    <2>. QED BY <2>2, <2>3, <2>4, <2>5, <2>6
  <1>3. ASSUME NEW b \in 0..MaxBlock, StartSeal(b) PROVE NestInv'
    <2>0. /\ sealing = NothingSealed /\ b > sealedThrough /\ sealing' = b
          /\ UNCHANGED <<indexed, hot, sealedThrough, dir, torn>>
      BY <1>3 DEF StartSeal, tipVars
    <2>1. NestTypes' BY <2>0, SeamAssumption DEF NestTypes, Watermarks
    <2>2. SegmentKinds' BY <2>0 DEF SegmentKinds
    <2>3. SegmentRows' BY <2>0 DEF SegmentRows
    <2>4. SegmentsDisjoint' BY <2>0 DEF SegmentsDisjoint
    <2>5. Sides' BY <2>0 DEF Sides
    <2>. QED BY <2>1, <2>2, <2>3, <2>4, <2>5
  <1>4. ASSUME NEW tab \in Tables, WriteSegment(tab) PROVE NestInv'
    <2>0. /\ sealing # NothingSealed /\ dir' = dir \cup {Segment(tab)}
          /\ torn' \subseteq torn \cup {Segment(tab)} /\ torn \subseteq torn'
          /\ Segment(tab) \notin dir
          /\ UNCHANGED <<indexed, hot, sealedThrough, sealing>>
      BY <1>4 DEF WriteSegment, tipVars
    <2>1. \A x : Segment(x)' = Segment(x) BY <2>0 DEF Segment
    <2>2. /\ Segment(tab).table = tab /\ Segment(tab).upto = sealing
          /\ \A r \in Segment(tab).rows :
               r \in indexed /\ r.table = tab /\ r.block > sealedThrough
      BY DEF Segment
    <2>3. sealing > sealedThrough BY <2>0 DEF NestTypes
    <2>4. NestTypes' BY <2>0, <2>2, <1>t DEF NestTypes
    <2>5. SegmentKinds'
      BY <2>0, <2>1, <2>2, <2>3 DEF SegmentKinds
    <2>6. SegmentRows'
      BY <2>0, <2>2, <2>3, <1>t DEF SegmentRows
    <2>7. \A s \in dir : \A r \in s.rows : r \notin Segment(tab).rows
      <3> SUFFICES ASSUME NEW s \in dir, NEW r \in s.rows, r \in Segment(tab).rows
                   PROVE  FALSE
        OBVIOUS
      <3>1. r.block > sealedThrough /\ r.block \in Int /\ r.table = tab /\ r.table = s.table
        BY <2>2, <1>t DEF SegmentRows
      <3>2. s.upto > sealedThrough
        BY <3>1, <1>t DEF SegmentRows, NestTypes
      <3>3. s = Segment(tab)
        BY <3>1, <3>2 DEF SegmentKinds
      <3>. QED BY <3>3, <2>0
    <2>8. SegmentsDisjoint'
      BY <2>0, <2>7 DEF SegmentsDisjoint
    <2>9. Sides'
      BY <2>0 DEF Sides
    <2>. QED BY <2>4, <2>5, <2>6, <2>8, <2>9
  <1>5. ASSUME NEW s \in torn, FinishSegment(s) PROVE NestInv'
    <2>0. torn' = torn \ {s} /\ UNCHANGED <<indexed, hot, sealedThrough, dir, sealing>>
      BY <1>5 DEF FinishSegment, tipVars
    <2>1. \A tab : Segment(tab)' = Segment(tab) BY <2>0 DEF Segment
    <2>2. NestTypes' BY <2>0 DEF NestTypes
    <2>3. SegmentKinds' BY <2>0, <2>1 DEF SegmentKinds
    <2>4. SegmentRows' BY <2>0 DEF SegmentRows
    <2>5. SegmentsDisjoint' BY <2>0 DEF SegmentsDisjoint
    <2>6. Sides' BY <2>0 DEF Sides
    <2>. QED BY <2>2, <2>3, <2>4, <2>5, <2>6
  <1>6. ASSUME SealThrough PROVE NestInv'
    <2>0. /\ sealing # NothingSealed /\ torn = {} /\ \A tab \in Tables : Segment(tab) \in dir
          /\ sealedThrough' = sealing /\ hot' = {r \in hot : r.block > sealing}
          /\ sealing' = NothingSealed /\ UNCHANGED <<indexed, dir, torn>>
      BY <1>6 DEF SealThrough
    <2>1. sealing > sealedThrough BY <2>0 DEF NestTypes
    <2>2. \A s \in dir : s.upto \in Int /\ s.upto <= sealing
      <3> SUFFICES ASSUME NEW s \in dir, s.upto > sealing PROVE FALSE
        BY <1>t DEF NestTypes
      <3>1. s.upto > sealedThrough BY <2>1, <1>t DEF NestTypes
      <3>2. s.upto = sealing BY <3>1 DEF SegmentKinds, Segment
      <3>. QED BY <3>2, <1>t
    <2>3. NestTypes'
      BY <2>0, <2>2 DEF NestTypes, Watermarks
    <2>4. SegmentKinds'
      BY <2>0, <2>2, <1>t DEF SegmentKinds
    <2>5. \A s \in dir : \A r \in s.rows : r.block <= sealing
      <3> SUFFICES ASSUME NEW s \in dir, NEW r \in s.rows PROVE r.block <= sealing
        OBVIOUS
      <3>1. r.block \in Int /\ s.upto \in Int BY <1>t, <2>2 DEF SegmentRows
      <3>2. CASE s.upto <= sealedThrough
        BY <3>1, <3>2, <2>1, <1>t DEF SegmentRows
      <3>3. CASE s.upto > sealedThrough
        BY <3>3 DEF SegmentKinds, Segment
      <3>. QED BY <3>1, <3>2, <3>3, <1>t
    <2>6. SegmentRows'
      BY <2>0, <2>5 DEF SegmentRows
    <2>7. SegmentsDisjoint' BY <2>0 DEF SegmentsDisjoint
    <2>8. Sides'
      <3> SUFFICES ASSUME NEW r \in indexed
                   PROVE  IF r.block <= sealing
                          THEN \E s \in dir : r \in s.rows
                          ELSE r \in hot /\ r.block > sealing
        BY <2>0 DEF Sides
      <3>1. CASE r.block <= sealedThrough
        BY <3>1, <2>0, <2>1, <1>t DEF Sides
      <3>2. CASE r.block > sealedThrough /\ r.block <= sealing
        <4>1. Segment(r.table) \in dir BY <2>0, <1>t
        <4>2. r \in Segment(r.table).rows BY <3>2 DEF Segment
        <4>. QED BY <4>1, <4>2, <3>2
      <3>3. CASE r.block > sealing
        BY <3>3, <2>1, <1>t DEF Sides
      <3>. QED BY <3>1, <3>2, <3>3, <1>t
    <2>. QED BY <2>3, <2>4, <2>6, <2>7, <2>8
  <1>7. ASSUME Query \/ UNCHANGED vars PROVE NestInv'
    <2>0. UNCHANGED <<indexed, hot, sealedThrough, dir, torn, sealing>>
      BY <1>7 DEF Query, Snapshot, ListBranch, Footers, Fold, vars, tipVars
    <2>1. \A tab : Segment(tab)' = Segment(tab) BY <2>0 DEF Segment
    <2>. QED BY <2>0, <2>1
           DEF NestTypes, SegmentKinds, SegmentRows, SegmentsDisjoint, Sides
  <1>. QED BY <1>1, <1>2, <1>3, <1>4, <1>5, <1>6, <1>7 DEF Next, Indexer

-----------------------------------------------------------------------------
(* The query: what its snapshot and its listings are worth. *)
SnapInv ==
  /\ snap \in [rows : SUBSET Rows, sealedThrough : Watermarks]
  /\ snap.sealedThrough <= sealedThrough
  /\ snap.rows \subseteq committed /\ committed \subseteq indexed
  /\ \A r \in committed : r.block > snap.sealedThrough => r \in snap.rows
  /\ \A r \in indexed \ committed : r.block > snap.sealedThrough

ListInv ==
  /\ listed \in Seq(SUBSET dir) /\ Len(listed) <= Len(Branches)
  /\ pc \in {"footers", "fold"} => Len(listed) = Len(Branches)
  /\ \A i \in DOMAIN listed : \A r \in committed :
       r.block <= snap.sealedThrough /\ r.table = Branches[i].table =>
         \E s \in listed[i] : r \in s.rows

QueryInv == SnapInv /\ ListInv

LEMMA QueryInit == Init => QueryInv
  <1> SUFFICES ASSUME Init PROVE QueryInv
    OBVIOUS
  <1>1. SnapInv BY WatermarkTypes DEF Init, SnapInv, NoSnap, Watermarks
  <1>2. Len(Branches) \in Nat BY SeamAssumption
  <1>3. ListInv BY <1>2 DEF Init, ListInv
  <1>. QED BY <1>1, <1>3 DEF QueryInv

LEMMA QueryStep == NestInv /\ QueryInv /\ [Next]_vars => QueryInv'
  <1> SUFFICES ASSUME NestInv, QueryInv, [Next]_vars PROVE QueryInv'
    OBVIOUS
  <1> USE DEF QueryInv
  <1>t. /\ \A r \in indexed : r.block \in Int /\ r.block >= 0 /\ r.table \in Tables
        /\ sealedThrough \in Int /\ sealing \in Int /\ NothingSealed \in Int
        /\ sealedThrough >= NothingSealed /\ sealing >= NothingSealed
    BY RowTypes, WatermarkTypes DEF NestInv, NestTypes
  <1>b. Len(Branches) \in Nat /\ DOMAIN Branches = 1..Len(Branches) /\ Len(Branches) > 0
    BY SeamAssumption
  <1>s. snap.sealedThrough \in Int
    BY WatermarkTypes DEF SnapInv
  <1>1. ASSUME NEW r \in Rows, AppendRow(r) PROVE QueryInv'
    <2>0. /\ r.block \in Int /\ r.block > sealedThrough /\ r \notin indexed
          /\ indexed' = indexed \cup {r}
          /\ UNCHANGED <<sealedThrough, dir, queryVars>>
      BY <1>1, RowTypes DEF AppendRow
    <2>1. SnapInv' BY <2>0, <1>t, <1>s DEF SnapInv, queryVars
    <2>2. ListInv' BY <2>0 DEF ListInv, queryVars
    <2>. QED BY <2>1, <2>2
  <1>2. ASSUME \/ \E r \in Rows : Reappend(r)
               \/ \E b \in 0..MaxBlock : StartSeal(b)
               \/ \E tab \in Tables : WriteSegment(tab)
               \/ \E s \in torn : FinishSegment(s)
               \/ SealThrough
        PROVE QueryInv'
    <2>1. UNCHANGED <<indexed, queryVars>> /\ dir \subseteq dir'
      BY <1>2 DEF Reappend, StartSeal, WriteSegment, FinishSegment, SealThrough, tipVars
    <2>2. sealedThrough' \in Int /\ sealedThrough' >= sealedThrough
      BY <1>2, <1>t DEF Reappend, StartSeal, WriteSegment, FinishSegment, SealThrough, tipVars,
         NestInv, NestTypes
    <2>3. SnapInv' BY <2>1, <2>2, <1>s, <1>t DEF SnapInv, queryVars
    <2>4. ListInv' BY <2>1 DEF ListInv, queryVars
    <2>. QED BY <2>3, <2>4
  <1>3. ASSUME Snapshot PROVE QueryInv'
    <2>0. /\ snap' = [rows |-> hot, sealedThrough |-> sealedThrough]
          /\ committed' = indexed /\ listed' = <<>> /\ pc' = "list"
          /\ UNCHANGED <<indexed, hot, sealedThrough, dir>>
      BY <1>3 DEF Snapshot, tipVars
    <2>1. \A r \in indexed : r.block > sealedThrough => r \in hot
      BY <1>t DEF NestInv, Sides
    <2>3. hot \subseteq indexed BY DEF NestInv, NestTypes
    <2>4. SnapInv' BY <2>0, <2>1, <2>3, <1>t DEF SnapInv, NestInv, NestTypes
    <2>2. ListInv' BY <2>0, <1>b DEF ListInv
    <2>. QED BY <2>2, <2>4
  <1>4. ASSUME ListBranch PROVE QueryInv'
    <2> DEFINE n == Len(listed) + 1
               new == {s \in dir : s.table = Branches[n].table}
    <2>0. /\ Len(listed) < Len(Branches) /\ listed' = Append(listed, new)
          /\ pc' = IF n = Len(Branches) THEN "footers" ELSE "list"
          /\ UNCHANGED <<indexed, sealedThrough, dir, snap, committed>>
      BY <1>4 DEF ListBranch, tipVars
    <2>1. SnapInv' BY <2>0 DEF SnapInv
    <2>2. /\ listed \in Seq(SUBSET dir) /\ new \in SUBSET dir /\ Len(listed) \in Nat
          /\ listed' \in Seq(SUBSET dir) /\ Len(listed') = n
          /\ \A i \in 1..Len(listed) : listed'[i] = listed[i]
          /\ listed'[n] = new /\ DOMAIN listed' = 1..n /\ DOMAIN listed = 1..Len(listed)
      BY <2>0 DEF ListInv
    <2>3. ASSUME NEW r \in committed, r.block <= snap.sealedThrough, r.table = Branches[n].table
          PROVE  \E s \in new : r \in s.rows
      <3>1. r \in indexed /\ r.block <= sealedThrough
        BY <2>3, <1>s, <1>t DEF SnapInv
      <3>2. PICK s \in dir \ torn : r \in s.rows
        BY <3>1 DEF NestInv, Sides
      <3>3. s.table = r.table BY <3>2 DEF NestInv, SegmentRows
      <3>. QED BY <3>2, <3>3, <2>3
    <2>4. ASSUME NEW i \in DOMAIN listed', NEW r \in committed,
                 r.block <= snap.sealedThrough, r.table = Branches[i].table
          PROVE  \E s \in listed'[i] : r \in s.rows
      <3>1. CASE i = n BY <3>1, <2>2, <2>3, <2>4
      <3>2. CASE i # n
        <4>1. i \in DOMAIN listed /\ listed'[i] = listed[i] BY <3>2, <2>2
        <4>. QED BY <4>1, <2>4 DEF ListInv
      <3>. QED BY <3>1, <3>2
    <2>5. ListInv'
      <3>1. Len(listed') <= Len(Branches)
        <4>1. Len(listed) < Len(Branches) /\ Len(listed) \in Nat /\ Len(listed') = Len(listed) + 1
          BY <2>0, <2>2
        <4>. QED BY <4>1, <1>b
      <3>4. listed' \in Seq(SUBSET dir')
        <4>1. dir' = dir BY <2>0
        <4>. QED BY <4>1, <2>2
      <3>2. pc' \in {"footers", "fold"} => Len(listed') = Len(Branches)
        BY <2>0, <2>2
      <3>3. \A i \in DOMAIN listed' : \A r \in committed' :
              r.block <= snap'.sealedThrough /\ r.table = Branches[i].table =>
                \E s \in listed'[i] : r \in s.rows
        <4>1. committed' = committed /\ snap' = snap BY <2>0
        <4>. QED BY <4>1, <2>4
      <3>. QED BY <3>1, <3>2, <3>3, <3>4 DEF ListInv
    <2>. QED BY <2>1, <2>5
  <1>5. ASSUME Footers \/ Fold \/ UNCHANGED vars PROVE QueryInv'
    <2>0. /\ UNCHANGED <<indexed, sealedThrough, dir, snap, committed, listed>>
          /\ pc' \in {"footers", "fold"} => pc \in {"footers", "fold"}
      BY <1>5 DEF Footers, Fold, vars, tipVars, queryVars
    <2>1. SnapInv' BY <2>0 DEF SnapInv
    <2>2. ListInv' BY <2>0 DEF ListInv
    <2>. QED BY <2>1, <2>2
  <1>. QED BY <1>1, <1>2, <1>3, <1>4, <1>5 DEF Next, Indexer, Query

-----------------------------------------------------------------------------
(* A row the query must count is in its cold half or in its hot half.      *)
LEMMA CountedCold ==
  ASSUME NestInv, QueryInv, pc = "fold", BalanceSheet,
         NEW r \in committed, r.block <= snap.sealedThrough
  PROVE  r \in Cold /\ Cardinality(Holding(r)) = 1
  <1>1. r \in indexed /\ r \in Rows
    BY DEF QueryInv, SnapInv, NestInv, NestTypes
  <1>2. PICK b \in DOMAIN Branches : Branches[b].table = r.table
    BY <1>1 DEF BalanceSheet
  <1>3. PICK i \in Scans : Branches[i].table = r.table
    BY <1>2, HasRepresentative
  <1>4. DOMAIN listed = DOMAIN Branches /\ \A j \in DOMAIN listed : listed[j] \subseteq dir
    BY SeamAssumption DEF QueryInv, ListInv
  <1>5. i \in DOMAIN listed BY <1>3, <1>4 DEF Scans
  <1>6. PICK s \in listed[i] : r \in s.rows
    BY <1>3, <1>5 DEF QueryInv, ListInv
  <1>7. Holding(r) = {s}
    <2>1. s \in Holding(r) BY <1>3, <1>6 DEF Holding
    <2>2. \A q \in Holding(r) : q \in dir /\ r \in q.rows
      BY <1>4 DEF Holding, Scans
    <2>3. \A q \in Holding(r) : q = s
      BY <2>1, <2>2 DEF NestInv, SegmentsDisjoint
    <2>. QED BY <2>1, <2>3
  <1>8. Cardinality(Holding(r)) = 1 BY <1>7, FS_Singleton
  <1>. QED BY <1>1, <1>7, <1>8 DEF Cold, BelowWatermark

(* A row the query must not count is in neither half.                      *)
LEMMA NotCountedCold ==
  ASSUME NestInv, QueryInv, pc = "fold", NEW r \in Cold
  PROVE  r \in committed
  <1>1. DOMAIN listed = DOMAIN Branches /\ \A j \in DOMAIN listed : listed[j] \subseteq dir
    BY SeamAssumption DEF QueryInv, ListInv
  <1>2. r \in indexed
    BY <1>1 DEF Cold, Holding, Scans, NestInv, SegmentRows
  <1>3. r.block <= snap.sealedThrough /\ r.block \in Int /\ snap.sealedThrough \in Int
    BY RowTypes, WatermarkTypes DEF Cold, BelowWatermark, QueryInv, SnapInv
  <1>. QED BY <1>2, <1>3 DEF QueryInv, SnapInv

LEMMA FoldIsCoherent ==
  ASSUME NestInv, QueryInv, BalanceSheet, Fold
  PROVE  CoherentAnswer'
  <1>0. pc = "fold" /\ committed' = committed
    BY DEF Fold
  <1>s. /\ snap.sealedThrough \in Int /\ snap.rows \subseteq committed
        /\ committed \subseteq Rows
    BY WatermarkTypes DEF QueryInv, SnapInv, NestInv, NestTypes
  <1> SUFFICES ASSUME result'.outcome = "rows"
               PROVE  /\ \A r \in committed : ~ColdRefuses(r)
                      /\ \A r \in Rows, k \in Roles :
                           result'.count[r][k] = IF r \in committed THEN Folded(r, k) ELSE 0
    BY <1>0 DEF CoherentAnswer
  <1>1. /\ Outcome = "rows"
        /\ \A r \in Rows, k \in Roles :
             result'.count[r][k] = ColdFolded(r, k) + HotFolded(r, k)
    BY DEF Fold
  <1>2. /\ \A r \in Cold : ~ColdRefuses(r)
        /\ Disjoint
        /\ \A r \in snap.rows : r.kind # "digits"
    BY <1>1 DEF Outcome
  <1>3. \A r \in committed : ~ColdRefuses(r)
    <2> TAKE r \in committed
    <2>1. CASE r.block <= snap.sealedThrough
      BY <2>1, <1>0, <1>2, CountedCold
    <2>2. CASE ~(r.block <= snap.sealedThrough)
      <3>1. r \in snap.rows BY <2>2, <1>s, RowTypes DEF QueryInv, SnapInv
      <3>. QED BY <3>1, <1>2, <1>s DEF ColdRefuses, BalanceSheet
    <2>. QED BY <2>1, <2>2
  <1>4. ASSUME NEW r \in Rows, NEW k \in Roles
        PROVE  ColdFolded(r, k) + HotFolded(r, k) = IF r \in committed THEN Folded(r, k) ELSE 0
    <2>1. r.block \in Int BY RowTypes
    <2>2. /\ Folded(r, k) \in Int
          /\ Folded(r, k) = IF r.kind = "int" THEN (IF k = "credit" THEN 1 ELSE -1) ELSE 0
      <3>1. CASE r.kind = "int" BY <3>1 DEF BalanceSheet, Roles
      <3>2. CASE r.kind # "int" BY <3>2 DEF Folded
      <3>. QED BY <3>1, <3>2
    <2>3. CASE r \in committed /\ r.block <= snap.sealedThrough
      <3>1. r \in Cold /\ Cardinality(Holding(r)) = 1
        BY <2>3, <1>0, CountedCold
      <3>2. r \notin snap.rows BY <2>3, <2>1, <1>s, <1>2 DEF Disjoint
      <3>3. ColdFolded(r, k) = Folded(r, k) BY <3>1, <2>2 DEF ColdFolded
      <3>4. HotFolded(r, k) = 0 BY <3>2 DEF HotFolded
      <3>. QED BY <3>3, <3>4, <2>2, <2>3
    <2>4. CASE r \in committed /\ ~(r.block <= snap.sealedThrough)
      <3>1. r \in snap.rows BY <2>4, <2>1, <1>s DEF QueryInv, SnapInv
      <3>2. ColdFolded(r, k) = 0 BY <2>4 DEF ColdFolded, Cold, BelowWatermark
      <3>3. HotFolded(r, k) = Folded(r, k) BY <3>1, <2>2 DEF HotFolded
      <3>. QED BY <3>2, <3>3, <2>2, <2>4
    <2>5. CASE r \notin committed
      <3>1. r \notin Cold BY <2>5, <1>0, NotCountedCold
      <3>2. r \notin snap.rows BY <2>5, <1>s
      <3>3. ColdFolded(r, k) = 0 BY <3>1 DEF ColdFolded
      <3>4. HotFolded(r, k) = 0 BY <3>2 DEF HotFolded
      <3>. QED BY <3>3, <3>4, <2>5
    <2>. QED BY <2>3, <2>4, <2>5
  <1>. QED BY <1>1, <1>3, <1>4

LEMMA CoherentStep ==
  ASSUME NestInv, QueryInv, BalanceSheet, CoherentAnswer, [Next]_vars
  PROVE  CoherentAnswer'
  <1>1. CASE Fold BY <1>1, FoldIsCoherent
  <1>2. CASE Snapshot \/ Footers
    BY <1>2 DEF Snapshot, Footers, CoherentAnswer
  <1>3. CASE UNCHANGED <<committed, result>>
    BY <1>3 DEF CoherentAnswer
  <1>4. Fold \/ Snapshot \/ Footers \/ UNCHANGED <<committed, result>>
    BY DEF Next, Indexer, Query, AppendRow, Reappend, StartSeal, WriteSegment, FinishSegment,
       SealThrough, ListBranch, vars, queryVars
  <1>. QED BY <1>1, <1>2, <1>3, <1>4

(* COR-1 (src/seam.rs, src/lib.rs): a fold that credits and debits every   *)
(* row of its nest once answers with exactly the rows there were at its    *)
(* snapshot, each counted once, whatever the indexer seals meanwhile.      *)
THEOREM Cor1 == BalanceSheet => (Spec => []CoherentAnswer)
  <1> SUFFICES ASSUME BalanceSheet PROVE Spec => []CoherentAnswer
    OBVIOUS
  <1> DEFINE Inv == NestInv /\ QueryInv /\ CoherentAnswer
  <1>1. Init => Inv
    <2>1. Init => CoherentAnswer BY DEF Init, CoherentAnswer
    <2>. QED BY <2>1, NestInit, QueryInit
  <1>2. Inv /\ [Next]_vars => Inv'
    BY NestStep, QueryStep, CoherentStep
  <1>3. Inv => CoherentAnswer
    OBVIOUS
  <1>. QED BY <1>1, <1>2, <1>3, PTL DEF Spec

(* The two halves partition the rows at every instant, which is what the   *)
(* order segment first, watermark second, in one step with the prune, is   *)
(* for (src/seam.rs, MemoryTip::seal_through).                             *)
THEOREM SealingKeepsRowsOnce == Spec => []SealedOnce
  <1>1. NestInv => SealedOnce
    <2> SUFFICES ASSUME NestInv, NEW r \in indexed
                 PROVE  IF r.block <= sealedThrough
                        THEN Cardinality({s \in dir \ torn : r \in s.rows}) = 1
                        ELSE r \in hot
      BY DEF SealedOnce
    <2>1. CASE r.block <= sealedThrough
      <3>1. PICK s \in dir \ torn : r \in s.rows
        BY <2>1 DEF NestInv, Sides
      <3>2. {q \in dir \ torn : r \in q.rows} = {s}
        BY <3>1 DEF NestInv, SegmentsDisjoint
      <3>. QED BY <3>2, <2>1, FS_Singleton
    <2>2. CASE ~(r.block <= sealedThrough)
      BY <2>2 DEF NestInv, Sides
    <2>. QED BY <2>1, <2>2
  <1>. QED BY <1>1, NestInit, NestStep, PTL DEF Spec

-----------------------------------------------------------------------------
(* What a refusal says.  The types need the rest: how often a row was      *)
(* folded is a number because no row lies in two segments.                 *)
TipInv ==
  /\ \A r \in hot : r.block <= sealedThrough => r \in Redelivered
  /\ \A r \in snap.rows : r.block <= snap.sealedThrough => r \in Redelivered

LEMMA TipInit == Init => TipInv
  BY DEF Init, TipInv, NoSnap

LEMMA TipStep == NestInv /\ QueryInv /\ TipInv /\ [Next]_vars => TipInv'
  <1> SUFFICES ASSUME NestInv, QueryInv, TipInv, [Next]_vars PROVE TipInv'
    OBVIOUS
  <1>t. sealedThrough \in Int /\ sealing \in Int /\ hot \subseteq Rows
    BY WatermarkTypes DEF NestInv, NestTypes
  <1>r. \A r \in Rows : r.block \in Int
    BY RowTypes
  <1>1. ASSUME NEW r \in Rows, AppendRow(r) PROVE TipInv'
    <2>1. hot' = hot \cup {r} /\ r.block > sealedThrough /\ sealedThrough' = sealedThrough
          /\ snap' = snap
      BY <1>1 DEF AppendRow, queryVars
    <2>. QED BY <2>1, <1>t, <1>r DEF TipInv
  <1>2. ASSUME NEW r \in Rows, Reappend(r) PROVE TipInv'
    <2>1. hot' = hot \cup {r} /\ r \in Redelivered /\ sealedThrough' = sealedThrough
          /\ snap' = snap
      BY <1>2 DEF Reappend, queryVars
    <2>. QED BY <2>1 DEF TipInv
  <1>3. ASSUME SealThrough PROVE TipInv'
    <2>1. hot' = {r \in hot : r.block > sealing} /\ sealedThrough' = sealing /\ snap' = snap
      BY <1>3 DEF SealThrough, queryVars
    <2>. QED BY <2>1, <1>t, <1>r DEF TipInv
  <1>4. ASSUME Snapshot PROVE TipInv'
    <2>1. /\ hot' = hot /\ sealedThrough' = sealedThrough
          /\ snap' = [rows |-> hot, sealedThrough |-> sealedThrough]
      BY <1>4 DEF Snapshot, tipVars
    <2>. QED BY <2>1 DEF TipInv
  <1>5. CASE UNCHANGED <<hot, sealedThrough, snap>>
    BY <1>5 DEF TipInv
  <1>6. \/ \E r \in Rows : AppendRow(r) \/ Reappend(r)
        \/ SealThrough \/ Snapshot \/ UNCHANGED <<hot, sealedThrough, snap>>
    BY DEF Next, Indexer, Query, StartSeal, WriteSegment, FinishSegment, ListBranch, Footers,
       Fold, vars, tipVars, queryVars
  <1>. QED BY <1>1, <1>2, <1>3, <1>4, <1>5, <1>6

(* Every refusal names a cause there was.                                  *)
LEMMA CauseStep ==
  ASSUME NestInv, QueryInv, TipInv, RefusedForCause, [Next]_vars
  PROVE  RefusedForCause'
  <1>s. /\ snap.sealedThrough \in Int /\ snap.rows \subseteq Rows /\ sealedThrough \in Int
        /\ snap.sealedThrough <= sealedThrough /\ snap.rows \subseteq committed
    BY WatermarkTypes DEF QueryInv, SnapInv, NestInv, NestTypes
  <1>1. CASE Fold
    <2>1. /\ pc = "fold" /\ result'.outcome = Outcome
          /\ UNCHANGED <<snap, committed, sealedThrough>>
      BY <1>1 DEF Fold, tipVars
    <2>2. ASSUME Outcome = "NotAllowed" PROVE \E r \in committed : ColdRefuses(r)
      <3>1. \/ \E r \in Cold : ColdRefuses(r)
            \/ \E r \in snap.rows : r.kind = "digits"
        BY <2>2 DEF Outcome
      <3>2. CASE \E r \in Cold : ColdRefuses(r)
        BY <3>2, <2>1, NotCountedCold
      <3>3. CASE \E r \in snap.rows : r.kind = "digits"
        BY <3>3, <1>s DEF ColdRefuses
      <3>. QED BY <3>1, <3>2, <3>3
    <2>3. ASSUME Outcome = "Seam"
          PROVE  \E r \in snap.rows \cap Redelivered : r.block <= sealedThrough
      <3>1. PICK r \in snap.rows : ~(r.block > snap.sealedThrough)
        BY <2>3 DEF Outcome, Disjoint
      <3>2. r.block \in Int /\ r.block <= snap.sealedThrough
        BY <3>1, <1>s, RowTypes
      <3>. QED BY <3>1, <3>2, <1>s DEF TipInv
    <2>. QED BY <2>1, <2>2, <2>3 DEF RefusedForCause
  <1>2. CASE Snapshot \/ Footers
    BY <1>2 DEF Snapshot, Footers, RefusedForCause, tipVars
  <1>3. CASE UNCHANGED <<committed, snap, result>>
    <2>1. sealedThrough' \in Int /\ sealedThrough' >= sealedThrough
      BY <1>s, WatermarkTypes DEF Next, Indexer, Query, AppendRow, Reappend, StartSeal,
         WriteSegment, FinishSegment, SealThrough, Snapshot, ListBranch, Footers, Fold, vars,
         tipVars, NestInv, NestTypes
    <2>2. \A r \in snap.rows : r.block <= sealedThrough => r.block <= sealedThrough'
      BY <2>1, <1>s, RowTypes
    <2>. QED BY <1>3, <2>2 DEF RefusedForCause
  <1>4. Fold \/ Snapshot \/ Footers \/ UNCHANGED <<committed, snap, result>>
    BY DEF Next, Indexer, Query, AppendRow, Reappend, StartSeal, WriteSegment, FinishSegment,
       SealThrough, ListBranch, vars, queryVars
  <1>. QED BY <1>1, <1>2, <1>3, <1>4

(* What a row is folded as is a number, for any plan.                      *)
LEMMA FoldedInt == \A r \in Rows, k \in Roles : Folded(r, k) \in Int
  <1> SUFFICES ASSUME NEW r \in Rows, NEW k \in Roles PROVE Folded(r, k) \in Int
    OBVIOUS
  <1>1. IsFiniteSet(DOMAIN Branches)
    <2>1. DOMAIN Branches = 1..Len(Branches) /\ Len(Branches) \in Nat
      BY SeamAssumption
    <2>. QED BY <2>1, FS_Interval
  <1>2. Arms(r, k, FALSE) \subseteq DOMAIN Branches /\ Arms(r, k, TRUE) \subseteq DOMAIN Branches
    BY DEF Arms
  <1>3. IsFiniteSet(Arms(r, k, FALSE)) /\ IsFiniteSet(Arms(r, k, TRUE))
    BY <1>1, <1>2, FS_Subset, Zenon
  <1>4. Cardinality(Arms(r, k, FALSE)) \in Nat /\ Cardinality(Arms(r, k, TRUE)) \in Nat
    BY <1>3, FS_CardinalityType, Zenon
  <1> DEFINE plain == Cardinality(Arms(r, k, FALSE))
             minus == Cardinality(Arms(r, k, TRUE))
  <1>5. Folded(r, k) = IF r.kind = "int" THEN plain - minus ELSE 0
    BY Zenon DEF Folded
  <1> HIDE DEF plain, minus
  <1>6. plain \in Nat /\ minus \in Nat
    BY <1>4, Zenon DEF plain, minus
  <1>. QED BY <1>5, <1>6

LEMMA ColdInt ==
  ASSUME NestInv, QueryInv, pc = "fold", NEW r \in Rows, NEW k \in Roles
  PROVE  ColdFolded(r, k) + HotFolded(r, k) \in Int
  <1>1. DOMAIN listed = DOMAIN Branches /\ \A j \in DOMAIN listed : listed[j] \subseteq dir
    BY SeamAssumption DEF QueryInv, ListInv
  <1>2. r \in Cold => Cardinality(Holding(r)) = 1
    <2> SUFFICES ASSUME r \in Cold PROVE Cardinality(Holding(r)) = 1
      OBVIOUS
    <2>1. PICK s : s \in Holding(r)
      BY DEF Cold
    <2>2. \A q \in Holding(r) : q \in dir /\ r \in q.rows
      BY <1>1 DEF Holding, Scans
    <2>3. Holding(r) = {s}
      BY <2>1, <2>2 DEF NestInv, SegmentsDisjoint
    <2>. QED BY <2>3, FS_Singleton
  <1>3. ColdFolded(r, k) \in Int
    BY <1>2, FoldedInt DEF ColdFolded
  <1>4. HotFolded(r, k) \in Int
    BY DEF HotFolded
  <1>. QED BY <1>3, <1>4

LEMMA TypeInit == Init => TypeOK
  <1> SUFFICES ASSUME Init PROVE TypeOK
    OBVIOUS
  <1>1. NoCount \in [Rows -> [Roles -> Int]]
    BY DEF NoCount
  <1>2. result \in [outcome : {"none", "rows", "NotAllowed", "Seam", "Substrate"},
                    count : [Rows -> [Roles -> Int]]]
    BY <1>1 DEF Init
  <1>3. snap \in [rows : SUBSET Rows, sealedThrough : Watermarks]
    BY DEF Init, NoSnap, Watermarks
  <1>. QED BY <1>2, <1>3 DEF Init, TypeOK, Watermarks

LEMMA TypeStep == NestInv /\ QueryInv /\ TypeOK /\ [Next]_vars => TypeOK'
  <1> SUFFICES ASSUME NestInv, QueryInv, TypeOK, [Next]_vars PROVE TypeOK'
    OBVIOUS
  <1> DEFINE Results == [outcome : {"none", "rows", "NotAllowed", "Seam", "Substrate"},
                         count : [Rows -> [Roles -> Int]]]
  <1>n. NoCount \in [Rows -> [Roles -> Int]]
    BY DEF NoCount
  <1>1. /\ indexed' \subseteq Rows /\ hot' \subseteq indexed'
        /\ sealedThrough' \in Watermarks /\ sealing' \in Watermarks /\ torn' \subseteq dir'
    BY NestStep DEF NestInv, NestTypes
  <1>2. /\ snap' \in [rows : SUBSET Rows, sealedThrough : Watermarks]
        /\ committed' \subseteq indexed'
    BY QueryStep DEF QueryInv, SnapInv
  <1>3. dir' \subseteq Segments
    <2>1. ASSUME NEW tab \in Tables, WriteSegment(tab) PROVE dir' \subseteq Segments
      <3>1. sealing \in 0..MaxBlock
        BY <2>1 DEF WriteSegment, TypeOK, Watermarks
      <3>2. Segment(tab) \in Segments
        BY <3>1 DEF Segment, Segments, TypeOK
      <3>. QED BY <3>2, <2>1 DEF WriteSegment, TypeOK
    <2>2. (\E tab \in Tables : WriteSegment(tab)) \/ dir' = dir
      BY DEF Next, Indexer, Query, AppendRow, Reappend, StartSeal, FinishSegment, SealThrough,
         Snapshot, ListBranch, Footers, Fold, vars
    <2>. QED BY <2>1, <2>2 DEF TypeOK
  <1>4. pc' \in {"idle", "list", "footers", "fold", "done"}
    BY DEF Next, Indexer, Query, AppendRow, Reappend, StartSeal, WriteSegment, FinishSegment,
       SealThrough, Snapshot, ListBranch, Footers, Fold, vars, queryVars, TypeOK
  <1>5. listed' \in Seq(SUBSET Segments)
    <2>1. listed' \in Seq(SUBSET dir')
      BY QueryStep DEF QueryInv, ListInv
    <2>. QED BY <2>1, <1>3
  <1>6. result' \in Results
    <2>1. CASE Fold
      <3>1. pc = "fold"
        BY <2>1 DEF Fold
      <3>2. Outcome \in {"none", "rows", "NotAllowed", "Seam", "Substrate"}
        BY DEF Outcome
      <3>3. [r \in Rows |-> [k \in Roles |-> ColdFolded(r, k) + HotFolded(r, k)]]
              \in [Rows -> [Roles -> Int]]
        BY <3>1, ColdInt
      <3>. QED BY <2>1, <3>2, <3>3, <1>n DEF Fold
    <2>2. CASE Snapshot
      BY <2>2, <1>n DEF Snapshot
    <2>3. CASE Footers
      BY <2>3, <1>n DEF Footers, TypeOK
    <2>4. Fold \/ Snapshot \/ Footers \/ result' = result
      BY DEF Next, Indexer, Query, AppendRow, Reappend, StartSeal, WriteSegment, FinishSegment,
         SealThrough, ListBranch, vars, queryVars
    <2>. QED BY <2>1, <2>2, <2>3, <2>4 DEF TypeOK
  <1>. QED BY <1>1, <1>2, <1>3, <1>4, <1>5, <1>6 DEF TypeOK

(* A query is refused for a value only if a row it should count has that   *)
(* value, and for the seam only if a row was delivered twice (src/seam.rs, *)
(* HotSnapshot::check_disjoint): with an indexer that never redelivers, no *)
(* query ever fails at the seam.                                           *)
THEOREM RefusalsHonest == Spec => []RefusalHonest
  <1> DEFINE Inv == NestInv /\ QueryInv /\ TipInv /\ TypeOK /\ RefusedForCause
  <1>1. Init => Inv
    <2>1. Init => RefusedForCause BY DEF Init, RefusedForCause
    <2>. QED BY <2>1, NestInit, QueryInit, TipInit, TypeInit
  <1>2. Inv /\ [Next]_vars => Inv'
    BY NestStep, QueryStep, TipStep, TypeStep, CauseStep
  <1>3. Inv => RefusalHonest
    BY DEF RefusalHonest
  <1>. QED BY <1>1, <1>2, <1>3, PTL DEF Spec
LEMMA ByInduction ==
  ASSUME NEW S, 0 \in S, \A n \in Nat : n \in S => n + 1 \in S
  PROVE  \A n \in Nat : n \in S
  <1> SUFFICES ASSUME NEW n \in Nat, n \notin S PROVE FALSE
    OBVIOUS
  <1> DEFINE Missing == Nat \ S
  <1>1. Missing \subseteq Nat /\ Missing # {}
    OBVIOUS
  <1>2. PICK m \in Missing : \A k \in Missing : ~(<<k, m>> \in OpToRel(<, Nat))
    BY <1>1, NatLessThanWellFounded, WFMin, Zenon
  <1>3. \A k \in Missing : ~(k < m)
    BY <1>1, <1>2, Zenon DEF OpToRel
  <1>4. m \in Nat /\ m # 0 /\ m \notin S
    OBVIOUS
  <1>5. m - 1 \in Nat /\ m - 1 \in S
    BY <1>3, <1>4
  <1>6. (m - 1) + 1 \in S
    BY <1>5
  <1>. QED BY <1>4, <1>6

-----------------------------------------------------------------------------
(* Powers of two up to n, as far as the definition has to be unfolded.     *)
PowersUpTo(n, f) == f = [m \in 0..n |-> IF m = 0 THEN 1 ELSE 2 * f[m - 1]]

LEMMA PowersUpToExist == \A n \in Nat : \E f : PowersUpTo(n, f)
  <1> DEFINE I == {n \in Nat : \E f : PowersUpTo(n, f)}
  <1>1. 0 \in I
    <2>1. PowersUpTo(0, [m \in 0..0 |-> 1])
      BY DEF PowersUpTo
    <2>. QED BY <2>1
  <1>2. ASSUME NEW n \in Nat, n \in I PROVE n + 1 \in I
    <2>1. PICK f : PowersUpTo(n, f)
      BY <1>2
    <2> DEFINE g == [m \in 0..(n + 1) |-> IF m = 0 THEN 1 ELSE 2 * f[m - 1]]
    <2>2. \A m \in 0..n : g[m] = f[m]
      BY <2>1 DEF PowersUpTo
    <2>3. \A m \in 0..(n + 1) : m # 0 => m - 1 \in 0..n
      OBVIOUS
    <2>4. g = [m \in 0..(n + 1) |-> IF m = 0 THEN 1 ELSE 2 * g[m - 1]]
      <3>1. \A m \in 0..(n + 1) : m # 0 => g[m - 1] = f[m - 1]
        BY <2>2, <2>3, Zenon
      <3>. QED BY <3>1, Zenon
    <2> HIDE DEF g
    <2>5. PowersUpTo(n + 1, g)
      BY <2>4 DEF PowersUpTo
    <2>. QED BY <2>5
  <1> HIDE DEF I
  <1>3. \A n \in Nat : n \in I
    BY <1>1, <1>2, ByInduction
  <1>. QED BY <1>3 DEF I

LEMMA PowersUpToMeet ==
  ASSUME NEW n \in Nat, NEW k \in Nat, n <= k, NEW f, NEW g, PowersUpTo(n, f), PowersUpTo(k, g)
  PROVE  \A m \in 0..n : f[m] = g[m] /\ f[m] \in Nat
  <1> DEFINE I == {m \in Nat : m <= n => f[m] = g[m] /\ f[m] \in Nat}
  <1>1. 0 \in I
    BY DEF PowersUpTo
  <1>2. ASSUME NEW m \in Nat, m \in I PROVE m + 1 \in I
    <2> SUFFICES ASSUME m + 1 <= n PROVE f[m + 1] = g[m + 1] /\ f[m + 1] \in Nat
      OBVIOUS
    <2>1. f[m] = g[m] /\ f[m] \in Nat
      BY <1>2
    <2>2. m + 1 \in 0..n /\ m + 1 \in 0..k /\ m + 1 # 0 /\ (m + 1) - 1 = m
      OBVIOUS
    <2>3. f[m + 1] = 2 * f[m] /\ g[m + 1] = 2 * g[m]
      BY <2>2 DEF PowersUpTo
    <2>. QED BY <2>1, <2>3
  <1> HIDE DEF I
  <1>3. \A m \in Nat : m \in I
    BY <1>1, <1>2, ByInduction
  <1>. QED BY <1>3 DEF I

LEMMA PowersDouble ==
  /\ Two[0] = 1
  /\ \A n \in Nat : Two[n + 1] = 2 * Two[n] /\ Two[n] \in Nat
  <1> DEFINE F(n) == CHOOSE f : PowersUpTo(n, f)
             P == [n \in Nat |-> F(n)[n]]
  <1>1. \A n \in Nat : PowersUpTo(n, F(n))
    BY PowersUpToExist
  <1> HIDE DEF F
  <1>2. \A n \in Nat : P[n] = IF n = 0 THEN 1 ELSE 2 * P[n - 1]
    <2> TAKE n \in Nat
    <2>1. PowersUpTo(n, F(n))
      BY <1>1
    <2>2. F(n)[n] = IF n = 0 THEN 1 ELSE 2 * F(n)[n - 1]
      BY <2>1 DEF PowersUpTo
    <2>3. CASE n # 0
      <3>1. n - 1 \in Nat /\ n - 1 <= n /\ n - 1 \in 0..(n - 1)
        BY <2>3
      <3>2. PowersUpTo(n - 1, F(n - 1))
        BY <1>1, <3>1
      <3>3. F(n - 1)[n - 1] = F(n)[n - 1]
        BY <2>1, <3>1, <3>2, PowersUpToMeet
      <3>. QED BY <2>2, <3>1, <3>3
    <2>. QED BY <2>2, <2>3
  <1>3. P = [n \in Nat |-> IF n = 0 THEN 1 ELSE 2 * P[n - 1]]
    <2> HIDE DEF P
    <2>1. P = [n \in Nat |-> P[n]]
      BY DEF P
    <2>. QED BY <1>2, <2>1, Zenon
  <1> HIDE DEF P
  <1>4. Two = [n \in Nat |-> IF n = 0 THEN 1 ELSE 2 * Two[n - 1]]
    BY <1>3 DEF Two
  <1>5. Two[0] = 1 /\ \A n \in Nat : Two[n + 1] = 2 * Two[n]
    BY <1>4
  <1> DEFINE I == {n \in Nat : Two[n] \in Nat}
  <1>6. 0 \in I /\ \A n \in Nat : n \in I => n + 1 \in I
    BY <1>5
  <1>7. \A n \in Nat : n \in I
    <2> HIDE DEF I
    <2>. QED BY <1>6, ByInduction
  <1>. QED BY <1>5, <1>7

LEMMA PowersMultiply ==
  \A m, n \in Nat : Two[m + n] = Two[m] * Two[n] /\ Two[n] > 0 /\ Two[n] <= Two[m + n]
  <1>0. \A n \in Nat : Two[n] \in Nat
    BY PowersDouble
  <1> DEFINE I == {n \in Nat : Two[n] > 0}
  <1>1. \A n \in Nat : Two[n] > 0
    <2>1. 0 \in I /\ \A n \in Nat : n \in I => n + 1 \in I
      BY PowersDouble
    <2>2. \A n \in Nat : n \in I
      <3> HIDE DEF I
      <3>. QED BY <2>1, ByInduction
    <2>. QED BY <2>2
  <1> TAKE m, n \in Nat
  <1> DEFINE J == {k \in Nat : Two[k + n] = Two[k] * Two[n]}
  <1>2. 0 \in J
    BY <1>0, PowersDouble
  <1>3. ASSUME NEW k \in Nat, k \in J PROVE k + 1 \in J
    <2>1. Two[k + n] = Two[k] * Two[n]
      BY <1>3
    <2>2. Two[k + 1] = 2 * Two[k] /\ Two[(k + n) + 1] = 2 * Two[k + n]
      BY PowersDouble
    <2>3. (k + 1) + n = (k + n) + 1
      OBVIOUS
    <2>4. PICK x \in Nat, y \in Nat : x = Two[k] /\ y = Two[n]
      BY <1>0
    <2>5. 2 * (x * y) = (2 * x) * y
      OBVIOUS
    <2>. QED BY <2>1, <2>2, <2>3, <2>4, <2>5
  <1>4. m \in J
    <2> HIDE DEF J
    <2>. QED BY <1>2, <1>3, ByInduction
  <1>5. PICK x \in Nat, y \in Nat : x = Two[m] /\ y = Two[n] /\ x > 0 /\ y > 0
    BY <1>0, <1>1
  <1>6. y <= x * y
    BY <1>5
  <1>. QED BY <1>1, <1>4, <1>5, <1>6

LEMMA PowersPositive == \A n \in Nat : Two[n] \in Nat /\ Two[n] > 0
  BY PowersDouble, PowersMultiply, Zenon

LEMMA PowersGrow == \A m, n \in Nat : m <= n => Two[m] <= Two[n]
  <1> TAKE m, n \in Nat
  <1> HAVE m <= n
  <1>1. PICK k \in Nat : n = k + m
    <2>1. n - m \in Nat /\ n = (n - m) + m
      OBVIOUS
    <2>. QED BY <2>1
  <1>2. Two[m] <= Two[k + m]
    BY PowersMultiply, Zenon
  <1>. QED BY <1>1, <1>2

-----------------------------------------------------------------------------
(* Sums over a finite set, which the folds take one element at a time.     *)
Picked(s) == CHOOSE x \in s : TRUE
Adding(f, S, g) ==
  g = [s \in SUBSET S |-> IF s = {} THEN 0 ELSE f[Picked(s)] + g[s \ {Picked(s)}]]
Adder(f, S) == CHOOSE g : Adding(f, S, g)

LEMMA SumIs == \A f, S : SumFunctionOnSet(f, S) = Adder(f, S)[S]
  BY DEF SumFunctionOnSet, FoldFunctionOnSet, MapThenFoldSet, Adder, Adding, Picked
LEMMA PickedLess ==
  ASSUME NEW s, IsFiniteSet(s), s # {}
  PROVE  /\ Picked(s) \in s /\ Cardinality(s) > 0 /\ Cardinality(s) \in Nat
         /\ IsFiniteSet(s \ {Picked(s)})
         /\ Cardinality(s \ {Picked(s)}) = Cardinality(s) - 1
  <1>1. Picked(s) \in s
    BY DEF Picked
  <1>2. Cardinality(s) # 0 /\ Cardinality(s) \in Nat
    BY FS_EmptySet, FS_CardinalityType
  <1>3. /\ IsFiniteSet(s \ {Picked(s)})
        /\ Cardinality(s \ {Picked(s)}) = Cardinality(s) - 1
    BY <1>1, FS_RemoveElement
  <1>. QED BY <1>1, <1>2, <1>3

LEMMA AdderAdds ==
  ASSUME NEW f, NEW S, IsFiniteSet(S)
  PROVE  Adding(f, S, Adder(f, S))
  <1> DEFINE Upto(n, g) == g = [s \in SUBSET S |->
                 IF s = {} THEN 0
                 ELSE IF Cardinality(s) <= n THEN f[Picked(s)] + g[s \ {Picked(s)}] ELSE 0]
             I == {n \in Nat : \E g : Upto(n, g)}
  <1>0. \A s \in SUBSET S : Cardinality(s) \in Nat /\ Cardinality(s) <= Cardinality(S)
    BY FS_Subset, FS_CardinalityType
  <1>00. \A s \in SUBSET S : s # {} =>
           /\ Cardinality(s) > 0 /\ s \ {Picked(s)} \in SUBSET S
           /\ Cardinality(s \ {Picked(s)}) = Cardinality(s) - 1
    BY PickedLess, FS_Subset
  <1>1. 0 \in I
    <2>1. \A s \in SUBSET S : s # {} => ~(Cardinality(s) <= 0)
      <3> TAKE s \in SUBSET S
      <3>1. s # {} => Cardinality(s) > 0
        BY <1>00, Zenon
      <3>2. Cardinality(s) \in Nat
        BY <1>0
      <3> HIDE DEF Upto, I
      <3>. QED BY <3>1, <3>2
    <2>2. Upto(0, [s \in SUBSET S |-> 0])
      BY <2>1
    <2>. QED BY <2>2, Zenon
  <1>2. ASSUME NEW n \in Nat, n \in I PROVE n + 1 \in I
    <2>1. PICK g : Upto(n, g)
      BY <1>2, Zenon
    <2> DEFINE h == [s \in SUBSET S |->
                       IF s = {} THEN 0
                       ELSE IF Cardinality(s) <= n + 1 THEN f[Picked(s)] + g[s \ {Picked(s)}] ELSE 0]
    <2>2. \A s \in SUBSET S : Cardinality(s) <= n => h[s] = g[s]
      <3> TAKE s \in SUBSET S
      <3> HAVE Cardinality(s) <= n
      <3>1. g[s] = IF s = {} THEN 0 ELSE f[Picked(s)] + g[s \ {Picked(s)}]
        BY <2>1, Zenon
      <3>2. Cardinality(s) <= n + 1
        <4>1. Cardinality(s) \in Nat
          BY <1>0
        <4> HIDE DEF h, Upto
        <4>. QED BY <4>1
      <3>. QED BY <3>1, <3>2
    <2>3. \A s \in SUBSET S : s # {} /\ Cardinality(s) <= n + 1 =>
            h[s \ {Picked(s)}] = g[s \ {Picked(s)}]
      <3> TAKE s \in SUBSET S
      <3> HAVE s # {} /\ Cardinality(s) <= n + 1
      <3>1. s \ {Picked(s)} \in SUBSET S /\ Cardinality(s \ {Picked(s)}) <= n
        <4>1. Cardinality(s) \in Nat /\ s \ {Picked(s)} \in SUBSET S
              /\ Cardinality(s \ {Picked(s)}) = Cardinality(s) - 1
          BY <1>0, <1>00
        <4> HIDE DEF h, Upto
        <4>. QED BY <4>1
      <3>. QED BY <3>1, <2>2, Zenon
    <2>4. Upto(n + 1, h)
      <3>1. h = [s \in SUBSET S |->
                   IF s = {} THEN 0
                   ELSE IF Cardinality(s) <= n + 1 THEN f[Picked(s)] + h[s \ {Picked(s)}] ELSE 0]
        BY <2>3, Zenon
      <3>. QED BY <3>1, Zenon
    <2> HIDE DEF h, Upto
    <2>5. \E k : Upto(n + 1, k)
      BY <2>4
    <2>6. n + 1 \in Nat
      BY <1>2
    <2>. QED BY <2>5, <2>6
  <1> HIDE DEF I
  <1>3. Cardinality(S) \in I
    BY <1>0, <1>1, <1>2, ByInduction, FS_CardinalityType
  <1>4. PICK g : Upto(Cardinality(S), g)
    BY <1>3, Zenon DEF I
  <1>5. \A s \in SUBSET S : Cardinality(s) <= Cardinality(S)
    BY <1>0
  <1>6. Adding(f, S, g)
    BY <1>4, <1>5, Zenon DEF Adding
  <1>. QED BY <1>6 DEF Adder

(* Two functions that differ at w alone have sums that differ by as much.  *)
LEMMA SumChange ==
  ASSUME NEW S, IsFiniteSet(S), NEW f \in [S -> Int], NEW g \in [S -> Int], NEW w \in S,
         \A x \in S \ {w} : f[x] = g[x]
  PROVE  /\ SumFunctionOnSet(f, S) \in Int
         /\ SumFunctionOnSet(g, S) = SumFunctionOnSet(f, S) + (g[w] - f[w])
  <1> DEFINE F == Adder(f, S)
             G == Adder(g, S)
             I == {n \in Nat : \A s \in SUBSET S : Cardinality(s) = n =>
                     /\ F[s] \in Int /\ G[s] \in Int
                     /\ w \in s => G[s] = F[s] + (g[w] - f[w])
                     /\ w \notin s => G[s] = F[s]}
  <1>1. /\ \A s \in SUBSET S : F[s] = IF s = {} THEN 0 ELSE f[Picked(s)] + F[s \ {Picked(s)}]
        /\ \A s \in SUBSET S : G[s] = IF s = {} THEN 0 ELSE g[Picked(s)] + G[s \ {Picked(s)}]
    <2>1. Adding(f, S, F) /\ Adding(g, S, G)
      BY AdderAdds
    <2> HIDE DEF F, G
    <2>. QED BY <2>1, Zenon DEF Adding
  <1> HIDE DEF F, G
  <1>2. 0 \in I
    <2> SUFFICES ASSUME NEW s \in SUBSET S, Cardinality(s) = 0
                 PROVE  F[s] = 0 /\ G[s] = 0 /\ w \notin s
      OBVIOUS
    <2>1. s = {}
      BY FS_EmptySet, FS_Subset
    <2>. QED BY <1>1, <2>1, Zenon
  <1>3. ASSUME NEW n \in Nat, n \in I PROVE n + 1 \in I
    <2> SUFFICES ASSUME NEW s \in SUBSET S, Cardinality(s) = n + 1
                 PROVE  /\ F[s] \in Int /\ G[s] \in Int
                        /\ w \in s => G[s] = F[s] + (g[w] - f[w])
                        /\ w \notin s => G[s] = F[s]
      BY <1>3
    <2>1. s # {} /\ IsFiniteSet(s)
      BY FS_EmptySet, FS_Subset
    <2> DEFINE x == Picked(s)
               t == s \ {x}
    <2>2. x \in s
      BY <2>1 DEF Picked
    <2>3. t \in SUBSET S /\ Cardinality(t) = n
      BY <2>1, PickedLess
    <2>4. F[s] = f[x] + F[t] /\ G[s] = g[x] + G[t]
      BY <1>1, <2>1
    <2> HIDE DEF x
    <2>5. /\ F[t] \in Int /\ G[t] \in Int
          /\ w \in t => G[t] = F[t] + (g[w] - f[w])
          /\ w \notin t => G[t] = F[t]
      BY <1>3, <2>3
    <2>6. f[x] \in Int /\ g[x] \in Int /\ f[w] \in Int /\ g[w] \in Int
      BY <2>2
    <2>7. CASE x = w
      <3>1. w \in s /\ w \notin t
        BY <2>2, <2>7
      <3>. HIDE DEF t
      <3>. QED BY <2>4, <2>5, <2>6, <2>7, <3>1
    <2>8. CASE x # w
      <3>1. f[x] = g[x] /\ (w \in s <=> w \in t)
        BY <2>2, <2>8
      <3>. HIDE DEF t
      <3>. QED BY <2>4, <2>5, <2>6, <3>1
    <2>. QED BY <2>7, <2>8
  <1>4. Cardinality(S) \in Nat
    BY FS_CardinalityType
  <1>5. Cardinality(S) \in I
    <2> HIDE DEF I
    <2>. QED BY <1>2, <1>3, <1>4, ByInduction
  <1>6. F[S] \in Int /\ G[S] = F[S] + (g[w] - f[w])
    BY <1>5
  <1>7. SumFunctionOnSet(f, S) = F[S] /\ SumFunctionOnSet(g, S) = G[S]
    BY SumIs DEF F, G
  <1>. QED BY <1>6, <1>7

-----------------------------------------------------------------------------
(* Numbers of a bucket.                                                    *)
LEMMA Division ==
  \A a \in Nat, d \in Nat \ {0} :
    /\ a \div d \in Nat /\ a % d \in Nat /\ a % d < d
    /\ a = d * (a \div d) + (a % d)
  OBVIOUS

LEMMA DivisionGrows ==
  ASSUME NEW a \in Nat, NEW c \in Nat, NEW d \in Nat \ {0}, a <= c
  PROVE  a \div d <= c \div d
  <1>1. PICK q \in Nat, r \in Nat : q = a \div d /\ r < d /\ a = d * q + r
    BY Division
  <1>2. PICK u \in Nat, v \in Nat : u = c \div d /\ v < d /\ c = d * u + v
    BY Division
  <1>3. SUFFICES ASSUME q >= u + 1 PROVE FALSE
    BY <1>1, <1>2
  <1>4. PICK w \in Nat : q = u + 1 + w
    <2>1. q - (u + 1) \in Nat /\ q = u + 1 + (q - (u + 1))
      BY <1>3
    <2>. QED BY <2>1
  <1>5. d * q = d * u + d + d * w
    BY <1>4
  <1>6. d * w >= 0
    OBVIOUS
  <1>. QED BY <1>1, <1>2, <1>5, <1>6

LEMMA SmallRemainder ==
  ASSUME NEW q \in Nat, NEW n \in Nat \ {0}, q < n
  PROVE  q % n = q
  <1>1. PICK u \in Nat, v \in Nat : u = q \div n /\ v = q % n /\ v < n /\ q = n * u + v
    BY Division
  <1>2. CASE u = 0
    BY <1>1, <1>2
  <1>3. CASE u >= 1
    <2>1. PICK w \in Nat : u = w + 1
      <3>1. u - 1 \in Nat /\ u = (u - 1) + 1
        BY <1>3
      <3>. QED BY <3>1
    <2>2. n * u = n + n * w /\ n * w >= 0
      BY <2>1
    <2>. QED BY <1>1, <2>2
  <1>. QED BY <1>1, <1>2, <1>3

LEMMA BucketTypes ==
  /\ Orders \in Nat \ {0} /\ Frac \in Nat \ {0} /\ ExpMax \in Nat /\ ExpMax > 2
  /\ Buckets \in Nat \ {0} /\ None = Buckets
  /\ BucketIds = 0..(Buckets - 1) /\ IsFiniteSet(BucketIds)
  /\ MaxUnits \in Nat /\ Limit \in Nat /\ 2 * MaxUnits <= Limit
  /\ Zero \in Double /\ CheckEvery \in Nat \ {0}
  <1>1. Orders \in Nat \ {0} /\ Frac \in Nat \ {0} /\ ExpMax \in Nat /\ ExpMax > 2
    BY DoublesAssumption, FloatSumAssumption
  <1>2. (ExpMax - 1) \div Orders \in Nat
    BY <1>1, Division
  <1>3. Buckets \in Nat \ {0}
    BY <1>2 DEF Buckets
  <1>4. IsFiniteSet(0..(Buckets - 1))
    BY <1>3, FS_Interval
  <1>5. Two[Frac + 1] \in Nat /\ Two[Frac + 1] > 0 /\ Two[Orders - 1] \in Nat
        /\ Two[Frac] \in Nat /\ Two[Frac] > 0
    <2>1. Frac + 1 \in Nat /\ Orders - 1 \in Nat /\ Frac \in Nat
      BY <1>1
    <2>. QED BY <2>1, PowersPositive
  <1>6. PICK u \in Nat, v \in Nat : u = Two[Frac + 1] - 1 /\ v = Two[Orders - 1]
    BY <1>5
  <1>7. u * v \in Nat /\ 2 * (u * v) = 2 * u * v
    OBVIOUS
  <1>8. MaxUnits \in Nat /\ 2 * MaxUnits <= Limit
    BY <1>6, <1>7, FloatSumAssumption DEF MaxUnits
  <1>9. Zero \in Double
    BY <1>1, <1>5 DEF Zero, Double
  <1>. QED BY <1>1, <1>3, <1>4, <1>8, <1>9, FloatSumAssumption DEF None, BucketIds

(* The exponent of a finite number is a bucket and an order in it. *)
LEMMA FiniteUnits ==
  ASSUME NEW x \in Double, IsFinite(x)
  PROVE  /\ BucketOf(x) \in BucketIds /\ InBucket(x) \in Int
         /\ -MaxUnits <= InBucket(x) /\ InBucket(x) <= MaxUnits
         /\ UnitsOf(x) = InBucket(x) * Two[Orders * BucketOf(x)]
  <1>0. Orders \in Nat \ {0} /\ ExpMax \in Nat /\ ExpMax > 2 /\ Buckets \in Nat \ {0} /\ Frac \in Nat
    BY BucketTypes
  <1>1. PICK E \in Nat : E = ExponentOf(x) /\ E <= ExpMax - 1
    <2>1. x.exp \in 0..ExpMax /\ x.exp < ExpMax
      BY DEF Double, IsFinite
    <2>. QED BY <1>0, <2>1 DEF ExponentOf
  <1>2. PICK q \in Nat, r \in Nat : q = E \div Orders /\ r = E % Orders /\ r < Orders /\ E = Orders * q + r
    BY <1>0, Division
  <1>3. q < Buckets
    <2>1. ExpMax - 1 \in Nat
      BY <1>0
    <2>2. q <= (ExpMax - 1) \div Orders
      BY <1>0, <1>1, <1>2, <2>1, DivisionGrows
    <2>3. (ExpMax - 1) \div Orders \in Nat
      BY <1>0, <2>1, Division
    <2>. QED BY <2>2, <2>3 DEF Buckets
  <1>4. BucketOf(x) = q
    BY <1>0, <1>1, <1>2, <1>3, SmallRemainder, Zenon DEF BucketOf
  <1>5. q \in BucketIds
    BY <1>0, <1>3, BucketTypes
  <1>6. PICK m \in Nat : m = Significand(x) /\ m <= Two[Frac + 1] - 1
    <2>1. PICK t \in Nat : t = Two[Frac] /\ Two[Frac + 1] = 2 * t /\ t > 0
      BY <1>0, PowersDouble, PowersMultiply, Zenon
    <2>2. x.frac \in 0..(t - 1)
      BY <2>1 DEF Double
    <2>. QED BY <2>1, <2>2 DEF Significand
  <1>7. PICK a \in Nat, b \in Nat : a = Two[r] /\ b = Two[Orders * q] /\ Two[E] = a * b
    <2>1. PICK k \in Nat : k = Orders * q
      BY <1>0
    <2>2. r + k = E
      BY <1>0, <1>2, <2>1
    <2>3. Two[r + k] = Two[r] * Two[k]
      BY PowersMultiply
    <2>4. Two[r] \in Nat /\ Two[k] \in Nat
      BY PowersPositive
    <2>. QED BY <2>1, <2>2, <2>3, <2>4
  <1>8. a <= Two[Orders - 1]
    <2>1. Orders - 1 \in Nat /\ r <= Orders - 1
      BY <1>0, <1>2
    <2>. QED BY <1>7, <2>1, PowersGrow
  <1>9. m * a \in Nat /\ m * a <= MaxUnits
    <2>1. PICK u \in Nat, v \in Nat : u = Two[Frac + 1] - 1 /\ v = Two[Orders - 1]
      <3>1. Two[Frac + 1] \in Nat /\ Two[Frac + 1] > 0 /\ Two[Orders - 1] \in Nat
        <4>1. Frac + 1 \in Nat /\ Orders - 1 \in Nat
          BY <1>0
        <4>. QED BY <4>1, PowersPositive
      <3>2. Two[Frac + 1] - 1 \in Nat
        BY <3>1
      <3>. QED BY <3>1, <3>2
    <2>2. m <= u /\ a <= v
      BY <1>6, <1>8, <2>1
    <2>3. m * a <= m * v
      <3>1. PICK d \in Nat : v = a + d
        <4>1. v - a \in Nat /\ v = a + (v - a)
          BY <2>2
        <4>. QED BY <4>1
      <3>2. m * v = m * a + m * d /\ m * d >= 0
        BY <3>1
      <3>. QED BY <3>2
    <2>4. m * v <= u * v
      <3>1. PICK d \in Nat : u = m + d
        <4>1. u - m \in Nat /\ u = m + (u - m)
          BY <2>2
        <4>. QED BY <4>1
      <3>2. u * v = m * v + d * v /\ d * v >= 0
        BY <3>1
      <3>. QED BY <3>2
    <2>5. MaxUnits = u * v
      BY <2>1 DEF MaxUnits
    <2>6. m * a \in Nat /\ m * v \in Nat /\ u * v \in Nat
      OBVIOUS
    <2>. QED BY <2>3, <2>4, <2>5, <2>6
  <1>10. InBucket(x) = IF x.neg THEN -(m * a) ELSE m * a
    BY <1>1, <1>2, <1>6, <1>7, Zenon DEF InBucket, SignedBy
  <1>11. UnitsOf(x) = IF x.neg THEN -(m * (a * b)) ELSE m * (a * b)
    BY <1>1, <1>6, <1>7 DEF UnitsOf, SignedBy
  <1>12. m * (a * b) = (m * a) * b /\ -(m * (a * b)) = (-(m * a)) * b
    OBVIOUS
  <1>13. UnitsOf(x) = InBucket(x) * b
    BY <1>10, <1>11, <1>12
  <1>14. MaxUnits \in Nat
    BY BucketTypes
  <1>. QED BY <1>4, <1>5, <1>7, <1>9, <1>10, <1>13, <1>14

-----------------------------------------------------------------------------
(* An exact sum: a slot without a bucket is empty, no bucket has two, and  *)
(* one that is promoted uses none.                                         *)
Specials == [nan : Int, pos : Int, inf : Int]
ExactSums == [sums : [1..2 -> Int], ids : [1..2 -> 0..None], n : Nat, rare : BOOLEAN,
              dense : [BucketIds -> Int], special : Specials]
Sound(e) ==
  /\ e \in ExactSums
  /\ \A j \in 1..2 : e.ids[j] = None => e.sums[j] = 0
  /\ e.ids[1] = e.ids[2] => e.ids[1] = None
  /\ e.rare => e.ids[1] = None /\ e.ids[2] = None

Within(e, m) ==
  /\ \A j \in 1..2 : -m <= e.sums[j] /\ e.sums[j] <= m
  /\ \A b \in BucketIds : -m <= e.dense[b] /\ e.dense[b] <= m

LEMMA EntryTypes ==
  ASSUME NEW e, Sound(e)
  PROVE  Entries(e) \in [BucketIds -> Int]
  <1>1. e.dense \in [BucketIds -> Int] /\ e.sums[1] \in Int /\ e.sums[2] \in Int
    BY DEF Sound, ExactSums
  <1>. QED BY <1>1 DEF Entries

LEMMA PromotedKeeps ==
  ASSUME NEW e, Sound(e)
  PROVE  /\ Sound(Promoted(e)) /\ Promoted(e).rare
         /\ Entries(Promoted(e)) = Entries(e)
         /\ Promoted(e).n = e.n /\ Promoted(e).special = e.special
         /\ \A m \in Nat : Within(e, m) => Within(Promoted(e), m)
  <1>1. CASE e.rare
    BY <1>1 DEF Promoted
  <1>2. CASE ~e.rare
    <2> DEFINE d == [b \in BucketIds |->
                       IF e.ids[2] = b THEN e.sums[2] ELSE IF e.ids[1] = b THEN e.sums[1] ELSE 0]
    <2>0. /\ e.sums[1] \in Int /\ e.sums[2] \in Int
          /\ None \in 0..None /\ None \notin BucketIds
      BY BucketTypes DEF Sound, ExactSums
    <2>1. PICK z : z = <<0, 0>>
      BY Zenon
    <2>2. z \in [1..2 -> Int] /\ z[1] = 0 /\ z[2] = 0
      BY <2>1
    <2>3. PICK i : i = <<None, None>>
      BY Zenon
    <2>4. i \in [1..2 -> 0..None] /\ i[1] = None /\ i[2] = None
      BY <2>0, <2>3
    <2>5. d \in [BucketIds -> Int]
      BY <2>0
    <2>6. PICK dd : dd = d
      BY Zenon
    <2>7. PICK p : p = Promoted(e)
      OBVIOUS
    <2>8. p = [e EXCEPT !.rare = TRUE, !.sums = z, !.ids = i, !.dense = dd]
      BY <1>2, <2>1, <2>3, <2>6, <2>7 DEF Promoted
    <2>9. /\ p.rare = TRUE /\ p.sums = z /\ p.ids = i /\ p.dense = dd
          /\ p.n = e.n /\ p.special = e.special /\ p \in ExactSums
      BY <2>2, <2>4, <2>5, <2>6, <2>8, Zenon DEF Sound, ExactSums
    <2>10. Sound(p)
      BY <2>2, <2>4, <2>9 DEF Sound
    <2>11. Entries(p) = Entries(e)
      <3>1. \A b \in BucketIds : dd[b] =
              IF e.ids[1] = b THEN e.sums[1] ELSE IF e.ids[2] = b THEN e.sums[2] ELSE 0
        BY <2>0, <2>6 DEF Sound
      <3>. QED BY <1>2, <2>9, <3>1 DEF Entries
    <2>12. ASSUME NEW m \in Nat, Within(e, m) PROVE Within(p, m)
      <3>1. -m <= e.sums[1] /\ e.sums[1] <= m /\ -m <= e.sums[2] /\ e.sums[2] <= m
        BY <2>12 DEF Within
      <3>2. \A b \in BucketIds : -m <= dd[b] /\ dd[b] <= m
        BY <2>0, <2>6, <3>1
      <3>3. \A j \in 1..2 : -m <= z[j] /\ z[j] <= m
        BY <2>2
      <3>. QED BY <2>9, <3>2, <3>3 DEF Within
    <2>. QED BY <2>7, <2>9, <2>10, <2>11, <2>12
  <1>. QED BY <1>1, <1>2

(* What adding v to the bucket b of e gives, refused or not. *)
Adds(e, r, b, v) ==
  /\ Sound(r.sum) /\ r.ok \in BOOLEAN /\ r.sum.n = e.n /\ r.sum.special = e.special
  /\ Entries(r.sum) = [Entries(e) EXCEPT ![b] = @ + v]
  /\ \A m \in Nat : Within(e, m) =>
       /\ Within(r.sum, m + Magnitude(v))
       /\ r.ok /\ Limit <= m => Within(r.sum, m)

LEMMA MagnitudeIs ==
  \A v \in Int : Magnitude(v) \in Nat /\ -Magnitude(v) <= v /\ v <= Magnitude(v)
  BY DEF Magnitude

LEMMA CheckedIs ==
  ASSUME NEW e, NEW v \in Int
  PROVE  /\ Checked(e, v).sum = e /\ Checked(e, v).ok \in BOOLEAN
         /\ Checked(e, v).ok => -Limit <= v /\ v <= Limit
  <1>1. Limit \in Nat /\ Magnitude(v) \in Nat
    BY BucketTypes, MagnitudeIs, Zenon
  <1>. QED BY <1>1, MagnitudeIs DEF Checked, Refused, Sum

LEMMA IntoSlotAdds ==
  ASSUME NEW e, Sound(e), ~e.rare, NEW j \in 1..2, NEW b \in BucketIds, NEW v \in Int,
         \/ e.ids[j] = b
         \/ e.sums[j] = 0 /\ e.ids[1] # b /\ e.ids[2] # b
  PROVE  Adds(e, IntoSlot(e, j, b, v), b, v)
  <1>0. /\ e.sums \in [1..2 -> Int] /\ e.ids \in [1..2 -> 0..None] /\ e.dense \in [BucketIds -> Int]
        /\ b \in 0..None /\ b # None /\ None \in 0..None
    BY BucketTypes DEF Sound, ExactSums
  <1>1. PICK s \in Int : s = e.sums[j] + v
    BY <1>0
  <1>2. PICK i \in 0..None : i = IF s = 0 THEN None ELSE b
    BY <1>0
  <1>3. PICK f : f = [e EXCEPT !.sums[j] = s, !.ids[j] = i]
    OBVIOUS
  <1>4. PICK r : r = IntoSlot(e, j, b, v)
    OBVIOUS
  <1>5. r = Checked(f, s)
    BY <1>1, <1>2, <1>3, <1>4 DEF IntoSlot
  <1>6. /\ f.sums = [e.sums EXCEPT ![j] = s] /\ f.ids = [e.ids EXCEPT ![j] = i]
        /\ f.rare = FALSE /\ f.dense = e.dense /\ f.n = e.n /\ f.special = e.special /\ f \in ExactSums
    BY <1>0, <1>1, <1>2, <1>3, Zenon DEF Sound, ExactSums
  <1>7. PICK k \in 1..2 : k = 3 - j
    OBVIOUS
  <1>8. /\ f.sums[j] = s /\ f.ids[j] = i /\ f.sums[k] = e.sums[k] /\ f.ids[k] = e.ids[k]
        /\ e.ids[k] # b /\ {j, k} = {1, 2}
        /\ e.ids[j] = b \/ e.sums[j] = 0
        /\ e.ids[k] = None => e.sums[k] = 0
    <2>1. {j, k} = {1, 2} /\ j # k
      BY <1>7
    <2>2. e.ids[k] # b
      BY <1>0, <2>1 DEF Sound
    <2>. QED BY <1>0, <1>6, <2>1, <2>2 DEF Sound
  <1>9. Sound(f)
    <2>1. \A l \in 1..2 : f.ids[l] = None => f.sums[l] = 0
      BY <1>0, <1>2, <1>8
    <2>2. f.ids[1] = f.ids[2] => f.ids[1] = None
      BY <1>2, <1>8
    <2>. QED BY <1>6, <2>1, <2>2 DEF Sound
  <1>10. Entries(f) = [Entries(e) EXCEPT ![b] = @ + v]
    <2>1. ASSUME NEW c \in BucketIds
          PROVE  /\ Entries(e)[c] = IF e.ids[j] = c THEN e.sums[j] ELSE IF e.ids[k] = c THEN e.sums[k] ELSE 0
                 /\ Entries(f)[c] = IF f.ids[j] = c THEN f.sums[j] ELSE IF f.ids[k] = c THEN f.sums[k] ELSE 0
      <3>1. c # None
        BY BucketTypes
      <3>2. e.ids[1] = c => e.ids[2] # c
        BY <3>1 DEF Sound
      <3>3. f.ids[1] = c => f.ids[2] # c
        BY <3>1, <1>9 DEF Sound
      <3>4. Entries(e)[c] = IF e.ids[1] = c THEN e.sums[1] ELSE IF e.ids[2] = c THEN e.sums[2] ELSE 0
        BY DEF Entries
      <3>5. Entries(f)[c] = IF f.ids[1] = c THEN f.sums[1] ELSE IF f.ids[2] = c THEN f.sums[2] ELSE 0
        BY <1>6 DEF Entries
      <3>. QED BY <1>7, <3>2, <3>3, <3>4, <3>5
    <2>2. \A c \in BucketIds : c # None
      BY BucketTypes
    <2>3. ASSUME NEW c \in BucketIds
          PROVE  Entries(f)[c] = IF c = b THEN Entries(e)[c] + v ELSE Entries(e)[c]
      <3>1. CASE c = b
        <4>1. Entries(e)[b] = IF e.ids[j] = b THEN e.sums[j] ELSE 0
          BY <1>8, <2>1
        <4>2. Entries(f)[b] = IF i = b THEN s ELSE 0
          BY <1>8, <2>1
        <4>3. e.ids[j] # b => e.sums[j] = 0
          BY <1>8
        <4>4. e.sums[j] \in Int
          BY <1>0
        <4>. QED BY <1>1, <1>2, <3>1, <4>1, <4>2, <4>3, <4>4
      <3>2. CASE c # b
        <4>1. i # c
          BY <1>2, <2>2, <3>2
        <4>2. Entries(f)[c] = IF e.ids[k] = c THEN e.sums[k] ELSE 0
          BY <1>8, <2>1, <4>1
        <4>3. e.ids[j] = c => e.sums[j] = 0 /\ e.ids[k] # c
          <5> HAVE e.ids[j] = c
          <5>1. e.sums[j] = 0
            BY <1>8, <3>2
          <5>2. e.ids[k] # c
            BY <1>8, <2>2 DEF Sound
          <5>. QED BY <5>1, <5>2
        <4>. QED BY <2>1, <3>2, <4>2, <4>3
      <3>. QED BY <3>1, <3>2
    <2>4. Entries(e) \in [BucketIds -> Int] /\ Entries(f) \in [BucketIds -> Int]
      BY <1>9, EntryTypes
    <2>5. PICK E, F : E = Entries(e) /\ F = Entries(f)
      OBVIOUS
    <2>. QED BY <2>3, <2>4, <2>5
  <1>11. r.sum = f /\ r.ok \in BOOLEAN /\ (r.ok => -Limit <= s /\ s <= Limit)
    BY <1>5, CheckedIs
  <1>12. ASSUME NEW m \in Nat, Within(e, m)
         PROVE  /\ Within(f, m + Magnitude(v))
                /\ r.ok /\ Limit <= m => Within(f, m)
    <2>1. PICK t \in Nat : t = Magnitude(v) /\ -t <= v /\ v <= t
      BY MagnitudeIs
    <2>2. /\ -m <= e.sums[1] /\ e.sums[1] <= m /\ -m <= e.sums[2] /\ e.sums[2] <= m
          /\ \A c \in BucketIds : -m <= e.dense[c] /\ e.dense[c] <= m
      BY <1>12 DEF Within
    <2>3. -m <= e.sums[j] /\ e.sums[j] <= m /\ -m <= e.sums[k] /\ e.sums[k] <= m
      BY <1>12 DEF Within
    <2>4. e.sums[j] \in Int /\ e.sums[k] \in Int /\ \A c \in BucketIds : e.dense[c] \in Int
      BY <1>0
    <2>5. -(m + t) <= s /\ s <= m + t
      BY <1>1, <2>1, <2>3, <2>4
    <2>6. \A l \in 1..2 : -(m + t) <= f.sums[l] /\ f.sums[l] <= m + t
      <3> TAKE l \in 1..2
      <3>1. l = j \/ l = k
        BY <1>7
      <3>2. -(m + t) <= f.sums[k] /\ f.sums[k] <= m + t
        BY <1>8, <2>3, <2>4
      <3>3. -(m + t) <= f.sums[j] /\ f.sums[j] <= m + t
        BY <1>8, <2>5
      <3>. QED BY <3>1, <3>2, <3>3
    <2>7. \A c \in BucketIds : -(m + t) <= f.dense[c] /\ f.dense[c] <= m + t
      BY <1>6, <2>2, <2>4
    <2>8. Within(f, m + t)
      BY <2>6, <2>7 DEF Within
    <2>9. ASSUME r.ok, Limit <= m PROVE Within(f, m)
      <3>0. Limit \in Nat
        BY BucketTypes
      <3>1. -m <= s /\ s <= m
        BY <1>11, <2>9, <3>0
      <3>2. \A l \in 1..2 : -m <= f.sums[l] /\ f.sums[l] <= m
        <4> TAKE l \in 1..2
        <4>1. l = j \/ l = k
          BY <1>7
        <4>2. -m <= f.sums[k] /\ f.sums[k] <= m
          BY <1>8, <2>3
        <4>3. -m <= f.sums[j] /\ f.sums[j] <= m
          BY <1>8, <3>1
        <4>. QED BY <4>1, <4>2, <4>3
      <3>. QED BY <1>6, <2>2, <3>2 DEF Within
    <2>. QED BY <2>1, <2>8, <2>9
  <1>. QED BY <1>4, <1>6, <1>9, <1>10, <1>11, <1>12 DEF Adds


(* The same of the sum alone, where nothing looks at the range. *)
Moves(e, f, b, v) ==
  /\ Sound(f) /\ f.n = e.n /\ f.special = e.special
  /\ Entries(f) = [Entries(e) EXCEPT ![b] = @ + v]
  /\ \A m \in Nat : Within(e, m) => Within(f, m + Magnitude(v))

LEMMA DenseAdds ==
  ASSUME NEW e, Sound(e), e.rare, NEW b \in BucketIds, NEW v \in Int
  PROVE  /\ Moves(e, [e EXCEPT !.dense[b] = @ + v], b, v)
         /\ Adds(e, Checked([e EXCEPT !.dense[b] = @ + v], e.dense[b] + v), b, v)
  <1>0. e.sums \in [1..2 -> Int] /\ e.dense \in [BucketIds -> Int] /\ e.dense[b] \in Int
    BY DEF Sound, ExactSums
  <1>1. PICK s \in Int : s = e.dense[b] + v
    BY <1>0
  <1>2. PICK f : f = [e EXCEPT !.dense[b] = @ + v]
    BY Zenon
  <1>3. /\ f.sums = e.sums /\ f.ids = e.ids /\ f.rare = TRUE /\ f.n = e.n /\ f.special = e.special
        /\ f.dense = [e.dense EXCEPT ![b] = s] /\ f \in ExactSums
    BY <1>0, <1>1, <1>2 DEF Sound, ExactSums
  <1>4. Sound(f)
    BY <1>3 DEF Sound
  <1>5. Entries(f) = [Entries(e) EXCEPT ![b] = @ + v]
    <2>1. Entries(f) = [c \in BucketIds |-> f.dense[c]] /\ Entries(e) = [c \in BucketIds |-> e.dense[c]]
      BY <1>3 DEF Entries
    <2>. QED BY <1>0, <1>1, <1>3, <2>1
  <1>6. PICK r : r = Checked(f, s)
    OBVIOUS
  <1>7. r.sum = f /\ r.ok \in BOOLEAN /\ (r.ok => -Limit <= s /\ s <= Limit)
    BY <1>6, CheckedIs
  <1>8. ASSUME NEW m \in Nat, Within(e, m)
        PROVE  /\ Within(f, m + Magnitude(v))
               /\ r.ok /\ Limit <= m => Within(f, m)
    <2>1. PICK t \in Nat : t = Magnitude(v) /\ -t <= v /\ v <= t
      BY MagnitudeIs
    <2>2. /\ \A j \in 1..2 : -m <= e.sums[j] /\ e.sums[j] <= m /\ e.sums[j] \in Int
          /\ \A c \in BucketIds : -m <= e.dense[c] /\ e.dense[c] <= m /\ e.dense[c] \in Int
      BY <1>0, <1>8 DEF Within
    <2>3. \A c \in BucketIds : f.dense[c] = IF c = b THEN s ELSE e.dense[c]
      BY <1>0, <1>3
    <2>4. -(m + t) <= s /\ s <= m + t
      BY <1>1, <2>1, <2>2
    <2>5. \A c \in BucketIds : -(m + t) <= f.dense[c] /\ f.dense[c] <= m + t
      <3> TAKE c \in BucketIds
      <3>1. PICK d \in Int : d = e.dense[c] /\ -m <= d /\ d <= m
        BY <2>2
      <3>. QED BY <2>3, <2>4, <3>1
    <2>6. \A j \in 1..2 : -(m + t) <= f.sums[j] /\ f.sums[j] <= m + t
      BY <1>3, <2>2
    <2>7. ASSUME r.ok, Limit <= m PROVE Within(f, m)
      <3>1. -m <= s /\ s <= m
        BY <1>7, <2>7, BucketTypes
      <3>2. \A c \in BucketIds : -m <= f.dense[c] /\ f.dense[c] <= m
        BY <2>2, <2>3, <3>1
      <3>. QED BY <1>3, <2>2, <3>2 DEF Within
    <2>. QED BY <2>1, <2>5, <2>6, <2>7 DEF Within
  <1>9. Moves(e, f, b, v)
    BY <1>3, <1>4, <1>5, <1>8 DEF Moves
  <1>10. Adds(e, r, b, v)
    BY <1>3, <1>4, <1>5, <1>7, <1>8 DEF Adds
  <1>. QED BY <1>1, <1>2, <1>6, <1>9, <1>10

LEMMA BucketSlowAdds ==
  ASSUME NEW e, Sound(e), NEW b \in BucketIds, NEW v \in Int, e.ids[1] # b, e.ids[2] # b
  PROVE  Adds(e, BucketSlow(e, b, v), b, v)
  <1>1. CASE e.rare \/ FreeSlots(e) = {}
    <2>1. PICK p : p = Promoted(e) /\ Sound(p) /\ p.rare /\ Entries(p) = Entries(e) /\ p.n = e.n
                   /\ p.special = e.special /\ \A m \in Nat : Within(e, m) => Within(p, m)
      BY PromotedKeeps
    <2>2. PICK r : r = Checked([p EXCEPT !.dense[b] = @ + v], p.dense[b] + v)
      OBVIOUS
    <2>3. Adds(p, r, b, v)
      BY <2>1, <2>2, DenseAdds
    <2>4. BucketSlow(e, b, v) = r
      BY <1>1, <2>1, <2>2 DEF BucketSlow
    <2>. QED BY <2>1, <2>3, <2>4 DEF Adds
  <1>2. CASE ~e.rare /\ FreeSlots(e) # {}
    <2>1. PICK j \in FreeSlots(e) : j = IF 1 \in FreeSlots(e) THEN 1 ELSE 2
      <3>1. FreeSlots(e) \subseteq {1, 2}
        BY DEF FreeSlots
      <3>. QED BY <1>2, <3>1
    <2>2. j \in 1..2 /\ e.sums[j] = 0
      BY <2>1 DEF FreeSlots, Sound
    <2>3. Adds(e, IntoSlot(e, j, b, v), b, v)
      BY <1>2, <2>2, IntoSlotAdds
    <2>. QED BY <1>2, <2>1, <2>3 DEF BucketSlow
  <1>. QED BY <1>1, <1>2

LEMMA AddUnitsAdds ==
  ASSUME NEW e, Sound(e), NEW b \in BucketIds, NEW v \in Int
  PROVE  Adds(e, AddUnits(e, b, v), b, v)
  <1>1. CASE b \in {e.ids[1], e.ids[2]}
    <2>1. ~e.rare
      <3>1. b # None
        BY BucketTypes
      <3>. QED BY <1>1, <3>1 DEF Sound
    <2>2. PICK j \in 1..2 : j = IF e.ids[2] = b THEN 2 ELSE 1
      OBVIOUS
    <2>3. e.ids[j] = b
      BY <1>1, <2>2
    <2>4. Adds(e, IntoSlot(e, j, b, v), b, v)
      BY <2>1, <2>3, IntoSlotAdds
    <2>. QED BY <1>1, <2>2, <2>4 DEF AddUnits
  <1>2. CASE b \notin {e.ids[1], e.ids[2]}
    <2>1. Adds(e, BucketSlow(e, b, v), b, v)
      BY <1>2, BucketSlowAdds
    <2>. QED BY <1>2, <2>1 DEF AddUnits
  <1>. QED BY <1>1, <1>2

(* A row into a slot without a look at its range: the bucket's, or the     *)
(* first when it has none.                                                 *)
LEMMA SlotMoves ==
  ASSUME NEW e, Sound(e), ~e.rare, NEW j \in 1..2, NEW b \in BucketIds, NEW v \in Int,
         \/ e.ids[j] = b
         \/ e.sums[j] = 0 /\ e.ids[1] # b /\ e.ids[2] # b,
         NEW f, f = [e EXCEPT !.sums[j] = e.sums[j] + v, !.ids[j] = b]
  PROVE  Moves(e, f, b, v)
  <1>0. /\ e.sums \in [1..2 -> Int] /\ e.ids \in [1..2 -> 0..None] /\ e.dense \in [BucketIds -> Int]
        /\ b \in 0..None /\ b # None /\ None \in 0..None
    <2>1. e \in ExactSums
      BY DEF Sound
    <2>2. b \in 0..None /\ b # None /\ None \in 0..None
      BY BucketTypes
    <2>. QED BY <2>1, <2>2 DEF ExactSums
  <1>1. PICK s \in Int : s = e.sums[j] + v
    BY <1>0
  <1>6. /\ f.sums = [e.sums EXCEPT ![j] = s] /\ f.ids = [e.ids EXCEPT ![j] = b]
        /\ f.rare = FALSE /\ f.dense = e.dense /\ f.n = e.n /\ f.special = e.special /\ f \in ExactSums
    BY <1>0, <1>1, Zenon DEF Sound, ExactSums
  <1>7. PICK k \in 1..2 : k = 3 - j
    OBVIOUS
  <1>8. /\ f.sums[j] = s /\ f.ids[j] = b /\ f.sums[k] = e.sums[k] /\ f.ids[k] = e.ids[k]
        /\ e.ids[k] # b /\ {j, k} = {1, 2}
        /\ e.ids[j] = b \/ e.sums[j] = 0
        /\ e.ids[k] = None => e.sums[k] = 0
    <2>1. {j, k} = {1, 2} /\ j # k
      BY <1>7
    <2>2. e.ids[k] # b
      BY <1>0, <2>1 DEF Sound
    <2>. QED BY <1>0, <1>6, <2>1, <2>2 DEF Sound
  <1>9. Sound(f)
    <2>1. \A l \in 1..2 : f.ids[l] = None => f.sums[l] = 0
      BY <1>0, <1>8
    <2>2. f.ids[1] # f.ids[2]
      BY <1>8
    <2>. QED BY <1>6, <2>1, <2>2 DEF Sound
  <1>10. ASSUME NEW c \in BucketIds
         PROVE  Entries(f)[c] = IF c = b THEN Entries(e)[c] + v ELSE Entries(e)[c]
    <2>1. c # None
      BY BucketTypes
    <2>2. /\ Entries(e)[c] = IF e.ids[1] = c THEN e.sums[1] ELSE IF e.ids[2] = c THEN e.sums[2] ELSE 0
          /\ Entries(f)[c] = IF f.ids[1] = c THEN f.sums[1] ELSE IF f.ids[2] = c THEN f.sums[2] ELSE 0
      BY <1>6 DEF Entries
    <2>3. (e.ids[1] = c => e.ids[2] # c) /\ (f.ids[1] = c => f.ids[2] # c)
      BY <1>9, <2>1 DEF Sound
    <2>4. /\ Entries(e)[c] = IF e.ids[j] = c THEN e.sums[j] ELSE IF e.ids[k] = c THEN e.sums[k] ELSE 0
          /\ Entries(f)[c] = IF f.ids[j] = c THEN f.sums[j] ELSE IF f.ids[k] = c THEN f.sums[k] ELSE 0
      BY <1>7, <2>2, <2>3
    <2>5. CASE c = b
      <3>1. Entries(e)[c] = IF e.ids[j] = c THEN e.sums[j] ELSE 0
        BY <1>8, <2>4, <2>5
      <3>2. Entries(e)[c] = e.sums[j]
        BY <1>8, <2>5, <3>1
      <3>. QED BY <1>1, <1>8, <2>4, <2>5, <3>2
    <2>6. CASE c # b
      <3>1. Entries(f)[c] = IF e.ids[k] = c THEN e.sums[k] ELSE 0
        BY <1>8, <2>4, <2>6
      <3>2. e.ids[j] = c => e.sums[j] = 0 /\ e.ids[k] # c
        BY <1>7, <1>8, <2>3, <2>6
      <3>. QED BY <2>4, <2>6, <3>1, <3>2
    <2>. QED BY <2>5, <2>6
  <1>11. Entries(f) = [Entries(e) EXCEPT ![b] = @ + v]
    <2>1. Entries(e) \in [BucketIds -> Int] /\ Entries(f) \in [BucketIds -> Int]
      BY <1>9, EntryTypes
    <2>2. PICK E, F : E = Entries(e) /\ F = Entries(f)
      OBVIOUS
    <2>. QED BY <1>10, <2>1, <2>2, Zenon
  <1>12. ASSUME NEW m \in Nat, Within(e, m)
         PROVE  Within(f, m + Magnitude(v))
    <2>1. PICK t \in Nat : t = Magnitude(v) /\ -t <= v /\ v <= t
      BY MagnitudeIs
    <2>2. /\ \A c \in BucketIds : -m <= e.dense[c] /\ e.dense[c] <= m /\ e.dense[c] \in Int
      BY <1>0, <1>12 DEF Within
    <2>3. /\ -m <= e.sums[j] /\ e.sums[j] <= m /\ -m <= e.sums[k] /\ e.sums[k] <= m
          /\ e.sums[j] \in Int /\ e.sums[k] \in Int
      BY <1>0, <1>12 DEF Within
    <2>4. -(m + t) <= s /\ s <= m + t
      BY <1>1, <2>1, <2>3
    <2>5. -(m + t) <= f.sums[k] /\ f.sums[k] <= m + t
      BY <1>8, <2>3
    <2>6. \A l \in 1..2 : -(m + t) <= f.sums[l] /\ f.sums[l] <= m + t
      <3> TAKE l \in 1..2
      <3>1. l = j \/ l = k
        BY <1>7
      <3>. QED BY <1>8, <2>4, <2>5, <3>1
    <2>7. \A c \in BucketIds : -(m + t) <= f.dense[c] /\ f.dense[c] <= m + t
      BY <1>6, <2>2
    <2>. QED BY <2>1, <2>6, <2>7 DEF Within
  <1>. QED BY <1>6, <1>9, <1>11, <1>12 DEF Moves

-----------------------------------------------------------------------------
(* Totals: buckets, each counted in its order.                             *)
LEMMA SumOfBoth ==
  ASSUME NEW S, IsFiniteSet(S), NEW f \in [S -> Int], NEW g \in [S -> Int],
         NEW h \in [S -> Int], \A x \in S : h[x] = f[x] + g[x]
  PROVE  SumFunctionOnSet(h, S) = SumFunctionOnSet(f, S) + SumFunctionOnSet(g, S)
  <1> DEFINE F == Adder(f, S)
             G == Adder(g, S)
             H == Adder(h, S)
             I == {n \in Nat : \A s \in SUBSET S : Cardinality(s) = n =>
                     F[s] \in Int /\ G[s] \in Int /\ H[s] = F[s] + G[s]}
  <1>1. /\ \A s \in SUBSET S : F[s] = IF s = {} THEN 0 ELSE f[Picked(s)] + F[s \ {Picked(s)}]
        /\ \A s \in SUBSET S : G[s] = IF s = {} THEN 0 ELSE g[Picked(s)] + G[s \ {Picked(s)}]
        /\ \A s \in SUBSET S : H[s] = IF s = {} THEN 0 ELSE h[Picked(s)] + H[s \ {Picked(s)}]
    <2>1. Adding(f, S, F) /\ Adding(g, S, G) /\ Adding(h, S, H)
      BY AdderAdds
    <2> HIDE DEF F, G, H
    <2>. QED BY <2>1, Zenon DEF Adding
  <1> HIDE DEF F, G, H
  <1>2. 0 \in I
    <2> SUFFICES ASSUME NEW s \in SUBSET S, Cardinality(s) = 0
                 PROVE  F[s] = 0 /\ G[s] = 0 /\ H[s] = 0
      OBVIOUS
    <2>1. s = {}
      BY FS_EmptySet, FS_Subset
    <2>. QED BY <1>1, <2>1, Zenon
  <1>3. ASSUME NEW n \in Nat, n \in I PROVE n + 1 \in I
    <2> SUFFICES ASSUME NEW s \in SUBSET S, Cardinality(s) = n + 1
                 PROVE  F[s] \in Int /\ G[s] \in Int /\ H[s] = F[s] + G[s]
      BY <1>3
    <2>1. s # {} /\ IsFiniteSet(s)
      BY FS_EmptySet, FS_Subset
    <2> DEFINE x == Picked(s)
               t == s \ {x}
    <2>2. x \in s
      BY <2>1 DEF Picked
    <2>3. t \in SUBSET S /\ Cardinality(t) = n
      <3>1. Cardinality(s \ {Picked(s)}) = Cardinality(s) - 1
        BY <2>1, PickedLess, Zenon
      <3>2. (n + 1) - 1 = n
        OBVIOUS
      <3>. QED BY <3>1, <3>2
    <2>4. F[s] = f[x] + F[t] /\ G[s] = g[x] + G[t] /\ H[s] = h[x] + H[t]
      BY <1>1, <2>1, Zenon
    <2> HIDE DEF x
    <2>5. F[t] \in Int /\ G[t] \in Int /\ H[t] = F[t] + G[t]
      BY <1>3, <2>3
    <2>6. f[x] \in Int /\ g[x] \in Int /\ h[x] = f[x] + g[x]
      BY <2>2
    <2>. HIDE DEF t
    <2>. QED BY <2>4, <2>5, <2>6
  <1>4. Cardinality(S) \in Nat
    BY FS_CardinalityType
  <1>5. Cardinality(S) \in I
    <2> HIDE DEF I
    <2>. QED BY <1>2, <1>3, <1>4, ByInduction
  <1>6. H[S] = F[S] + G[S]
    BY <1>5
  <1>7. SumFunctionOnSet(f, S) = F[S] /\ SumFunctionOnSet(g, S) = G[S] /\ SumFunctionOnSet(h, S) = H[S]
    BY SumIs DEF F, G, H
  <1>. QED BY <1>6, <1>7

Places(f) == [b \in BucketIds |-> f[b] * Two[Orders * b]]
Weighted(f) == SumFunctionOnSet(Places(f), BucketIds)

LEMMA PlacesType ==
  ASSUME NEW f \in [BucketIds -> Int]
  PROVE  /\ Places(f) \in [BucketIds -> Int]
         /\ \A b \in BucketIds : Two[Orders * b] \in Nat /\ Places(f)[b] = f[b] * Two[Orders * b]
  <1>1. ASSUME NEW b \in BucketIds PROVE Two[Orders * b] \in Nat
    <2>1. Orders * b \in Nat
      BY BucketTypes
    <2>. QED BY <2>1, PowersPositive
  <1>2. \A b \in BucketIds : f[b] * Two[Orders * b] \in Int
    <2> TAKE b \in BucketIds
    <2>1. PICK t \in Nat : t = Two[Orders * b]
      BY <1>1
    <2>2. f[b] \in Int
      OBVIOUS
    <2>. QED BY <2>1, <2>2
  <1>. QED BY <1>1, <1>2 DEF Places

(* v in the bucket b, in units. *)
Scaled(v, b) == v * Two[Orders * b]

OneMore(f, g, b, v) ==
  /\ f \in [BucketIds -> Int] /\ g \in [BucketIds -> Int] /\ b \in BucketIds /\ v \in Int
  /\ g[b] = f[b] + v /\ \A y \in BucketIds \ {b} : g[y] = f[y]

LEMMA WeightedChange ==
  ASSUME NEW f, NEW g, NEW b, NEW v, OneMore(f, g, b, v)
  PROVE  Weighted(f) \in Int /\ Weighted(g) = Weighted(f) + Scaled(v, b)
  <1>1. /\ f \in [BucketIds -> Int] /\ g \in [BucketIds -> Int] /\ b \in BucketIds /\ v \in Int
        /\ g[b] = f[b] + v /\ \A y \in BucketIds \ {b} : g[y] = f[y]
    BY DEF OneMore
  <1>2. PICK P, Q : P = Places(f) /\ Q = Places(g)
    OBVIOUS
  <1>3. P \in [BucketIds -> Int] /\ Q \in [BucketIds -> Int]
    BY <1>1, <1>2, PlacesType
  <1>4. PICK t \in Nat : t = Two[Orders * b]
    BY <1>1, PlacesType, Zenon
  <1>5. P[b] = f[b] * t /\ Q[b] = (f[b] + v) * t
    BY <1>1, <1>2, <1>4, PlacesType
  <1>6. Q[b] - P[b] = v * t
    <2>1. PICK y \in Int : y = f[b]
      BY <1>1
    <2>2. (y + v) * t = y * t + v * t
      BY <1>1
    <2>. QED BY <1>1, <1>5, <2>1, <2>2
  <1>7. \A x \in BucketIds \ {b} : P[x] = Q[x]
    BY <1>1, <1>2, PlacesType
  <1>8. IsFiniteSet(BucketIds)
    BY BucketTypes
  <1>9. SumFunctionOnSet(P, BucketIds) \in Int
        /\ SumFunctionOnSet(Q, BucketIds) = SumFunctionOnSet(P, BucketIds) + (Q[b] - P[b])
    BY <1>1, <1>3, <1>7, <1>8, SumChange
  <1>10. Scaled(v, b) = Q[b] - P[b]
    BY <1>4, <1>6 DEF Scaled
  <1>. QED BY <1>2, <1>9, <1>10 DEF Weighted

LEMMA WeightedBoth ==
  ASSUME NEW f \in [BucketIds -> Int], NEW g \in [BucketIds -> Int], NEW h,
         h = [b \in BucketIds |-> f[b] + g[b]]
  PROVE  Weighted(f) \in Int /\ Weighted(g) \in Int /\ Weighted(h) = Weighted(f) + Weighted(g)
  <1>1. h \in [BucketIds -> Int]
    OBVIOUS
  <1>2. PICK P, Q, R : P = Places(f) /\ Q = Places(g) /\ R = Places(h)
    BY Zenon
  <1>3. P \in [BucketIds -> Int] /\ Q \in [BucketIds -> Int] /\ R \in [BucketIds -> Int]
    BY <1>1, <1>2, PlacesType
  <1>4. ASSUME NEW b \in BucketIds PROVE R[b] = P[b] + Q[b]
    <2>1. PICK t \in Nat : t = Two[Orders * b]
      BY PlacesType, Zenon
    <2>2. P[b] = f[b] * t /\ Q[b] = g[b] * t /\ R[b] = h[b] * t
      BY <1>1, <1>2, <2>1, PlacesType
    <2>3. PICK x \in Int, y \in Int : x = f[b] /\ y = g[b] /\ h[b] = x + y
      OBVIOUS
    <2>4. (x + y) * t = x * t + y * t
      OBVIOUS
    <2>. QED BY <2>2, <2>3, <2>4
  <1>5. IsFiniteSet(BucketIds) /\ 0 \in BucketIds
    BY BucketTypes
  <1>6. SumFunctionOnSet(R, BucketIds) = SumFunctionOnSet(P, BucketIds) + SumFunctionOnSet(Q, BucketIds)
    BY <1>3, <1>4, <1>5, SumOfBoth
  <1>7. SumFunctionOnSet(P, BucketIds) \in Int /\ SumFunctionOnSet(Q, BucketIds) \in Int
    BY <1>3, <1>5, SumChange, Zenon
  <1>. QED BY <1>2, <1>6, <1>7 DEF Weighted

NoLanes == [b \in BucketIds |-> 0]

LEMMA WeightedNone == NoLanes \in [BucketIds -> Int] /\ Weighted(NoLanes) = 0
  <1>1. NoLanes \in [BucketIds -> Int]
    BY DEF NoLanes
  <1>2. NoLanes = [b \in BucketIds |-> NoLanes[b] + NoLanes[b]]
    BY DEF NoLanes
  <1>3. PICK w : w = Weighted(NoLanes)
    OBVIOUS
  <1>4. w \in Int /\ w = w + w
    BY <1>1, <1>2, <1>3, WeightedBoth
  <1>5. w = 0
    BY <1>4
  <1>. QED BY <1>1, <1>3, <1>5

LEMMA TotalIs == \A e : Total(e) = Weighted(Entries(e))
  BY DEF Total, Weighted, Places

Totals == [total : Int, special : Specials, n : Int]
Sense(e) == [total |-> Total(e), special |-> e.special, n |-> e.n]

LEMMA SenseType ==
  ASSUME NEW e, Sound(e)
  PROVE  Total(e) \in Int /\ Sense(e) \in Totals
  <1>1. Entries(e) \in [BucketIds -> Int] /\ 0 \in BucketIds
    BY EntryTypes, BucketTypes
  <1>2. Weighted(Entries(e)) \in Int
    BY <1>1, WeightedBoth, Zenon
  <1>3. Total(e) \in Int
    BY <1>2, TotalIs
  <1>4. e.special \in Specials /\ e.n \in Int
    BY DEF Sound, ExactSums
  <1>. QED BY <1>3, <1>4 DEF Sense, Totals

LEMMA EntryTotal ==
  ASSUME NEW e, NEW f, Sound(e), NEW b \in BucketIds, NEW v \in Int,
         Entries(f) = [Entries(e) EXCEPT ![b] = @ + v]
  PROVE  Total(e) \in Int /\ Total(f) = Total(e) + v * Two[Orders * b]
  <1>1. Entries(e) \in [BucketIds -> Int]
    BY EntryTypes
  <1>2. PICK E, F : E = Entries(e) /\ F = Entries(f)
    OBVIOUS
  <1>3. OneMore(E, F, b, v)
    BY <1>1, <1>2 DEF OneMore
  <1>4. Weighted(E) \in Int /\ Weighted(F) = Weighted(E) + Scaled(v, b)
    BY <1>3, WeightedChange
  <1>. QED BY <1>2, <1>4, TotalIs, Zenon DEF Scaled

(* Counting a special leaves the buckets alone. *)
Marks == {"nan", "pos", "inf"}

LEMMA CountedKeeps ==
  ASSUME NEW e, Sound(e), NEW k \in Marks, NEW c \in Int
  PROVE  LET f == Counted(e, k, c) IN
         /\ Sound(f) /\ f.n = e.n /\ f.special = [e.special EXCEPT ![k] = @ + c]
         /\ Entries(f) = Entries(e)
         /\ \A m \in Nat : Within(e, m) => Within(f, m)
  <1>1. PICK p : p = Promoted(e) /\ Sound(p) /\ p.rare /\ Entries(p) = Entries(e) /\ p.n = e.n
                 /\ p.special = e.special /\ \A m \in Nat : Within(e, m) => Within(p, m)
    BY PromotedKeeps
  <1>2. p.special \in Specials
    BY <1>1 DEF Sound, ExactSums
  <1>3. PICK s : s = [p.special EXCEPT ![k] = @ + c]
    BY Zenon
  <1>4. s \in Specials
    <2>1. PICK q \in Specials : q = p.special
      BY <1>2
    <2>2. CASE k = "nan"
      <3>1. s = [q EXCEPT !.nan = q.nan + c]
        BY <1>3, <2>1, <2>2
      <3>. QED BY <2>1, <3>1 DEF Specials
    <2>3. CASE k = "pos"
      <3>1. s = [q EXCEPT !.pos = q.pos + c]
        BY <1>3, <2>1, <2>3
      <3>. QED BY <2>1, <3>1 DEF Specials
    <2>4. CASE k = "inf"
      <3>1. s = [q EXCEPT !.inf = q.inf + c]
        BY <1>3, <2>1, <2>4
      <3>. QED BY <2>1, <3>1 DEF Specials
    <2>. QED BY <2>2, <2>3, <2>4 DEF Marks
  <1>5. PICK f : f = Counted(e, k, c)
    OBVIOUS
  <1>6. f = [p EXCEPT !.special = s]
    BY <1>1, <1>3, <1>5 DEF Counted
  <1>7. /\ f.sums = p.sums /\ f.ids = p.ids /\ f.rare = p.rare /\ f.dense = p.dense /\ f.n = p.n
        /\ f.special = s /\ f \in ExactSums
    BY <1>1, <1>4, <1>6, Zenon DEF Sound, ExactSums
  <1>8. Sound(f) /\ Entries(f) = Entries(p) /\ \A m \in Nat : Within(p, m) => Within(f, m)
    BY <1>1, <1>7 DEF Sound, Entries, Within
  <1>. QED BY <1>1, <1>3, <1>5, <1>7, <1>8

LEMMA SpecialMark == \A x \in Double : SpecialOf(x) \in Marks
  BY DEF SpecialOf, Marks

(* What one more value does to an exact sum. *)
Takes(e, r, x) ==
  /\ Sound(r.sum) /\ r.ok \in BOOLEAN /\ r.sum.n = e.n
  /\ Total(r.sum) = Tally(Sense(e), x, 1).total
  /\ r.sum.special = Tally(Sense(e), x, 1).special
  /\ \A m \in Nat : Within(e, m) => Within(r.sum, m + MaxUnits)

LEMMA WithinMore ==
  ASSUME NEW e, Sound(e), NEW m \in Nat, NEW k \in Nat, m <= k, Within(e, m)
  PROVE  Within(e, k)
  <1>1. e.sums \in [1..2 -> Int] /\ e.dense \in [BucketIds -> Int]
    BY DEF Sound, ExactSums
  <1>2. \A j \in 1..2 : -k <= e.sums[j] /\ e.sums[j] <= k
    <2> TAKE j \in 1..2
    <2>1. PICK d \in Int : d = e.sums[j] /\ -m <= d /\ d <= m
      BY <1>1 DEF Within
    <2>. QED BY <2>1
  <1>3. \A b \in BucketIds : -k <= e.dense[b] /\ e.dense[b] <= k
    <2> TAKE b \in BucketIds
    <2>1. PICK d \in Int : d = e.dense[b] /\ -m <= d /\ d <= m
      BY <1>1 DEF Within
    <2>. QED BY <2>1
  <1>. QED BY <1>2, <1>3 DEF Within

LEMMA FiniteMoves ==
  ASSUME NEW e, Sound(e), NEW x \in Double, IsFinite(x), NEW f, Moves(e, f, BucketOf(x), InBucket(x)),
         NEW ok \in BOOLEAN
  PROVE  Takes(e, [sum |-> f, ok |-> ok], x)
  <1>1. PICK b \in BucketIds, v \in Int :
          b = BucketOf(x) /\ v = InBucket(x) /\ -MaxUnits <= v /\ v <= MaxUnits
          /\ UnitsOf(x) = v * Two[Orders * b]
    BY FiniteUnits
  <1>2. MaxUnits \in Nat
    BY BucketTypes
  <1>3. PICK t \in Nat : t = Magnitude(v) /\ t <= MaxUnits
    BY <1>1, <1>2 DEF Magnitude
  <1>4. Total(f) = Total(e) + UnitsOf(x) /\ UnitsOf(x) \in Int /\ Total(e) \in Int
    <2>1. Entries(f) = [Entries(e) EXCEPT ![b] = @ + v]
      BY <1>1 DEF Moves
    <2>2. Total(e) \in Int /\ Total(f) = Total(e) + v * Two[Orders * b]
      BY <2>1, EntryTotal
    <2>3. PICK w \in Nat : w = Two[Orders * b]
      <3>1. Orders * b \in Nat
        BY BucketTypes
      <3>. QED BY <3>1, PowersPositive
    <2>4. v * w \in Int
      OBVIOUS
    <2>. QED BY <1>1, <2>2, <2>3, <2>4
  <1>5. Tally(Sense(e), x, 1).total = Total(e) + UnitsOf(x)
        /\ Tally(Sense(e), x, 1).special = e.special
    BY <1>4 DEF Tally, Sense
  <1>6. ASSUME NEW m \in Nat, Within(e, m) PROVE Within(f, m + MaxUnits)
    <2>1. Sound(f) /\ Within(f, m + t)
      BY <1>1, <1>3, <1>6 DEF Moves
    <2>2. m + t \in Nat /\ m + MaxUnits \in Nat /\ m + t <= m + MaxUnits
      BY <1>2, <1>3
    <2>. QED BY <2>1, <2>2, WithinMore
  <1>7. Sound(f) /\ f.n = e.n /\ f.special = e.special
    BY DEF Moves
  <1>. QED BY <1>4, <1>5, <1>6, <1>7 DEF Takes

LEMMA SpecialMoves ==
  ASSUME NEW e, Sound(e), NEW x \in Double, ~IsFinite(x)
  PROVE  Takes(e, Sum(Counted(e, SpecialOf(x), 1)), x)
         /\ \A m \in Nat : Within(e, m) => Within(Counted(e, SpecialOf(x), 1), m)
  <1>1. PICK k \in Marks : k = SpecialOf(x)
    BY SpecialMark
  <1>2. PICK f : f = Counted(e, k, 1)
    OBVIOUS
  <1>3. /\ Sound(f) /\ f.n = e.n /\ f.special = [e.special EXCEPT ![k] = @ + 1]
        /\ Entries(f) = Entries(e)
        /\ \A m \in Nat : Within(e, m) => Within(f, m)
    BY <1>2, CountedKeeps
  <1>4. Total(f) = Total(e)
    BY <1>3, TotalIs
  <1>5. Tally(Sense(e), x, 1).total = Total(e)
        /\ Tally(Sense(e), x, 1).special = [e.special EXCEPT ![k] = @ + 1]
    BY <1>1 DEF Tally, Sense
  <1>6. ASSUME NEW m \in Nat, Within(e, m) PROVE Within(f, m + MaxUnits)
    <2>1. m + MaxUnits \in Nat /\ m <= m + MaxUnits
      BY BucketTypes
    <2>. QED BY <1>3, <1>6, <2>1, WithinMore
  <1>. QED BY <1>1, <1>2, <1>3, <1>4, <1>5, <1>6 DEF Takes, Sum

LEMMA ZeroMoves ==
  ASSUME NEW e, Sound(e), NEW x \in Double, IsFinite(x), InBucket(x) = 0
  PROVE  Takes(e, Sum(e), x)
  <1>1. UnitsOf(x) = 0
    <2>1. PICK b \in BucketIds : UnitsOf(x) = 0 * Two[Orders * b]
      BY FiniteUnits
    <2>2. Two[Orders * b] \in Nat
      <3>1. Orders * b \in Nat
        BY BucketTypes
      <3>. QED BY <3>1, PowersPositive
    <2>. QED BY <2>1, <2>2
  <1>2. Total(e) \in Int
    BY SenseType
  <1>3. Tally(Sense(e), x, 1).total = Total(e) /\ Tally(Sense(e), x, 1).special = e.special
    BY <1>1, <1>2 DEF Tally, Sense
  <1>4. ASSUME NEW m \in Nat, Within(e, m) PROVE Within(e, m + MaxUnits)
    <2>1. m + MaxUnits \in Nat /\ m <= m + MaxUnits
      BY BucketTypes
    <2>. QED BY <1>4, <2>1, WithinMore
  <1>. QED BY <1>3, <1>4 DEF Takes, Sum

LEMMA AddTakes ==
  ASSUME NEW e, Sound(e), NEW x \in Double
  PROVE  /\ Takes(e, Add(e, x), x)
         /\ Add(e, x) = [sum |-> Add(e, x).sum, ok |-> Add(e, x).ok]
         /\ Add(e, x).ok => \A m \in Nat : Within(e, m) /\ Limit <= m => Within(Add(e, x).sum, m)
  <1>0. Add(e, x) = [sum |-> Add(e, x).sum, ok |-> Add(e, x).ok]
    BY Zenon DEF Add, AddUnits, BucketSlow, IntoSlot, Checked, Sum, Refused
  <1>1. CASE ~IsFinite(x)
    BY <1>0, <1>1, SpecialMoves DEF Add, Sum
  <1>2. CASE IsFinite(x) /\ InBucket(x) = 0
    BY <1>0, <1>2, ZeroMoves DEF Add, Sum
  <1>3. CASE IsFinite(x) /\ InBucket(x) # 0
    <2>1. PICK b \in BucketIds, v \in Int : b = BucketOf(x) /\ v = InBucket(x)
      BY <1>3, FiniteUnits
    <2>2. PICK r : r = Add(e, x)
      OBVIOUS
    <2>3. r = AddUnits(e, b, v)
      BY <1>3, <2>1, <2>2 DEF Add
    <2>4. Adds(e, r, b, v)
      BY <2>3, AddUnitsAdds
    <2>5. Moves(e, r.sum, b, v)
      BY <2>4 DEF Adds, Moves
    <2>6. r.ok \in BOOLEAN
      BY <2>4 DEF Adds
    <2>7. Takes(e, r, x)
      <3>1. Takes(e, [sum |-> r.sum, ok |-> r.ok], x)
        BY <1>3, <2>1, <2>5, <2>6, FiniteMoves
      <3>. QED BY <1>0, <2>2, <3>1
    <2>8. r.ok => \A m \in Nat : Within(e, m) /\ Limit <= m => Within(r.sum, m)
      BY <2>4 DEF Adds
    <2>. QED BY <1>0, <2>2, <2>7, <2>8
  <1>. QED BY <1>1, <1>2, <1>3

LEMMA RowTakes ==
  ASSUME NEW e, Sound(e), NEW x \in Double
  PROVE  /\ Takes(e, RowInto(e, x), x)
         /\ RowInto(e, x) = [sum |-> RowInto(e, x).sum, ok |-> RowInto(e, x).ok]
  <1>0. PICK r : r = RowInto(e, x)
    OBVIOUS
  <1>1. CASE ~IsFinite(x) \/ InBucket(x) = 0
    <2>1. r = Add(e, x)
      BY <1>0, <1>1 DEF RowInto
    <2>. QED BY <1>0, <2>1, AddTakes
  <1>2. CASE IsFinite(x) /\ InBucket(x) # 0
    <2>1. PICK b \in BucketIds, v \in Int : b = BucketOf(x) /\ v = InBucket(x)
      BY <1>2, FiniteUnits
    <2>2. b # None
      BY BucketTypes
    <2>3. CASE b \in {e.ids[1], e.ids[2]}
      <3>1. PICK j \in 1..2 : j = IF e.ids[2] = b THEN 2 ELSE 1
        OBVIOUS
      <3>2. e.ids[j] = b /\ ~e.rare
        BY <2>2, <2>3, <3>1 DEF Sound
      <3>3. PICK f : f = [e EXCEPT !.sums[j] = e.sums[j] + v, !.ids[j] = b]
        OBVIOUS
      <3>4. [e EXCEPT !.sums[j] = @ + v] = f
        <4>1. e \in ExactSums
          BY DEF Sound
        <4>2. PICK s, i : s = e.sums /\ i = e.ids
          OBVIOUS
        <4>3. s \in [1..2 -> Int] /\ i \in [1..2 -> 0..None]
          BY <4>1, <4>2 DEF ExactSums
        <4>4. [i EXCEPT ![j] = b] = i
          BY <3>2, <4>2, <4>3
        <4>5. f = [e EXCEPT !.sums = [s EXCEPT ![j] = s[j] + v], !.ids = i]
          BY <3>3, <4>2, <4>4, Zenon
        <4>6. [e EXCEPT !.sums[j] = @ + v] = [e EXCEPT !.sums = [s EXCEPT ![j] = s[j] + v]]
          BY <4>2
        <4>. QED BY <4>1, <4>2, <4>5, <4>6, Zenon DEF ExactSums
      <3>5. r = Sum(f)
        BY <1>0, <1>2, <2>1, <2>3, <3>1, <3>4 DEF RowInto
      <3>6. Moves(e, f, b, v)
        BY <3>2, <3>3, SlotMoves, Zenon
      <3>. QED BY <1>0, <1>2, <2>1, <3>5, <3>6, FiniteMoves, Zenon DEF Sum
    <2>4. CASE b \notin {e.ids[1], e.ids[2]} /\ e.rare
      <3>1. PICK f : f = [e EXCEPT !.dense[b] = @ + v]
        BY Zenon
      <3>2. r = Sum(f)
        BY <1>0, <1>2, <2>1, <2>4, <3>1 DEF RowInto
      <3>3. Moves(e, f, b, v)
        BY <2>4, <3>1, DenseAdds
      <3>. QED BY <1>0, <1>2, <2>1, <3>2, <3>3, FiniteMoves, Zenon DEF Sum
    <2>5. CASE b \notin {e.ids[1], e.ids[2]} /\ ~e.rare /\ e.ids[1] = None
      <3>1. e.sums[1] = 0
        BY <2>5 DEF Sound
      <3>2. PICK f : f = [e EXCEPT !.sums[1] = e.sums[1] + v, !.ids[1] = b]
        OBVIOUS
      <3>3. f = [e EXCEPT !.ids[1] = b, !.sums[1] = v]
        <4>1. e.sums[1] + v = v
          BY <3>1
        <4>2. e \in ExactSums
          BY DEF Sound
        <4>. QED BY <3>2, <4>1, <4>2, Zenon DEF ExactSums
      <3>4. r = Sum(f)
        BY <1>0, <1>2, <2>1, <2>5, <3>3 DEF RowInto
      <3>5. Moves(e, f, b, v)
        <4>1. e.ids[1] # b /\ e.ids[2] # b
          BY <2>2, <2>5
        <4>2. PICK j \in 1..2 : j = 1
          OBVIOUS
        <4>3. f = [e EXCEPT !.sums[j] = e.sums[j] + v, !.ids[j] = b] /\ e.sums[j] = 0
          BY <3>1, <3>2, <4>2, Zenon
        <4>. QED BY <2>5, <4>1, <4>3, SlotMoves, Zenon
      <3>6. Takes(e, [sum |-> f, ok |-> TRUE], x)
        BY <1>2, <2>1, <3>5, FiniteMoves, Zenon
      <3>. QED BY <1>0, <3>4, <3>6 DEF Sum
    <2>6. CASE b \notin {e.ids[1], e.ids[2]} /\ ~e.rare /\ e.ids[1] # None
      <3>1. r = BucketSlow(e, b, v)
        BY <1>0, <1>2, <2>1, <2>6 DEF RowInto
      <3>2. Adds(e, r, b, v)
        BY <2>6, <3>1, BucketSlowAdds
      <3>3. Moves(e, r.sum, b, v) /\ r.ok \in BOOLEAN
        BY <3>2 DEF Adds, Moves
      <3>4. r = [sum |-> r.sum, ok |-> r.ok]
        BY <3>1, Zenon DEF BucketSlow, IntoSlot, Checked, Sum, Refused
      <3>5. Takes(e, [sum |-> r.sum, ok |-> r.ok], x)
        BY <1>2, <2>1, <3>3, FiniteMoves
      <3>. QED BY <1>0, <3>4, <3>5
    <2>. QED BY <2>3, <2>4, <2>5, <2>6
  <1>. QED BY <1>1, <1>2

-----------------------------------------------------------------------------
(* The loops over a batch, the buckets and the groups, turn by turn.       *)
Turn(l, u, i) ==
  CASE l.kind = "lanes" ->
         IF IsFinite(l.p[i]) THEN [u EXCEPT ![BucketOf(l.p[i])] = @ + InBucket(l.p[i])] ELSE u
    [] l.kind = "poured" ->
         IF l.p[i - 1] = 0 \/ ~u.ok THEN u ELSE AddUnits(u.sum, i - 1, l.p[i - 1])
    [] l.kind = "counted" -> IF IsFinite(l.p[i]) THEN u ELSE Counted(u, SpecialOf(l.p[i]), l.q)
    [] l.kind = "tally" -> Tally(u, l.p[i], l.q)
    [] l.kind = "exact" -> Add(u, l.p[i]).sum
    [] l.kind = "merged" ->
         IF ~u.ok THEN u ELSE MergeState(u.acc, i, EncodedState(l.p, l.p.slots[i]))

Turns(l, c, n, f) == f = [i \in 0..n |-> IF i = 0 THEN c ELSE Turn(l, f[i - 1], i)]

LEMMA TurnsExist ==
  ASSUME NEW l, NEW c
  PROVE  \A n \in Nat : \E f : Turns(l, c, n, f)
  <1> DEFINE I == {n \in Nat : \E f : Turns(l, c, n, f)}
  <1>1. 0 \in I
    <2>1. Turns(l, c, 0, [i \in 0..0 |-> c])
      BY DEF Turns
    <2>. QED BY <2>1
  <1>2. ASSUME NEW n \in Nat, n \in I PROVE n + 1 \in I
    <2>1. PICK f : Turns(l, c, n, f)
      BY <1>2
    <2> DEFINE g == [i \in 0..(n + 1) |-> IF i = 0 THEN c ELSE Turn(l, f[i - 1], i)]
    <2>2. \A i \in 0..n : g[i] = f[i]
      BY <2>1 DEF Turns
    <2>3. \A i \in 0..(n + 1) : i # 0 => i - 1 \in 0..n
      OBVIOUS
    <2>4. \A i \in 0..(n + 1) : i # 0 => g[i - 1] = f[i - 1]
      BY <2>2, <2>3, Zenon
    <2>5. g = [i \in 0..(n + 1) |-> IF i = 0 THEN c ELSE Turn(l, g[i - 1], i)]
      BY <2>4, Zenon
    <2> HIDE DEF g
    <2>6. Turns(l, c, n + 1, g)
      BY <2>5 DEF Turns
    <2>. QED BY <2>6
  <1> HIDE DEF I
  <1>3. \A n \in Nat : n \in I
    BY <1>1, <1>2, ByInduction
  <1>. QED BY <1>3 DEF I

(* So each loop gives what its last turn gives. *)
Unrolled(l, c, n, r, f) ==
  r = f[n] /\ f[0] = c /\ \A i \in 1..n : f[i] = Turn(l, f[i - 1], i)

LEMMA TurnsUnroll ==
  ASSUME NEW l, NEW c, NEW n \in Nat, NEW f, Turns(l, c, n, f)
  PROVE  Unrolled(l, c, n, f[n], f)
  <1>1. \A i \in 1..n : i \in 0..n /\ i # 0
    OBVIOUS
  <1>. QED BY <1>1 DEF Turns, Unrolled

LEMMA LanesLoop ==
  ASSUME NEW xs, Len(xs) \in Nat
  PROVE  \E f : Unrolled([kind |-> "lanes", p |-> xs, q |-> 0], NoLanes, Len(xs), Lanes(xs), f)
  <1> DEFINE P(f) == f = [i \in 0..Len(xs) |->
                IF i = 0 THEN [b \in BucketIds |-> 0]
                ELSE IF IsFinite(xs[i]) THEN [f[i - 1] EXCEPT ![BucketOf(xs[i])] = @ + InBucket(xs[i])]
                ELSE f[i - 1]]
             U == CHOOSE f : P(f)
  <1>1. PICK l : l = [kind |-> "lanes", p |-> xs, q |-> 0]
    BY Zenon
  <1>2. \A f : Turns(l, NoLanes, Len(xs), f) <=> P(f)
    BY <1>1 DEF Turns, Turn, NoLanes
  <1>3. \E f : P(f)
    <2> HIDE DEF P
    <2>. QED BY <1>2, TurnsExist, Zenon
  <1>4. P(U)
    BY <1>3, Zenon
  <1>5. Lanes(xs) = U[Len(xs)]
    BY DEF Lanes
  <1>6. Turns(l, NoLanes, Len(xs), U)
    BY <1>2, <1>4, Zenon
  <1> HIDE DEF U
  <1>7. Unrolled(l, NoLanes, Len(xs), U[Len(xs)], U)
    BY <1>6, TurnsUnroll
  <1>. QED BY <1>1, <1>5, <1>7

LEMMA PouredLoop ==
  ASSUME NEW e, NEW lanes
  PROVE  \E f : Unrolled([kind |-> "poured", p |-> lanes, q |-> 0], Sum(e), Buckets, Poured(e, lanes), f)
  <1> DEFINE P(f) == f = [b \in 0..Buckets |->
                IF b = 0 THEN Sum(e)
                ELSE IF lanes[b - 1] = 0 \/ ~f[b - 1].ok THEN f[b - 1]
                ELSE AddUnits(f[b - 1].sum, b - 1, lanes[b - 1])]
             U == CHOOSE f : P(f)
  <1>1. PICK l : l = [kind |-> "poured", p |-> lanes, q |-> 0]
    BY Zenon
  <1>2. \A f : Turns(l, Sum(e), Buckets, f) <=> P(f)
    BY <1>1 DEF Turns, Turn
  <1>0. Buckets \in Nat
    BY BucketTypes
  <1>3. \E f : P(f)
    BY <1>0, <1>2, TurnsExist
  <1>4. P(U)
    BY <1>3, Zenon
  <1>5. Poured(e, lanes) = U[Buckets]
    BY Zenon DEF Poured
  <1>6. Turns(l, Sum(e), Buckets, U)
    BY <1>2, <1>4, Zenon
  <1> HIDE DEF U
  <1>7. Unrolled(l, Sum(e), Buckets, U[Buckets], U)
    BY <1>0, <1>6, TurnsUnroll
  <1>. QED BY <1>1, <1>5, <1>7

LEMMA CountedLoop ==
  ASSUME NEW e, NEW xs, Len(xs) \in Nat, NEW sign
  PROVE  \E f : Unrolled([kind |-> "counted", p |-> xs, q |-> sign], e, Len(xs), CountedAll(e, xs, sign), f)
  <1> DEFINE P(f) == f = [i \in 0..Len(xs) |->
                IF i = 0 THEN e
                ELSE IF IsFinite(xs[i]) THEN f[i - 1] ELSE Counted(f[i - 1], SpecialOf(xs[i]), sign)]
             U == CHOOSE f : P(f)
  <1>1. PICK l : l = [kind |-> "counted", p |-> xs, q |-> sign]
    BY Zenon
  <1>2. \A f : Turns(l, e, Len(xs), f) <=> P(f)
    BY <1>1 DEF Turns, Turn
  <1>3. \E f : P(f)
    BY <1>2, TurnsExist, Zenon
  <1>4. P(U)
    BY <1>3, Zenon
  <1>5. CountedAll(e, xs, sign) = U[Len(xs)]
    BY DEF CountedAll
  <1>6. Turns(l, e, Len(xs), U)
    BY <1>2, <1>4, Zenon
  <1> HIDE DEF U
  <1>7. Unrolled(l, e, Len(xs), U[Len(xs)], U)
    BY <1>6, TurnsUnroll
  <1>. QED BY <1>1, <1>5, <1>7

LEMMA TallyLoop ==
  ASSUME NEW t, NEW xs, Len(xs) \in Nat, NEW sign
  PROVE  \E f : Unrolled([kind |-> "tally", p |-> xs, q |-> sign], t, Len(xs), TallyAll(t, xs, sign), f)
  <1> DEFINE P(f) == f = [i \in 0..Len(xs) |-> IF i = 0 THEN t ELSE Tally(f[i - 1], xs[i], sign)]
             U == CHOOSE f : P(f)
  <1>1. PICK l : l = [kind |-> "tally", p |-> xs, q |-> sign]
    BY Zenon
  <1>2. \A f : Turns(l, t, Len(xs), f) <=> P(f)
    BY <1>1 DEF Turns, Turn
  <1>3. \E f : P(f)
    BY <1>2, TurnsExist, Zenon
  <1>4. P(U)
    BY <1>3, Zenon
  <1>5. TallyAll(t, xs, sign) = U[Len(xs)]
    BY DEF TallyAll
  <1>6. Turns(l, t, Len(xs), U)
    BY <1>2, <1>4, Zenon
  <1> HIDE DEF U
  <1>7. Unrolled(l, t, Len(xs), U[Len(xs)], U)
    BY <1>6, TurnsUnroll
  <1>. QED BY <1>1, <1>5, <1>7

LEMMA ExactLoop ==
  ASSUME NEW xs, Len(xs) \in Nat
  PROVE  \E r, f : /\ ExactFrom(xs) = [r EXCEPT !.n = Len(xs)]
                   /\ Unrolled([kind |-> "exact", p |-> xs, q |-> 0], Nothing, Len(xs), r, f)
  <1> DEFINE P(f) == f = [i \in 0..Len(xs) |-> IF i = 0 THEN Nothing ELSE Add(f[i - 1], xs[i]).sum]
             U == CHOOSE f : P(f)
  <1>1. PICK l : l = [kind |-> "exact", p |-> xs, q |-> 0]
    BY Zenon
  <1>2. \A f : Turns(l, Nothing, Len(xs), f) <=> P(f)
    BY <1>1 DEF Turns, Turn
  <1>3. \E f : P(f)
    BY <1>2, TurnsExist, Zenon
  <1>4. P(U)
    BY <1>3, Zenon
  <1>5. ExactFrom(xs) = [U[Len(xs)] EXCEPT !.n = Len(xs)]
    BY DEF ExactFrom
  <1>6. Turns(l, Nothing, Len(xs), U)
    BY <1>2, <1>4, Zenon
  <1> HIDE DEF U
  <1>7. Unrolled(l, Nothing, Len(xs), U[Len(xs)], U)
    BY <1>6, TurnsUnroll
  <1>. QED BY <1>1, <1>5, <1>7, Zenon

LEMMA MergedLoop ==
  ASSUME NEW a, NEW from, NEW k \in Nat
  PROVE  \E f : Unrolled([kind |-> "merged", p |-> from, q |-> 0], [acc |-> a, ok |-> TRUE], k,
                         Merged(a, from, k), f)
  <1> DEFINE P(f) == f = [g \in 0..k |->
                IF g = 0 THEN [acc |-> a, ok |-> TRUE]
                ELSE IF ~f[g - 1].ok THEN f[g - 1]
                ELSE MergeState(f[g - 1].acc, g, EncodedState(from, from.slots[g]))]
             U == CHOOSE f : P(f)
  <1>1. PICK l : l = [kind |-> "merged", p |-> from, q |-> 0]
    BY Zenon
  <1>2. PICK c : c = [acc |-> a, ok |-> TRUE]
    BY Zenon
  <1>3. \A f : Turns(l, c, k, f) <=> P(f)
    BY <1>1, <1>2 DEF Turns, Turn
  <1>4. \E f : P(f)
    <2> HIDE DEF P
    <2>. QED BY <1>3, TurnsExist, Zenon
  <1>5. P(U)
    BY <1>4, Zenon
  <1>6. Merged(a, from, k) = U[k]
    BY DEF Merged
  <1>7. Turns(l, c, k, U)
    BY <1>3, <1>5, Zenon
  <1> HIDE DEF U
  <1>8. Unrolled(l, c, k, U[k], U)
    BY <1>7, TurnsUnroll
  <1>. QED BY <1>1, <1>2, <1>6, <1>8

LEMMA PouredAdds ==
  ASSUME NEW e, Sound(e), NEW lanes \in [BucketIds -> Int], NEW r, r = Poured(e, lanes)
  PROVE  /\ Sound(r.sum) /\ r.ok \in BOOLEAN /\ r.sum.n = e.n /\ r.sum.special = e.special
         /\ r.ok => Total(r.sum) = Total(e) + Weighted(lanes)
         /\ r.ok => \A m \in Nat : Within(e, m) /\ Limit <= m => Within(r.sum, m)
  <1>0. Buckets \in Nat /\ BucketIds = 0..(Buckets - 1)
    BY BucketTypes
  <1>1. PICK l : l = [kind |-> "poured", p |-> lanes, q |-> 0]
    BY Zenon
  <1>2. PICK f : r = f[Buckets] /\ f[0] = Sum(e)
                 /\ \A i \in 1..Buckets : f[i] = Turn(l, f[i - 1], i)
    BY <1>1, PouredLoop DEF Unrolled
  <1>3. Entries(e) \in [BucketIds -> Int]
    BY EntryTypes
  <1> DEFINE Half(b, u) ==
               /\ Sound(u.sum) /\ u.ok \in BOOLEAN /\ u.sum.n = e.n /\ u.sum.special = e.special
               /\ u.ok => /\ \A c \in BucketIds : Entries(u.sum)[c] =
                                 IF c < b THEN Entries(e)[c] + lanes[c] ELSE Entries(e)[c]
                          /\ \A m \in Nat : Within(e, m) /\ Limit <= m => Within(u.sum, m)
             I == {b \in Nat : b <= Buckets => Half(b, f[b])}
  <1>4. 0 \in I
    <2>1. f[0].sum = e /\ f[0].ok = TRUE
      BY <1>2 DEF Sum
    <2>2. \A c \in BucketIds : ~(c < 0)
      BY <1>0
    <2>. QED BY <2>1, <2>2, Zenon
  <1>5. ASSUME NEW b \in Nat, b \in I PROVE b + 1 \in I
    <2> SUFFICES ASSUME b + 1 <= Buckets PROVE Half(b + 1, f[b + 1])
      OBVIOUS
    <2>1. b \in BucketIds /\ b + 1 \in 1..Buckets /\ (b + 1) - 1 = b /\ b <= Buckets
      BY <1>0
    <2>2. PICK u, w : u = f[b] /\ w = f[b + 1]
      OBVIOUS
    <2>3. Half(b, u)
      BY <1>5, <2>1, <2>2
    <2>4. w = Turn(l, u, b + 1)
      BY <1>2, <2>1, <2>2
    <2>5. w = IF lanes[b] = 0 \/ ~u.ok THEN u ELSE AddUnits(u.sum, b, lanes[b])
      BY <1>1, <2>1, <2>4 DEF Turn
    <2>6. CASE ~u.ok
      BY <2>2, <2>3, <2>5, <2>6
    <2>7. CASE u.ok /\ lanes[b] = 0
      <3>1. w = u
        BY <2>5, <2>7
      <3>2. \A c \in BucketIds : Entries(u.sum)[c] =
              IF c < b + 1 THEN Entries(e)[c] + lanes[c] ELSE Entries(e)[c]
        <4> TAKE c \in BucketIds
        <4>1. Entries(u.sum)[c] = IF c < b THEN Entries(e)[c] + lanes[c] ELSE Entries(e)[c]
          BY <2>3, <2>7
        <4>2. PICK y \in Int, z \in Int : y = Entries(e)[c] /\ z = lanes[c]
          BY <1>3
        <4>3. c \in Int /\ (c < b + 1 <=> c < b \/ c = b)
          BY <1>0
        <4>. QED BY <2>7, <4>1, <4>2, <4>3
      <3>. QED BY <2>2, <2>3, <2>7, <3>1, <3>2, Zenon
    <2>8. CASE u.ok /\ lanes[b] # 0
      <3>1. PICK v \in Int : v = lanes[b]
        BY <2>1
      <3>2. w = AddUnits(u.sum, b, v)
        BY <2>5, <2>8, <3>1
      <3>3. Adds(u.sum, w, b, v)
        BY <2>1, <2>3, <3>2, AddUnitsAdds
      <3>4. \A c \in BucketIds : Entries(w.sum)[c] =
              IF c < b + 1 THEN Entries(e)[c] + lanes[c] ELSE Entries(e)[c]
        <4> TAKE c \in BucketIds
        <4>1. Entries(u.sum)[c] = IF c < b THEN Entries(e)[c] + lanes[c] ELSE Entries(e)[c]
          BY <2>3, <2>8
        <4>2. Entries(u.sum) \in [BucketIds -> Int]
          BY <2>3, EntryTypes
        <4>3. Entries(w.sum) = [Entries(u.sum) EXCEPT ![b] = @ + v]
          BY <3>3 DEF Adds
        <4>4. Entries(w.sum)[c] = IF c = b THEN Entries(u.sum)[c] + v ELSE Entries(u.sum)[c]
          BY <2>1, <4>2, <4>3
        <4>5. c \in Int /\ (c < b + 1 <=> c < b \/ c = b)
          BY <1>0
        <4>. QED BY <3>1, <4>1, <4>4, <4>5
      <3>5. ASSUME w.ok, NEW m \in Nat, Within(e, m), Limit <= m PROVE Within(w.sum, m)
        <4>1. Within(u.sum, m)
          BY <2>3, <2>8, <3>5
        <4>. QED BY <3>3, <3>5, <4>1 DEF Adds
      <3>6. Sound(w.sum) /\ w.ok \in BOOLEAN /\ w.sum.n = u.sum.n /\ w.sum.special = u.sum.special
        BY <3>3 DEF Adds
      <3>. QED BY <2>2, <2>3, <3>4, <3>5, <3>6
    <2>. QED BY <2>3, <2>6, <2>7, <2>8, <1>5
  <1>6. Half(Buckets, r)
    <2>1. Buckets \in I
      <3> HIDE DEF I
      <3>. QED BY <1>0, <1>4, <1>5, ByInduction, Zenon
    <2>. QED BY <1>0, <1>2, <2>1
  <1>7. ASSUME r.ok PROVE Total(r.sum) = Total(e) + Weighted(lanes)
    <2>1. \A c \in BucketIds : c < Buckets
      BY <1>0
    <2>2. \A c \in BucketIds : Entries(r.sum)[c] = Entries(e)[c] + lanes[c]
      BY <1>6, <1>7, <2>1
    <2>3. Entries(r.sum) \in [BucketIds -> Int]
      BY <1>6, EntryTypes
    <2>4. PICK E, F : E = Entries(e) /\ F = Entries(r.sum)
      OBVIOUS
    <2>5. F = [c \in BucketIds |-> E[c] + lanes[c]]
      BY <2>2, <2>3, <2>4
    <2>6. Weighted(F) = Weighted(E) + Weighted(lanes)
      BY <1>3, <2>4, <2>5, WeightedBoth
    <2>. QED BY <2>4, <2>6, TotalIs
  <1>. QED BY <1>6, <1>7

(* A batch counted bucket by bucket, and value by value. *)
LEMMA TallyType ==
  ASSUME NEW t \in Totals, NEW x \in Double, NEW sign \in {1, -1}
  PROVE  /\ Tally(t, x, sign) \in Totals
         /\ Tally(t, x, sign).n = t.n + sign
         /\ IsFinite(x) => Tally(t, x, sign).total = t.total + sign * UnitsOf(x)
                           /\ Tally(t, x, sign).special = t.special /\ UnitsOf(x) \in Int
         /\ ~IsFinite(x) => Tally(t, x, sign).total = t.total
                            /\ Tally(t, x, sign).special = [t.special EXCEPT ![SpecialOf(x)] = @ + sign]
  <1>1. t.total \in Int /\ t.special \in Specials /\ t.n \in Int
    BY DEF Totals
  <1>2. IsFinite(x) => UnitsOf(x) \in Int
    <2> HAVE IsFinite(x)
    <2>1. PICK b \in BucketIds, v \in Int : UnitsOf(x) = v * Two[Orders * b]
      BY FiniteUnits
    <2>2. PICK w \in Nat : w = Two[Orders * b]
      <3>1. Orders * b \in Nat
        BY BucketTypes
      <3>. QED BY <3>1, PowersPositive
    <2>. QED BY <2>1, <2>2
  <1>3. PICK k \in Marks : k = SpecialOf(x)
    BY SpecialMark
  <1>4. PICK s : s = [t.special EXCEPT ![k] = @ + sign]
    BY Zenon
  <1>5. s \in Specials
    <2>1. PICK q \in Specials : q = t.special
      BY <1>1
    <2>2. CASE k = "nan"
      <3>1. s = [q EXCEPT !.nan = q.nan + sign]
        BY <1>4, <2>1, <2>2
      <3>. QED BY <2>1, <3>1 DEF Specials
    <2>3. CASE k = "pos"
      <3>1. s = [q EXCEPT !.pos = q.pos + sign]
        BY <1>4, <2>1, <2>3
      <3>. QED BY <2>1, <3>1 DEF Specials
    <2>4. CASE k = "inf"
      <3>1. s = [q EXCEPT !.inf = q.inf + sign]
        BY <1>4, <2>1, <2>4
      <3>. QED BY <2>1, <3>1 DEF Specials
    <2>. QED BY <2>2, <2>3, <2>4 DEF Marks
  <1>6. PICK n \in Int : n = t.n + sign
    BY <1>1
  <1>7. CASE IsFinite(x)
    <2>1. PICK w \in Int : w = t.total + sign * UnitsOf(x)
      BY <1>1, <1>2, <1>7
    <2>2. Tally(t, x, sign) = [total |-> w, special |-> t.special, n |-> n]
      BY <1>6, <1>7, <2>1 DEF Tally
    <2>. QED BY <1>1, <1>2, <1>6, <1>7, <2>1, <2>2 DEF Totals
  <1>8. CASE ~IsFinite(x)
    <2>1. Tally(t, x, sign) = [total |-> t.total, special |-> s, n |-> n]
      BY <1>3, <1>4, <1>6, <1>8 DEF Tally
    <2>. QED BY <1>1, <1>3, <1>4, <1>5, <1>6, <1>8, <2>1 DEF Totals
  <1>. QED BY <1>7, <1>8

Signed(sign, f) == [b \in BucketIds |-> sign * f[b]]

LEMMA BatchCounts ==
  ASSUME NEW xs \in Seq(Double), NEW sign \in {1, -1}, NEW t \in Totals,
         NEW e, Sound(e), e.special = t.special
  PROVE  /\ Lanes(xs) \in [BucketIds -> Int]
         /\ TallyAll(t, xs, sign) \in Totals
         /\ TallyAll(t, xs, sign).total = t.total + Weighted(Signed(sign, Lanes(xs)))
         /\ TallyAll(t, xs, sign).n = t.n + sign * Len(xs)
         /\ LET h == CountedAll(e, xs, sign) IN
            /\ Sound(h) /\ h.n = e.n /\ Entries(h) = Entries(e)
            /\ h.special = TallyAll(t, xs, sign).special
            /\ \A m \in Nat : Within(e, m) => Within(h, m)
  <1>0. Len(xs) \in Nat /\ \A i \in 1..Len(xs) : xs[i] \in Double
    OBVIOUS
  <1>1. PICK l, lt, lc : /\ l = [kind |-> "lanes", p |-> xs, q |-> 0]
                         /\ lt = [kind |-> "tally", p |-> xs, q |-> sign]
                         /\ lc = [kind |-> "counted", p |-> xs, q |-> sign]
    BY Zenon
  <1>2. PICK f : Lanes(xs) = f[Len(xs)] /\ f[0] = NoLanes
                 /\ \A i \in 1..Len(xs) : f[i] = Turn(l, f[i - 1], i)
    BY <1>0, <1>1, LanesLoop DEF Unrolled
  <1>3. PICK g : TallyAll(t, xs, sign) = g[Len(xs)] /\ g[0] = t
                 /\ \A i \in 1..Len(xs) : g[i] = Turn(lt, g[i - 1], i)
    <2>1. \E g : Unrolled(lt, t, Len(xs), TallyAll(t, xs, sign), g)
      BY <1>0, <1>1, TallyLoop
    <2>. QED BY <2>1 DEF Unrolled
  <1>4. PICK h : CountedAll(e, xs, sign) = h[Len(xs)] /\ h[0] = e
                 /\ \A i \in 1..Len(xs) : h[i] = Turn(lc, h[i - 1], i)
    <2>1. \E h : Unrolled(lc, e, Len(xs), CountedAll(e, xs, sign), h)
      BY <1>0, <1>1, CountedLoop, Zenon
    <2>. QED BY <2>1 DEF Unrolled
  <1> DEFINE Half(i, u, v, w) ==
               /\ u \in [BucketIds -> Int] /\ v \in Totals
               /\ v.total = t.total + Weighted(Signed(sign, u)) /\ v.n = t.n + sign * i
               /\ Sound(w) /\ w.n = e.n /\ Entries(w) = Entries(e) /\ w.special = v.special
               /\ \A m \in Nat : Within(e, m) => Within(w, m)
             I == {i \in Nat : i <= Len(xs) => Half(i, f[i], g[i], h[i])}
  <1>5. 0 \in I
    <2>1. Signed(sign, NoLanes) = NoLanes
      BY DEF Signed, NoLanes
    <2>2. t.total + 0 = t.total /\ t.n + sign * 0 = t.n
      BY DEF Totals
    <2>. QED BY <1>2, <1>3, <1>4, <2>1, <2>2, WeightedNone
  <1>6. ASSUME NEW i \in Nat, i \in I PROVE i + 1 \in I
    <2> SUFFICES ASSUME i + 1 <= Len(xs) PROVE Half(i + 1, f[i + 1], g[i + 1], h[i + 1])
      OBVIOUS
    <2>1. i + 1 \in 1..Len(xs) /\ (i + 1) - 1 = i /\ i <= Len(xs)
      BY <1>0
    <2>2. PICK x \in Double : x = xs[i + 1]
      BY <1>0, <2>1
    <2>3. PICK u, v, w : u = f[i] /\ v = g[i] /\ w = h[i]
      OBVIOUS
    <2>4. Half(i, u, v, w)
      BY <1>6, <2>1, <2>3
    <2>5. PICK u2, v2, w2 : u2 = f[i + 1] /\ v2 = g[i + 1] /\ w2 = h[i + 1]
      OBVIOUS
    <2>6. u2 = Turn(l, u, i + 1) /\ v2 = Turn(lt, v, i + 1) /\ w2 = Turn(lc, w, i + 1)
      BY <1>2, <1>3, <1>4, <2>1, <2>3, <2>5
    <2>7. /\ u2 = IF IsFinite(x) THEN [u EXCEPT ![BucketOf(x)] = @ + InBucket(x)] ELSE u
          /\ v2 = Tally(v, x, sign)
          /\ w2 = IF IsFinite(x) THEN w ELSE Counted(w, SpecialOf(x), sign)
      BY <1>1, <2>2, <2>6 DEF Turn
    <2>8. v2 \in Totals /\ v2.n = v.n + sign
      BY <2>4, <2>7, TallyType, Zenon
    <2>9. v2.n = t.n + sign * (i + 1)
      <3>1. PICK n \in Int : n = t.n
        BY DEF Totals
      <3>2. (n + sign * i) + sign = n + sign * (i + 1)
        OBVIOUS
      <3>. QED BY <2>4, <2>8, <3>1, <3>2
    <2>10. CASE IsFinite(x)
      <3>1. PICK b \in BucketIds, d \in Int : b = BucketOf(x) /\ d = InBucket(x)
                                              /\ UnitsOf(x) = d * Two[Orders * b]
        BY <2>10, FiniteUnits
      <3>2. u2 = [u EXCEPT ![b] = @ + d]
        BY <2>7, <2>10, <3>1
      <3>3. u \in [BucketIds -> Int] /\ u2 \in [BucketIds -> Int]
        BY <2>4, <3>2
      <3>4. PICK s, s2 : s = Signed(sign, u) /\ s2 = Signed(sign, u2)
        OBVIOUS
      <3>9. PICK p \in Nat : p = Two[Orders * b]
        <4>1. Orders * b \in Nat
          BY BucketTypes
        <4>. QED BY <4>1, PowersPositive
      <3>5. s \in [BucketIds -> Int] /\ s2 \in [BucketIds -> Int]
        BY <3>3, <3>4 DEF Signed
      <3>6. PICK c \in Int : c = sign * d
        OBVIOUS
      <3>7. \A y \in BucketIds : s2[y] = IF y = b THEN s[y] + c ELSE s[y]
        <4> TAKE y \in BucketIds
        <4>1. s2[y] = sign * u2[y] /\ s[y] = sign * u[y] /\ u[y] \in Int
          BY <3>3, <3>4 DEF Signed
        <4>2. u2[y] = IF y = b THEN u[y] + d ELSE u[y]
          BY <3>2, <3>3
        <4>. QED BY <3>6, <4>1, <4>2
      <3>8. Weighted(s) \in Int /\ Weighted(s2) = Weighted(s) + sign * (d * p)
        <4>1. s2[b] = s[b] + c /\ \A y \in BucketIds \ {b} : s2[y] = s[y]
          BY <3>7
        <4>2. OneMore(s, s2, b, c)
          BY <3>5, <4>1 DEF OneMore
        <4>4. Weighted(s) \in Int /\ Weighted(s2) = Weighted(s) + Scaled(c, b)
          BY <4>2, WeightedChange
        <4>3. Scaled(c, b) = sign * (d * p)
          <5>1. Scaled(c, b) = c * p
            BY <3>9 DEF Scaled
          <5>2. (sign * d) * p = sign * (d * p)
            OBVIOUS
          <5>. QED BY <3>6, <5>1, <5>2
        <4>. QED BY <4>3, <4>4
      <3>11. v2.total = v.total + sign * (d * p) /\ v2.special = v.special
        <4>1. v \in Totals
          BY <2>4
        <4>2. Tally(v, x, sign).total = v.total + sign * UnitsOf(x) /\ Tally(v, x, sign).special = v.special
          BY <2>10 DEF Tally
        <4>. QED BY <2>7, <3>1, <3>9, <4>2
      <3>12. v2.total = t.total + Weighted(s2)
        <4>1. v.total = t.total + Weighted(s) /\ t.total \in Int
          BY <2>4, <3>4 DEF Totals
        <4>2. PICK q \in Int : q = sign * (d * p)
          OBVIOUS
        <4>3. PICK y \in Int, z \in Int : y = t.total /\ z = Weighted(s)
          BY <3>8, <4>1
        <4>4. v.total = y + z /\ v2.total = v.total + q /\ Weighted(s2) = z + q
          BY <3>8, <3>11, <4>1, <4>2, <4>3
        <4>5. (y + z) + q = y + (z + q)
          OBVIOUS
        <4>. QED BY <4>3, <4>4, <4>5
      <3>13. w2 = w
        BY <2>7, <2>10
      <3>. QED BY <2>4, <2>5, <2>8, <2>9, <3>3, <3>4, <3>11, <3>12, <3>13
    <2>11. CASE ~IsFinite(x)
      <3>1. u2 = u /\ w2 = Counted(w, SpecialOf(x), sign)
        BY <2>7, <2>11
      <3>2. v2.total = v.total /\ v2.special = [v.special EXCEPT ![SpecialOf(x)] = @ + sign]
        <4>1. v \in Totals
          BY <2>4
        <4>2. /\ Tally(v, x, sign).total = v.total
              /\ Tally(v, x, sign).special = [v.special EXCEPT ![SpecialOf(x)] = @ + sign]
          BY <2>11 DEF Tally
        <4>. QED BY <2>7, <4>2
      <3>3. PICK k \in Marks : k = SpecialOf(x)
        BY SpecialMark
      <3>4. /\ Sound(w2) /\ w2.n = w.n /\ w2.special = [w.special EXCEPT ![k] = @ + sign]
            /\ Entries(w2) = Entries(w)
            /\ \A m \in Nat : Within(w, m) => Within(w2, m)
        BY <2>4, <3>1, <3>3, CountedKeeps
      <3>5. w2.special = v2.special
        BY <2>4, <3>2, <3>3, <3>4
      <3>. QED BY <2>4, <2>5, <2>8, <2>9, <3>1, <3>2, <3>4, <3>5
    <2>. QED BY <2>10, <2>11
  <1>7. Len(xs) \in I
    <2> HIDE DEF I
    <2>. QED BY <1>0, <1>5, <1>6, ByInduction, Zenon
  <1>8. Half(Len(xs), f[Len(xs)], g[Len(xs)], h[Len(xs)])
    BY <1>0, <1>7
  <1>. QED BY <1>2, <1>3, <1>4, <1>8

LEMMA AddManyTakes ==
  ASSUME NEW e, Sound(e), NEW xs \in Seq(Double), NEW sign \in {1, -1}, e.n + sign * Len(xs) \in Nat,
         NEW r, r = AddMany(e, xs, sign)
  PROVE  /\ Sound(r.sum) /\ r.ok \in BOOLEAN
         /\ r.ok => r.sum.n = e.n + sign * Len(xs) /\ Sense(r.sum) = TallyAll(Sense(e), xs, sign)
         /\ r.ok => \A m \in Nat : Within(e, m) /\ Limit <= m => Within(r.sum, m)
  <1>1. PICK lanes : lanes = Signed(sign, Lanes(xs))
    OBVIOUS
  <1>2. PICK t \in Totals : t = Sense(e)
    BY SenseType
  <1>3. t.special = e.special /\ t.total = Total(e) /\ t.n = e.n
    BY <1>2 DEF Sense
  <1>4. PICK u : u = TallyAll(t, xs, sign)
    OBVIOUS
  <1>5. /\ Lanes(xs) \in [BucketIds -> Int] /\ u \in Totals
        /\ u.total = t.total + Weighted(lanes) /\ u.n = t.n + sign * Len(xs)
    BY <1>1, <1>3, <1>4, BatchCounts, Zenon
  <1>6. lanes \in [BucketIds -> Int]
    BY <1>1, <1>5 DEF Signed
  <1>7. PICK q : q = Poured(e, lanes)
    OBVIOUS
  <1>8. /\ Sound(q.sum) /\ q.ok \in BOOLEAN /\ q.sum.n = e.n /\ q.sum.special = e.special
        /\ q.ok => Total(q.sum) = Total(e) + Weighted(lanes)
        /\ q.ok => \A m \in Nat : Within(e, m) /\ Limit <= m => Within(q.sum, m)
    BY <1>6, <1>7, PouredAdds
  <1>9. lanes = [b \in BucketIds |-> sign * Lanes(xs)[b]]
    BY <1>1 DEF Signed
  <1>10. CASE ~q.ok
    <2>1. r = q
      BY <1>7, <1>9, <1>10 DEF AddMany
    <2>. QED BY <1>8, <1>10, <2>1
  <1>11. CASE q.ok
    <2>1. PICK h : h = CountedAll(q.sum, xs, sign)
      OBVIOUS
    <2>2. /\ Sound(h) /\ h.n = q.sum.n /\ Entries(h) = Entries(q.sum) /\ h.special = u.special
          /\ \A m \in Nat : Within(q.sum, m) => Within(h, m)
      BY <1>3, <1>4, <1>8, <2>1, BatchCounts
    <2>3. PICK n \in Nat : n = e.n + sign * Len(xs)
      OBVIOUS
    <2>4. PICK f : f = [h EXCEPT !.n = n]
      BY Zenon
    <2>5. r = Sum(f)
      BY <1>7, <1>8, <1>9, <1>11, <2>1, <2>2, <2>3, <2>4 DEF AddMany
    <2>6. /\ f.sums = h.sums /\ f.ids = h.ids /\ f.rare = h.rare /\ f.dense = h.dense /\ f.n = n
          /\ f.special = h.special /\ f \in ExactSums
      BY <2>2, <2>3, <2>4, Zenon DEF Sound, ExactSums
    <2>7. Sound(f) /\ Entries(f) = Entries(h) /\ \A m \in Nat : Within(h, m) => Within(f, m)
      BY <2>2, <2>6 DEF Sound, Entries, Within
    <2>8. Total(f) = Total(e) + Weighted(lanes)
      BY <1>8, <1>11, <2>2, <2>7, TotalIs
    <2>9. Sense(f) = u
      <3>1. u = [total |-> u.total, special |-> u.special, n |-> u.n]
        BY <1>5 DEF Totals
      <3>2. f.special = u.special /\ f.n = u.n /\ Total(f) = u.total
        BY <1>3, <1>5, <2>2, <2>3, <2>6, <2>8
      <3>. QED BY <3>1, <3>2 DEF Sense
    <2>10. r.sum = f /\ r.ok = TRUE
      BY <2>5 DEF Sum
    <2>. QED BY <1>2, <1>4, <1>8, <1>11, <2>2, <2>3, <2>6, <2>7, <2>9, <2>10, Zenon
  <1>. QED BY <1>8, <1>10, <1>11

LEMMA NothingIs ==
  /\ Sound(Nothing) /\ Sense(Nothing) = NoTotal /\ Within(Nothing, 0) /\ NoTotal \in Totals
  /\ Nothing.rare = FALSE
  <1>1. None \in 0..None /\ \A b \in BucketIds : b # None
    BY BucketTypes
  <1>2. PICK z : z = <<0, 0>>
    BY Zenon
  <1>3. PICK i : i = <<None, None>>
    BY Zenon
  <1>4. z \in [1..2 -> Int] /\ z[1] = 0 /\ z[2] = 0 /\ i \in [1..2 -> 0..None] /\ i[1] = None /\ i[2] = None
    BY <1>1, <1>2, <1>3
  <1>5. PICK d : d = [b \in BucketIds |-> 0]
    BY Zenon
  <1>6. NoSpecial \in Specials
    BY DEF NoSpecial, Specials
  <1>7. PICK e : e = Nothing
    OBVIOUS
  <1>8. e = [sums |-> z, ids |-> i, n |-> 0, rare |-> FALSE, dense |-> d, special |-> NoSpecial]
    BY <1>2, <1>3, <1>5, <1>7 DEF Nothing
  <1>9. /\ e.sums = z /\ e.ids = i /\ e.n = 0 /\ e.rare = FALSE /\ e.dense = d /\ e.special = NoSpecial
        /\ e \in ExactSums
    <2>1. d \in [BucketIds -> Int]
      BY <1>5
    <2>. QED BY <1>4, <1>6, <1>8, <2>1 DEF ExactSums
  <1>10. Sound(e)
    BY <1>4, <1>9 DEF Sound
  <1>11. Within(e, 0)
    BY <1>4, <1>5, <1>9 DEF Within
  <1>12. Entries(e) = NoLanes
    BY <1>1, <1>4, <1>9 DEF Entries, NoLanes
  <1>13. Total(e) = 0
    BY <1>12, TotalIs, WeightedNone
  <1>14. Sense(e) = NoTotal
    BY <1>9, <1>13 DEF Sense, NoTotal
  <1>15. NoTotal \in Totals
    BY <1>6 DEF NoTotal, Totals
  <1>. QED BY <1>7, <1>9, <1>10, <1>11, <1>14, <1>15

(* A group's two first values, in a sum.                                   *)
HeldSense(xs) ==
  CASE Len(xs) = 0 -> NoTotal
    [] Len(xs) = 1 -> Tally(NoTotal, xs[1], 1)
    [] OTHER -> Tally(Tally(NoTotal, xs[1], 1), xs[2], 1)

LEMMA ExactFromTakes ==
  ASSUME NEW xs \in Seq(Double), Len(xs) \in 0..2, NEW e, e = ExactFrom(xs)
  PROVE  Sound(e) /\ Sense(e) = HeldSense(xs) /\ Within(e, Limit)
  <1>0. Len(xs) \in Nat /\ \A i \in 1..Len(xs) : xs[i] \in Double
    OBVIOUS
  <1>1. PICK l : l = [kind |-> "exact", p |-> xs, q |-> 0]
    BY Zenon
  <1>2. PICK r, f : /\ e = [r EXCEPT !.n = Len(xs)] /\ r = f[Len(xs)] /\ f[0] = Nothing
                    /\ \A i \in 1..Len(xs) : f[i] = Turn(l, f[i - 1], i)
    BY <1>0, <1>1, ExactLoop DEF Unrolled
  <1>3. \A i \in 1..Len(xs) : f[i] = Add(f[i - 1], xs[i]).sum
    BY <1>1, <1>2 DEF Turn
  <1> DEFINE Right(g, t, k) == /\ Sound(g) /\ Total(g) = t.total /\ g.special = t.special
                               /\ Within(g, k)
  <1>4. Right(f[0], NoTotal, 0)
    BY <1>2, NothingIs DEF Sense
  <1>5. MaxUnits \in Nat /\ Limit \in Nat /\ MaxUnits + MaxUnits <= Limit
    BY BucketTypes
  <1>6. ASSUME NEW g, NEW t \in Totals, NEW k \in Nat, Right(g, t, k), NEW x \in Double
        PROVE  Right(Add(g, x).sum, Tally(t, x, 1), k + MaxUnits)
    <2>1. Takes(g, Add(g, x), x)
      BY <1>6, AddTakes
    <2>2. Sense(g).total = t.total /\ Sense(g).special = t.special
      BY <1>6 DEF Sense
    <2>3. Tally(Sense(g), x, 1).total = Tally(t, x, 1).total
          /\ Tally(Sense(g), x, 1).special = Tally(t, x, 1).special
      BY <2>2 DEF Tally
    <2>. QED BY <1>6, <2>1, <2>3 DEF Takes
  <1>7. HeldSense(xs) \in Totals /\ HeldSense(xs).n = Len(xs) /\ Right(r, HeldSense(xs), Limit)
    <2>1. CASE Len(xs) = 0
      <3>1. Within(Nothing, Limit)
        BY <1>5, NothingIs, WithinMore
      <3>2. NoTotal.n = 0
        BY DEF NoTotal
      <3>. QED BY <1>2, <1>4, <2>1, <3>1, <3>2, NothingIs DEF HeldSense
    <2>2. CASE Len(xs) = 1
      <3>1. xs[1] \in Double /\ f[1] = Add(f[0], xs[1]).sum
        BY <1>0, <1>3, <2>2
      <3>2. Right(f[1], Tally(NoTotal, xs[1], 1), 0 + MaxUnits)
        BY <1>4, <1>6, <3>1, NothingIs
      <3>3. Within(f[1], Limit)
        BY <1>5, <3>2, WithinMore
      <3>4. Tally(NoTotal, xs[1], 1) \in Totals /\ Tally(NoTotal, xs[1], 1).n = 1
        <4>1. NoTotal.n + 1 = 1
          BY DEF NoTotal
        <4>. QED BY <3>1, <4>1, NothingIs, TallyType, Zenon
      <3>. QED BY <1>2, <2>2, <3>2, <3>3, <3>4 DEF HeldSense
    <2>3. CASE Len(xs) = 2
      <3>1. /\ xs[1] \in Double /\ f[1] = Add(f[0], xs[1]).sum
            /\ xs[2] \in Double /\ f[2] = Add(f[1], xs[2]).sum
        BY <1>0, <1>3, <2>3
      <3>2. PICK t : t = Tally(NoTotal, xs[1], 1)
        OBVIOUS
      <3>3. t \in Totals /\ t.n = 1
        <4>1. NoTotal.n + 1 = 1
          BY DEF NoTotal
        <4>. QED BY <3>1, <3>2, <4>1, NothingIs, TallyType, Zenon
      <3>4. Right(f[1], t, 0 + MaxUnits)
        BY <1>4, <1>6, <3>1, <3>2, NothingIs
      <3>5. Right(f[2], Tally(t, xs[2], 1), (0 + MaxUnits) + MaxUnits)
        BY <1>5, <1>6, <3>1, <3>3, <3>4
      <3>6. Within(f[2], Limit)
        BY <1>5, <3>5, WithinMore
      <3>7. Tally(t, xs[2], 1) \in Totals /\ Tally(t, xs[2], 1).n = 2
        <4>1. PICK x \in Double : x = xs[2]
          BY <3>1
        <4>2. Tally(t, x, 1) \in Totals /\ Tally(t, x, 1).n = t.n + 1
          BY <3>3, TallyType, Zenon
        <4>. QED BY <3>3, <4>1, <4>2
      <3>8. HeldSense(xs) = Tally(t, xs[2], 1)
        BY <2>3, <3>2 DEF HeldSense
      <3>9. r = f[2]
        BY <1>2, <2>3
      <3>. QED BY <2>3, <3>5, <3>6, <3>7, <3>8, <3>9
    <2>. QED BY <2>1, <2>2, <2>3
  <1>8. PICK u \in Totals : u = HeldSense(xs)
    BY <1>7
  <1>9. /\ e.sums = r.sums /\ e.ids = r.ids /\ e.rare = r.rare /\ e.dense = r.dense /\ e.n = Len(xs)
        /\ e.special = r.special /\ e \in ExactSums
    BY <1>0, <1>2, <1>7, Zenon DEF Sound, ExactSums
  <1>10. Sound(e) /\ Entries(e) = Entries(r) /\ Within(e, Limit)
    BY <1>7, <1>9 DEF Sound, Entries, Within
  <1>11. Sense(e) = u
    <2>1. u = [total |-> u.total, special |-> u.special, n |-> u.n]
      BY DEF Totals
    <2>2. Total(e) = u.total
      BY <1>7, <1>8, <1>10, TotalIs
    <2>3. e.special = u.special /\ e.n = u.n
      BY <1>7, <1>8, <1>9
    <2>. QED BY <2>1, <2>2, <2>3 DEF Sense
  <1>. QED BY <1>8, <1>10, <1>11

LEMMA SpecialsTogether ==
  ASSUME NEW s \in Specials, NEW t \in Specials
  PROVE  /\ [k \in DOMAIN NoSpecial |-> s[k] + t[k]] \in Specials
         /\ [k \in DOMAIN NoSpecial |-> s[k] + t[k]] = [k \in DOMAIN s |-> s[k] + t[k]]
         /\ t = NoSpecial => [k \in DOMAIN s |-> s[k] + t[k]] = s
  <1>1. DOMAIN NoSpecial = Marks /\ DOMAIN s = Marks /\ DOMAIN t = Marks
    BY DEF NoSpecial, Specials, Marks
  <1>2. \A k \in Marks : s[k] \in Int /\ t[k] \in Int
    BY DEF Specials, Marks
  <1>3. \A k \in Marks : NoSpecial[k] = 0
    BY DEF NoSpecial, Marks
  <1>4. PICK u : u = [k \in Marks |-> s[k] + t[k]]
    BY Zenon
  <1>5. u \in Specials
    <2>1. u = [nan |-> u.nan, pos |-> u.pos, inf |-> u.inf]
      BY <1>4 DEF Marks
    <2>2. u.nan \in Int /\ u.pos \in Int /\ u.inf \in Int
      BY <1>2, <1>4 DEF Marks
    <2>. QED BY <2>1, <2>2 DEF Specials
  <1>6. t = NoSpecial => u = s
    <2> HAVE t = NoSpecial
    <2>1. \A k \in Marks : u[k] = s[k]
      BY <1>2, <1>3, <1>4
    <2>2. s = [k \in Marks |-> s[k]]
      BY <1>1 DEF Specials
    <2>. QED BY <1>4, <2>1, <2>2
  <1>. QED BY <1>1, <1>4, <1>5, <1>6

LEMMA TogetherType ==
  ASSUME NEW t \in Totals, NEW u \in Totals
  PROVE  Together(t, u) \in Totals
  <1>1. t.special \in Specials /\ u.special \in Specials /\ t.total + u.total \in Int /\ t.n + u.n \in Int
    BY DEF Totals
  <1>2. [k \in DOMAIN t.special |-> t.special[k] + u.special[k]] \in Specials
    BY <1>1, SpecialsTogether, Zenon
  <1>. QED BY <1>1, <1>2 DEF Together, Totals

LEMMA MergeSumTakes ==
  ASSUME NEW e, Sound(e), NEW o, Sound(o), NEW r, r = MergeSum(e, o)
  PROVE  /\ Sound(r.sum) /\ r.ok \in BOOLEAN /\ r.sum.n = e.n + o.n
         /\ r.ok => Sense(r.sum) = Together(Sense(e), Sense(o))
         /\ r.ok => \A m \in Nat : Within(e, m) /\ Limit <= m => Within(r.sum, m)
  <1>0. e.special \in Specials /\ o.special \in Specials /\ e.n \in Nat /\ o.n \in Nat
    BY DEF Sound, ExactSums
  <1>1. PICK s \in Specials : s = [k \in DOMAIN NoSpecial |-> e.special[k] + o.special[k]]
    <2>1. [k \in DOMAIN NoSpecial |-> e.special[k] + o.special[k]] \in Specials
      BY <1>0, SpecialsTogether
    <2>. QED BY <2>1
  <1>2. PICK p : p = IF o.special # NoSpecial THEN [Promoted(e) EXCEPT !.special = s] ELSE e
    BY Zenon
  <1>3. Sound(p) /\ Entries(p) = Entries(e) /\ p.n = e.n /\ p.special = s
        /\ \A m \in Nat : Within(e, m) => Within(p, m)
    <2>1. CASE o.special = NoSpecial
      <3>1. s = e.special
        BY <1>0, <1>1, <2>1, SpecialsTogether
      <3>. QED BY <1>2, <2>1, <3>1
    <2>2. CASE o.special # NoSpecial
      <3>1. PICK q : q = Promoted(e) /\ Sound(q) /\ Entries(q) = Entries(e) /\ q.n = e.n
                     /\ \A m \in Nat : Within(e, m) => Within(q, m)
        BY PromotedKeeps
      <3>2. p = [q EXCEPT !.special = s]
        BY <1>2, <2>2, <3>1
      <3>3. /\ p.sums = q.sums /\ p.ids = q.ids /\ p.rare = q.rare /\ p.dense = q.dense /\ p.n = q.n
            /\ p.special = s /\ p \in ExactSums
        BY <3>1, <3>2 DEF Sound, ExactSums
      <3>4. Sound(p) /\ Entries(p) = Entries(q) /\ \A m \in Nat : Within(q, m) => Within(p, m)
        BY <3>1, <3>3 DEF Sound, Entries, Within
      <3>. QED BY <3>1, <3>3, <3>4
    <2>. QED BY <2>1, <2>2
  <1>4. PICK n \in Nat : n = p.n + o.n
    BY <1>0, <1>3
  <1>5. PICK f : f = [p EXCEPT !.n = n]
    BY Zenon
  <1>6. /\ f.sums = p.sums /\ f.ids = p.ids /\ f.rare = p.rare /\ f.dense = p.dense /\ f.n = n
        /\ f.special = s /\ f \in ExactSums
    BY <1>3, <1>5 DEF Sound, ExactSums
  <1>7. Sound(f) /\ Entries(f) = Entries(e) /\ \A m \in Nat : Within(e, m) => Within(f, m)
    <2>1. \A m \in Nat : Within(p, m) => Within(f, m)
      BY <1>6 DEF Within
    <2>. QED BY <1>3, <1>6, <2>1 DEF Sound, Entries
  <1>8. Entries(o) \in [BucketIds -> Int]
    BY EntryTypes
  <1>9. r = Poured(f, Entries(o))
    BY <1>1, <1>2, <1>4, <1>5 DEF MergeSum
  <1>10. /\ Sound(r.sum) /\ r.ok \in BOOLEAN /\ r.sum.n = f.n /\ r.sum.special = f.special
         /\ r.ok => Total(r.sum) = Total(f) + Weighted(Entries(o))
         /\ r.ok => \A m \in Nat : Within(f, m) /\ Limit <= m => Within(r.sum, m)
    BY <1>7, <1>8, <1>9, PouredAdds
  <1>11. ASSUME r.ok PROVE Sense(r.sum) = Together(Sense(e), Sense(o))
    <2>1. Total(r.sum) = Total(e) + Total(o)
      BY <1>7, <1>10, <1>11, TotalIs
    <2>2. s = [k \in DOMAIN e.special |-> e.special[k] + o.special[k]]
      BY <1>0, <1>1, SpecialsTogether
    <2>3. r.sum.special = s /\ r.sum.n = e.n + o.n
      BY <1>3, <1>4, <1>6, <1>10
    <2>. QED BY <2>1, <2>2, <2>3 DEF Sense, Together
  <1>. QED BY <1>3, <1>4, <1>6, <1>7, <1>10, <1>11

-----------------------------------------------------------------------------
(* A partial aggregate in order: slots that point where their sort says,   *)
(* each to a place of its own, no sum that nobody points to, and the       *)
(* promoted ones counted.                                                  *)
Slots == [n : {0}, v : {0}] \cup [n : {1}, v : Double] \cup [n : {2, Exact}, v : Nat]
Aggregates == [slots : Seq(Slots), pairs : Seq(Double \X Double), exact : Seq(ExactSums),
               rare : Int, unchecked : Nat]

Points(a) == \A g \in 1..Len(a.slots) :
  /\ a.slots[g].n = 2 => a.slots[g].v \in 1..Len(a.pairs)
  /\ a.slots[g].n = Exact => a.slots[g].v \in 1..Len(a.exact)
Apart(a) == \A g, h \in 1..Len(a.slots) :
  g # h /\ a.slots[g].n \in {2, Exact} => a.slots[g] # a.slots[h]
Reached(a) == \A i \in 1..Len(a.exact) : \E g \in 1..Len(a.slots) : a.slots[g].n = Exact /\ a.slots[g].v = i
AllSound(a) == \A i \in 1..Len(a.exact) : Sound(a.exact[i])

Kept(a) ==
  /\ a \in Aggregates /\ a.rare = RareIn(a.exact)
  /\ AllSound(a) /\ Points(a) /\ Apart(a) /\ Reached(a)

AllWithin(a, m) == \A i \in 1..Len(a.exact) : Within(a.exact[i], m)
Stand(a, g) == StandsFor(a, a.slots[g])

(* b is a, but for what the group g stands for. *)
Does(a, b, g, t) ==
  /\ Kept(b) /\ Len(b.slots) = Len(a.slots) /\ b.unchecked = a.unchecked
  /\ \A h \in 1..Len(a.slots) : Stand(b, h) = IF h = g THEN t ELSE Stand(a, h)

LEMMA SlotIs ==
  ASSUME NEW s \in Slots
  PROVE  /\ s.n \in {0, 1, 2, Exact} /\ s = Slot(s.n, s.v)
         /\ s.n = 1 => s.v \in Double
         /\ s.n = 2 \/ s.n = Exact => s.v \in Nat
  BY DEF Slots, Slot, Exact

LEMMA SlotsAre ==
  /\ Slot(0, 0) \in Slots /\ \A x \in Double : Slot(1, x) \in Slots
  /\ \A k \in Nat : Slot(2, k) \in Slots /\ Slot(Exact, k) \in Slots
  /\ \A n, v : Slot(n, v).n = n /\ Slot(n, v).v = v
  BY DEF Slots, Slot, Exact

LEMMA PartsAre ==
  ASSUME NEW a \in Aggregates
  PROVE  /\ a.slots \in Seq(Slots) /\ a.pairs \in Seq(Double \X Double) /\ a.exact \in Seq(ExactSums)
         /\ a.rare \in Int /\ a.unchecked \in Nat
         /\ Len(a.slots) \in Nat /\ Len(a.pairs) \in Nat /\ Len(a.exact) \in Nat
         /\ \A g \in 1..Len(a.slots) : a.slots[g] \in Slots
         /\ \A i \in 1..Len(a.pairs) : a.pairs[i] \in Double \X Double
         /\ \A i \in 1..Len(a.exact) : a.exact[i] \in ExactSums
  BY DEF Aggregates

LEMMA StandIs ==
  ASSUME NEW a, NEW s \in Slots
  PROVE  /\ s.n = 0 => StandsFor(a, s) = NoTotal
         /\ s.n = 1 => StandsFor(a, s) = Tally(NoTotal, s.v, 1)
         /\ s.n = 2 => StandsFor(a, s) = Tally(Tally(NoTotal, a.pairs[s.v][1], 1), a.pairs[s.v][2], 1)
         /\ s.n = Exact => StandsFor(a, s) = Sense(a.exact[s.v])
  BY SlotIs DEF StandsFor, Exact, Sense

LEMMA StandType ==
  ASSUME NEW a, Kept(a), NEW g \in 1..Len(a.slots)
  PROVE  Stand(a, g) \in Totals
  <1>1. a \in Aggregates /\ AllSound(a) /\ Points(a)
    BY DEF Kept
  <1>2. PICK s \in Slots : s = a.slots[g]
    BY <1>1, PartsAre
  <1>3. Stand(a, g) = StandsFor(a, s)
    BY <1>2 DEF Stand
  <1>4. CASE s.n = 0
    BY <1>3, <1>4, StandIs, NothingIs
  <1>5. CASE s.n = 1
    <2>1. PICK x \in Double : x = s.v
      BY <1>5, SlotIs
    <2>2. Tally(NoTotal, x, 1) \in Totals
      BY NothingIs, TallyType, Zenon
    <2>. QED BY <1>3, <1>5, <2>1, <2>2, StandIs
  <1>6. CASE s.n = 2
    <2>1. a.pairs[s.v] \in Double \X Double
      BY <1>1, <1>2, <1>6, PartsAre DEF Points
    <2>2. PICK x \in Double, y \in Double : x = a.pairs[s.v][1] /\ y = a.pairs[s.v][2]
      BY <2>1
    <2>3. PICK t \in Totals : t = Tally(NoTotal, x, 1)
      BY NothingIs, TallyType, Zenon
    <2>4. Tally(t, y, 1) \in Totals
      BY TallyType, Zenon
    <2>. QED BY <1>3, <1>6, <2>2, <2>3, <2>4, StandIs
  <1>7. CASE s.n = Exact
    <2>1. Sound(a.exact[s.v])
      BY <1>1, <1>2, <1>7 DEF Points, AllSound
    <2>2. Sense(a.exact[s.v]) \in Totals
      BY <2>1, SenseType
    <2>. QED BY <1>3, <1>7, <2>2, StandIs
  <1>. QED BY <1>4, <1>5, <1>6, <1>7, SlotIs

LEMMA ExceptSeq ==
  ASSUME NEW A, NEW s \in Seq(A), NEW i \in 1..Len(s), NEW x \in A, NEW t, t = [s EXCEPT ![i] = x]
  PROVE  /\ t \in Seq(A) /\ Len(t) = Len(s) /\ t[i] = x
         /\ \A j \in 1..Len(s) : j # i => t[j] = s[j]
  OBVIOUS

LEMMA AppendSeq ==
  ASSUME NEW A, NEW s \in Seq(A), NEW x \in A, NEW t, t = Append(s, x)
  PROVE  /\ t \in Seq(A) /\ Len(t) = Len(s) + 1 /\ t[Len(s) + 1] = x
         /\ \A j \in 1..Len(s) : t[j] = s[j]
  OBVIOUS

(* How many sums are promoted, as sums are appended and replaced. *)
RareOnes(E) == {i \in DOMAIN E : E[i].rare}

LEMMA RareType ==
  ASSUME NEW E \in Seq(ExactSums)
  PROVE  /\ IsFiniteSet(RareOnes(E)) /\ RareIn(E) = Cardinality(RareOnes(E))
         /\ RareIn(E) \in Nat /\ RareIn(E) <= Len(E)
  <1>1. DOMAIN E = 1..Len(E) /\ Len(E) \in Nat
    OBVIOUS
  <1>2. IsFiniteSet(1..Len(E)) /\ Cardinality(1..Len(E)) = Len(E)
    BY <1>1, FS_Interval
  <1>3. RareOnes(E) \subseteq 1..Len(E)
    BY <1>1 DEF RareOnes
  <1>4. IsFiniteSet(RareOnes(E)) /\ Cardinality(RareOnes(E)) <= Len(E)
    BY <1>2, <1>3, FS_Subset
  <1>5. Cardinality(RareOnes(E)) \in Nat
    BY <1>4, FS_CardinalityType
  <1>. QED BY <1>4, <1>5 DEF RareIn, RareOnes

LEMMA RareAppend ==
  ASSUME NEW E \in Seq(ExactSums), NEW e \in ExactSums
  PROVE  RareIn(Append(E, e)) = RareIn(E) + RareOne(e)
  <1>0. Append(E, e) \in Seq(ExactSums)
    OBVIOUS
  <1>1. PICK F : F = Append(E, e) /\ F \in Seq(ExactSums)
    BY <1>0, Zenon
  <1>2. /\ DOMAIN E = 1..Len(E) /\ DOMAIN F = 1..(Len(E) + 1) /\ Len(E) \in Nat
        /\ F[Len(E) + 1] = e /\ \A i \in 1..Len(E) : F[i] = E[i]
    BY <1>1
  <1>3. /\ IsFiniteSet(RareOnes(E)) /\ RareIn(E) = Cardinality(RareOnes(E)) /\ RareIn(E) \in Nat
        /\ RareIn(F) = Cardinality(RareOnes(F))
    BY <1>1, RareType, Zenon
  <1>4. CASE e.rare
    <2>1. RareOnes(F) = RareOnes(E) \cup {Len(E) + 1} /\ Len(E) + 1 \notin RareOnes(E)
      BY <1>2, <1>4 DEF RareOnes
    <2>2. Cardinality(RareOnes(F)) = Cardinality(RareOnes(E)) + 1
      BY <1>3, <2>1, FS_AddElement, Zenon
    <2>. QED BY <1>1, <1>3, <1>4, <2>2 DEF RareOne
  <1>5. CASE ~e.rare
    <2>1. RareOnes(F) = RareOnes(E)
      BY <1>2, <1>5 DEF RareOnes
    <2>. QED BY <1>1, <1>3, <1>5, <2>1 DEF RareOne
  <1>. QED BY <1>4, <1>5

LEMMA RarePut ==
  ASSUME NEW E \in Seq(ExactSums), NEW e \in ExactSums, NEW v \in 1..Len(E), NEW F, F = [E EXCEPT ![v] = e]
  PROVE  RareIn(F) = RareIn(E) + RareOne(e) - RareOne(E[v])
  <1>1. F \in Seq(ExactSums)
    OBVIOUS
  <1>2. /\ DOMAIN E = 1..Len(E) /\ DOMAIN F = 1..Len(E)
        /\ F[v] = e /\ \A i \in 1..Len(E) : i # v => F[i] = E[i]
    OBVIOUS
  <1>3. /\ IsFiniteSet(RareOnes(E)) /\ RareIn(E) = Cardinality(RareOnes(E)) /\ RareIn(E) \in Nat
        /\ IsFiniteSet(RareOnes(F)) /\ RareIn(F) = Cardinality(RareOnes(F)) /\ RareIn(F) \in Nat
    BY <1>1, RareType, Zenon
  <1>4. CASE e.rare /\ ~E[v].rare
    <2>1. RareOnes(F) = RareOnes(E) \cup {v} /\ v \notin RareOnes(E)
      BY <1>2, <1>4 DEF RareOnes
    <2>2. Cardinality(RareOnes(F)) = Cardinality(RareOnes(E)) + 1
      BY <1>3, <2>1, FS_AddElement, Zenon
    <2>. QED BY <1>3, <1>4, <2>2 DEF RareOne
  <1>5. CASE ~e.rare /\ E[v].rare
    <2>1. RareOnes(F) = RareOnes(E) \ {v} /\ v \in RareOnes(E)
      BY <1>2, <1>5 DEF RareOnes
    <2>2. Cardinality(RareOnes(F)) = Cardinality(RareOnes(E)) - 1
      BY <1>3, <2>1, FS_RemoveElement, Zenon
    <2>. QED BY <1>3, <1>5, <2>2 DEF RareOne
  <1>6. CASE (e.rare /\ E[v].rare) \/ (~e.rare /\ ~E[v].rare)
    <2>1. RareOnes(F) = RareOnes(E)
      BY <1>2, <1>6 DEF RareOnes
    <2>. QED BY <1>3, <1>6, <2>1 DEF RareOne
  <1>. QED BY <1>4, <1>5, <1>6

(* The exact sum of a group is replaced by e. *)
LEMMA PutDoes ==
  ASSUME NEW a, Kept(a), NEW g \in 1..Len(a.slots), a.slots[g].n = Exact, NEW e, Sound(e)
  PROVE  /\ Does(a, Put(a, g, e), g, Sense(e)) /\ Put(a, g, e).slots = a.slots
         /\ Put(a, g, e).exact = [a.exact EXCEPT ![a.slots[g].v] = e]
         /\ \A m \in Nat : AllWithin(a, m) /\ Within(e, m) => AllWithin(Put(a, g, e), m)
  <1>1. a \in Aggregates /\ AllSound(a) /\ Points(a) /\ Apart(a) /\ Reached(a) /\ a.rare = RareIn(a.exact)
    BY DEF Kept
  <1>2. PICK v \in 1..Len(a.exact) : v = a.slots[g].v
    BY <1>1 DEF Points
  <1>3. PICK E \in Seq(ExactSums) : E = a.exact /\ Len(E) \in Nat
    BY <1>1, PartsAre
  <1>4. e \in ExactSums
    BY DEF Sound
  <1>5. PICK F : F = [E EXCEPT ![v] = e]
    BY Zenon
  <1>6. /\ F \in Seq(ExactSums) /\ Len(F) = Len(E) /\ F[v] = e
        /\ \A i \in 1..Len(E) : i # v => F[i] = E[i]
    BY <1>2, <1>3, <1>4, <1>5
  <1>7. PICK r : r = a.rare + RareOne(e) - RareOne(E[v])
    OBVIOUS
  <1>8. r \in Int /\ r = RareIn(F)
    <2>1. RareIn(F) = RareIn(E) + RareOne(e) - RareOne(E[v])
      BY <1>2, <1>3, <1>4, <1>5, RarePut
    <2>2. RareIn(F) \in Nat
      BY <1>6, RareType
    <2>. QED BY <1>1, <1>3, <1>7, <2>1, <2>2
  <1>9. PICK b : b = Put(a, g, e)
    OBVIOUS
  <1>10. b = [a EXCEPT !.exact = F, !.rare = r]
    BY <1>2, <1>3, <1>5, <1>7, <1>9 DEF Put
  <1>11. /\ b \in Aggregates /\ b.slots = a.slots /\ b.pairs = a.pairs /\ b.exact = F /\ b.rare = r
         /\ b.unchecked = a.unchecked
    BY <1>1, <1>6, <1>8, <1>10, Zenon DEF Aggregates
  <1>12. AllSound(b)
    BY <1>1, <1>3, <1>6, <1>11 DEF AllSound
  <1>13. Points(b) /\ Apart(b) /\ Reached(b)
    BY <1>1, <1>3, <1>6, <1>11 DEF Points, Apart, Reached
  <1>14. Kept(b)
    BY <1>8, <1>11, <1>12, <1>13 DEF Kept
  <1>15. ASSUME NEW h \in 1..Len(a.slots)
         PROVE  Stand(b, h) = IF h = g THEN Sense(e) ELSE Stand(a, h)
    <2>1. PICK s \in Slots : s = a.slots[h]
      BY <1>1, PartsAre
    <2>2. Stand(b, h) = StandsFor(b, s) /\ Stand(a, h) = StandsFor(a, s)
      BY <1>11, <2>1 DEF Stand
    <2>3. CASE h = g
      BY <1>2, <1>6, <1>11, <2>1, <2>2, <2>3, StandIs
    <2>4. CASE h # g /\ s.n = Exact
      <3>1. s.v # v
        <4>1. PICK q \in Slots : q = a.slots[g]
          BY <1>1, PartsAre
        <4>2. q # s
          BY <1>1, <2>1, <2>4, <4>1 DEF Apart
        <4>3. q = Slot(q.n, q.v) /\ s = Slot(s.n, s.v)
          BY SlotIs
        <4>. QED BY <1>2, <2>4, <4>1, <4>2, <4>3
      <3>2. s.v \in 1..Len(E)
        BY <1>1, <1>3, <2>1, <2>4 DEF Points
      <3>. QED BY <1>3, <1>6, <1>11, <2>2, <2>4, <3>1, <3>2, StandIs
    <2>5. CASE h # g /\ s.n # Exact
      <3>1. s.n \in {0, 1, 2}
        BY <2>5, SlotIs
      <3>2. StandsFor(b, s) = StandsFor(a, s)
        BY <1>11, <3>1, StandIs
      <3>. QED BY <2>2, <2>5, <3>2
    <2>. QED BY <2>3, <2>4, <2>5
  <1>16. ASSUME NEW m \in Nat, AllWithin(a, m), Within(e, m) PROVE AllWithin(b, m)
    BY <1>3, <1>6, <1>11, <1>16 DEF AllWithin
  <1>17. Does(a, b, g, Sense(e))
    BY <1>11, <1>14, <1>15 DEF Does
  <1>. QED BY <1>2, <1>3, <1>5, <1>9, <1>11, <1>16, <1>17

(* A slot is given another content, in a place of its own. *)
LEMMA SlotChanges ==
  ASSUME NEW a, Kept(a), NEW g \in 1..Len(a.slots), a.slots[g].n # Exact, NEW s \in Slots,
         NEW b \in Aggregates, b.slots = [a.slots EXCEPT ![g] = s], b.unchecked = a.unchecked,
         AllSound(b), b.rare = RareIn(b.exact),
         Len(a.pairs) <= Len(b.pairs), \A i \in 1..Len(a.pairs) : b.pairs[i] = a.pairs[i],
         Len(a.exact) <= Len(b.exact), \A i \in 1..Len(a.exact) : b.exact[i] = a.exact[i],
         s.n = 2 => s.v \in 1..Len(b.pairs) /\ s.v > Len(a.pairs),
         s.n = Exact => s.v = Len(a.exact) + 1 /\ s.v = Len(b.exact),
         s.n # Exact => Len(b.exact) = Len(a.exact)
  PROVE  Does(a, b, g, StandsFor(b, s))
  <1>1. a \in Aggregates /\ Points(a) /\ Apart(a) /\ Reached(a)
    BY DEF Kept
  <1>2. PICK S \in Seq(Slots), T \in Seq(Slots) : S = a.slots /\ T = b.slots
    BY <1>1, PartsAre
  <1>3. /\ Len(T) = Len(S) /\ Len(S) \in Nat /\ g \in 1..Len(S) /\ T[g] = s
        /\ \A h \in 1..Len(S) : h # g => T[h] = S[h]
    BY <1>2
  <1>4. PICK p \in Nat, q \in Nat, k \in Nat, l \in Nat :
          /\ p = Len(a.pairs) /\ q = Len(b.pairs) /\ p <= q
          /\ k = Len(a.exact) /\ l = Len(b.exact) /\ k <= l
    BY <1>1, PartsAre, Zenon
  <1>5. ASSUME NEW h \in 1..Len(S), h # g
        PROVE  /\ S[h].n = 2 => S[h].v \in 1..p
               /\ S[h].n = Exact => S[h].v \in 1..k
    BY <1>1, <1>2, <1>4 DEF Points
  <1>6. Points(b)
    <2> SUFFICES ASSUME NEW h \in 1..Len(T)
                 PROVE  (T[h].n = 2 => T[h].v \in 1..q) /\ (T[h].n = Exact => T[h].v \in 1..l)
      BY <1>2, <1>4 DEF Points
    <2>1. CASE h = g
      BY <1>3, <1>4, <2>1
    <2>2. CASE h # g
      <3>1. T[h] = S[h] /\ h \in 1..Len(S)
        BY <1>3, <2>2
      <3>2. (S[h].n = 2 => S[h].v \in 1..p) /\ (S[h].n = Exact => S[h].v \in 1..k)
        BY <1>5, <2>2, <3>1
      <3>3. (\A x \in 1..p : x \in 1..q) /\ (\A x \in 1..k : x \in 1..l)
        <4>1. p <= q /\ k <= l
          BY <1>4
        <4>2. \A x \in 1..p : x \in 1..q
          BY <4>1
        <4>3. \A x \in 1..k : x \in 1..l
          BY <4>1
        <4>. QED BY <4>2, <4>3
      <3>. QED BY <3>1, <3>2, <3>3, Zenon
    <2>. QED BY <2>1, <2>2
  <1>7. Apart(b)
    <2> SUFFICES ASSUME NEW h \in 1..Len(T), NEW j \in 1..Len(T), h # j, T[h].n \in {2, Exact}, T[h] = T[j]
                 PROVE  FALSE
      BY <1>2 DEF Apart
    <2>1. CASE h # g /\ j # g
      <3>1. T[h] = S[h] /\ T[j] = S[j] /\ h \in 1..Len(S) /\ j \in 1..Len(S)
        BY <1>3, <2>1, Zenon
      <3>. QED BY <1>1, <1>2, <3>1 DEF Apart
    <2>2. ASSUME NEW i \in 1..Len(S), i # g, T[i] = s, s.n \in {2, Exact} PROVE FALSE
      <3>1. S[i] = s
        BY <1>3, <2>2
      <3>2. (s.n = 2 => s.v \in 1..p) /\ (s.n = Exact => s.v \in 1..k)
        BY <1>5, <2>2, <3>1
      <3>3. (s.n = 2 => s.v > p) /\ (s.n = Exact => s.v = k + 1)
        BY <1>4, Zenon
      <3>4. s.n = 2 \/ s.n = Exact
        BY <2>2
      <3>5. CASE s.n = 2
        BY <3>2, <3>3, <3>5
      <3>6. CASE s.n = Exact
        BY <3>2, <3>3, <3>6
      <3>. QED BY <3>4, <3>5, <3>6
    <2>3. CASE h = g
      <3>1. j \in 1..Len(S) /\ j # g /\ T[j] = s /\ s.n \in {2, Exact}
        BY <1>3, <2>3
      <3>. QED BY <2>2, <3>1
    <2>4. CASE j = g
      <3>1. h \in 1..Len(S) /\ h # g /\ T[h] = s /\ s.n \in {2, Exact}
        BY <1>3, <2>4
      <3>. QED BY <2>2, <3>1
    <2>. QED BY <2>1, <2>3, <2>4
  <1>8. Reached(b)
    <2> SUFFICES ASSUME NEW i \in 1..l PROVE \E h \in 1..Len(T) : T[h].n = Exact /\ T[h].v = i
      BY <1>2, <1>4 DEF Reached
    <2>1. CASE i <= k
      <3>1. PICK h \in 1..Len(S) : S[h].n = Exact /\ S[h].v = i
        BY <1>1, <1>2, <1>4, <2>1 DEF Reached
      <3>2. h # g
        BY <1>2, <3>1
      <3>3. T[h] = S[h] /\ h \in 1..Len(T)
        BY <1>3, <3>2
      <3>. QED BY <3>1, <3>3
    <2>2. CASE ~(i <= k)
      <3>1. s.n = Exact /\ s.v = i
        BY <1>4, <2>2
      <3>. QED BY <1>3, <3>1
    <2>. QED BY <2>1, <2>2
  <1>9. Kept(b)
    BY <1>6, <1>7, <1>8 DEF Kept
  <1>10. ASSUME NEW h \in 1..Len(S)
         PROVE  Stand(b, h) = IF h = g THEN StandsFor(b, s) ELSE Stand(a, h)
    <2>1. CASE h = g
      BY <1>2, <1>3, <2>1 DEF Stand
    <2>2. CASE h # g
      <3>1. PICK r \in Slots : r = S[h]
        OBVIOUS
      <3>2. Stand(b, h) = StandsFor(b, r) /\ Stand(a, h) = StandsFor(a, r)
        BY <1>2, <1>3, <2>2, <3>1 DEF Stand
      <3>3. CASE r.n \in {0, 1}
        BY <3>3, StandIs, <3>2, <2>2
      <3>4. CASE r.n = 2
        <4>1. b.pairs[r.v] = a.pairs[r.v]
          BY <1>4, <1>5, <2>2, <3>1, <3>4, Zenon
        <4>2. StandsFor(b, r) = StandsFor(a, r)
          <5>1. StandsFor(b, r) = Tally(Tally(NoTotal, b.pairs[r.v][1], 1), b.pairs[r.v][2], 1)
            BY <3>4, StandIs
          <5>2. StandsFor(a, r) = Tally(Tally(NoTotal, a.pairs[r.v][1], 1), a.pairs[r.v][2], 1)
            BY <3>4, StandIs
          <5>. QED BY <4>1, <5>1, <5>2
        <4>. QED BY <2>2, <3>2, <4>2
      <3>5. CASE r.n = Exact
        <4>1. b.exact[r.v] = a.exact[r.v]
          BY <1>4, <1>5, <2>2, <3>1, <3>5, Zenon
        <4>. QED BY <2>2, <3>2, <3>5, <4>1, StandIs
      <3>. QED BY <3>1, <3>3, <3>4, <3>5, SlotIs
    <2>. QED BY <2>1, <2>2
  <1>. QED BY <1>2, <1>3, <1>9, <1>10 DEF Does

LEMMA HoldDoes ==
  ASSUME NEW a, Kept(a), NEW g \in 1..Len(a.slots), HoldsMore(a, g), NEW x \in Double,
         NEW b, b = Hold(a, g, x)
  PROVE  Does(a, b, g, Tally(Stand(a, g), x, 1)) /\ b.exact = a.exact
  <1>1. a \in Aggregates /\ AllSound(a) /\ a.rare = RareIn(a.exact)
    BY DEF Kept
  <1>2. PICK S \in Seq(Slots), P \in Seq(Double \X Double), E \in Seq(ExactSums) :
          S = a.slots /\ P = a.pairs /\ E = a.exact /\ Len(P) \in Nat /\ Len(E) \in Nat
    BY <1>1, PartsAre
  <1>3. PICK s \in Slots : s = S[g]
    BY <1>1, <1>2, PartsAre
  <1>4. s.n \in {0, 1} /\ Stand(a, g) = StandsFor(a, s)
    BY <1>2, <1>3 DEF HoldsMore, Stand
  <1>5. CASE s.n = 0
    <2>1. PICK t \in Slots : t = Slot(1, x) /\ t.n = 1 /\ t.v = x
      BY SlotsAre
    <2>2. PICK T \in Seq(Slots) : T = [S EXCEPT ![g] = t] /\ T[g] = t
      <3>1. PICK T : T = [S EXCEPT ![g] = t]
        BY Zenon
      <3>2. g \in 1..Len(S)
        BY <1>2
      <3>. QED BY <3>1, <3>2, ExceptSeq
    <2>3. b = [a EXCEPT !.slots = T]
      BY <1>2, <1>3, <1>5, <2>1, <2>2 DEF Hold
    <2>4. /\ b \in Aggregates /\ b.slots = T /\ b.pairs = P /\ b.exact = E /\ b.rare = a.rare
          /\ b.unchecked = a.unchecked
      BY <1>1, <1>2, <2>2, <2>3, Zenon DEF Aggregates
    <2>5. AllSound(b) /\ b.rare = RareIn(b.exact)
      BY <1>1, <1>2, <2>4 DEF AllSound
    <2>6. Does(a, b, g, StandsFor(b, t))
      <3>1. a.slots[g].n # Exact /\ t.n # 2 /\ t.n # Exact
        BY <1>2, <1>3, <1>5, <2>1 DEF Exact
      <3>2. /\ Len(a.pairs) <= Len(b.pairs) /\ Len(a.exact) <= Len(b.exact)
            /\ Len(b.exact) = Len(a.exact)
            /\ \A i \in 1..Len(a.pairs) : b.pairs[i] = a.pairs[i]
            /\ \A i \in 1..Len(a.exact) : b.exact[i] = a.exact[i]
        BY <1>2, <2>4
      <3>3. b.slots = [a.slots EXCEPT ![g] = t]
        BY <1>2, <2>2, <2>4
      <3>. QED BY <2>4, <2>5, <3>1, <3>2, <3>3, SlotChanges, Zenon
    <2>7. StandsFor(b, t) = Tally(Stand(a, g), x, 1)
      BY <1>4, <1>5, <2>1, StandIs
    <2>. QED BY <1>2, <2>4, <2>6, <2>7
  <1>6. CASE s.n = 1
    <2>1. PICK y \in Double : y = s.v
      BY <1>6, SlotIs
    <2>2. PICK d \in Double \X Double : d = <<y, x>>
      BY Zenon
    <2>3. d[1] = y /\ d[2] = x
      BY <2>2
    <2>4. PICK k \in Nat : k = Len(P) + 1
      BY <1>2
    <2>5. PICK t \in Slots : t = Slot(2, k) /\ t.n = 2 /\ t.v = k
      BY SlotsAre
    <2>6. PICK T \in Seq(Slots) : T = [S EXCEPT ![g] = t] /\ T[g] = t
      <3>1. PICK T : T = [S EXCEPT ![g] = t]
        BY Zenon
      <3>2. g \in 1..Len(S)
        BY <1>2
      <3>. QED BY <3>1, <3>2, ExceptSeq
    <2>7. Append(P, d) \in Seq(Double \X Double)
      OBVIOUS
    <2>8. PICK Q \in Seq(Double \X Double) : Q = Append(P, d)
      BY <2>7, Zenon
    <2>9. Len(Q) = k /\ Q[k] = d /\ \A i \in 1..Len(P) : Q[i] = P[i]
      BY <1>2, <2>4, <2>8
    <2>10. b = [a EXCEPT !.slots = T, !.pairs = Q]
      BY <1>2, <1>3, <1>6, <2>1, <2>2, <2>4, <2>5, <2>6, <2>8 DEF Hold
    <2>11. /\ b \in Aggregates /\ b.slots = T /\ b.pairs = Q /\ b.exact = E /\ b.rare = a.rare
           /\ b.unchecked = a.unchecked
      BY <1>1, <1>2, <2>6, <2>8, <2>10, Zenon DEF Aggregates
    <2>12. AllSound(b) /\ b.rare = RareIn(b.exact)
      BY <1>1, <1>2, <2>11 DEF AllSound
    <2>13. Does(a, b, g, StandsFor(b, t))
      <3>1. a.slots[g].n # Exact /\ t.n # Exact
        BY <1>2, <1>3, <1>6, <2>5 DEF Exact
      <3>2. t.v \in 1..Len(b.pairs) /\ t.v > Len(a.pairs) /\ Len(a.pairs) <= Len(b.pairs)
        BY <1>2, <2>4, <2>5, <2>9, <2>11
      <3>3. \A i \in 1..Len(a.pairs) : b.pairs[i] = a.pairs[i]
        BY <1>2, <2>9, <2>11, Zenon
      <3>4. Len(a.exact) <= Len(b.exact) /\ Len(b.exact) = Len(a.exact)
            /\ \A i \in 1..Len(a.exact) : b.exact[i] = a.exact[i]
        BY <1>2, <2>11
      <3>5. b.slots = [a.slots EXCEPT ![g] = t]
        BY <1>2, <2>6, <2>11
      <3>. QED BY <2>5, <2>11, <2>12, <3>1, <3>2, <3>3, <3>4, <3>5, SlotChanges, Zenon
    <2>14. StandsFor(b, t) = Tally(Stand(a, g), x, 1)
      <3>1. StandsFor(b, t) = Tally(Tally(NoTotal, y, 1), x, 1)
        BY <2>3, <2>5, <2>9, <2>11, StandIs
      <3>2. Stand(a, g) = Tally(NoTotal, y, 1)
        BY <1>4, <1>6, <2>1, StandIs
      <3>. QED BY <3>1, <3>2
    <2>. QED BY <1>2, <2>11, <2>13, <2>14
  <1>. QED BY <1>4, <1>5, <1>6

(* What a slot holds becomes an exact sum, and stands for as much. *)
LEMMA WithExactDoes ==
  ASSUME NEW a, Kept(a), NEW g \in 1..Len(a.slots), NEW w, w = WithExact(a, g)
  PROVE  /\ Does(a, w, g, Stand(a, g)) /\ w.slots[g].n = Exact
         /\ \A m \in Nat : AllWithin(a, m) /\ Limit <= m => AllWithin(w, m)
  <1>1. a \in Aggregates /\ AllSound(a) /\ Points(a) /\ a.rare = RareIn(a.exact)
    BY DEF Kept
  <1>2. PICK S \in Seq(Slots), E \in Seq(ExactSums) :
          S = a.slots /\ E = a.exact /\ Len(E) \in Nat
    BY <1>1, PartsAre
  <1>3. PICK s \in Slots : s = S[g]
    BY <1>1, <1>2, PartsAre
  <1>4. CASE s.n = Exact
    <2>1. w = a
      BY <1>2, <1>3, <1>4 DEF WithExact
    <2>2. Does(a, a, g, Stand(a, g))
      BY DEF Does
    <2>. QED BY <1>2, <1>3, <1>4, <2>1, <2>2
  <1>5. CASE s.n # Exact
    <2>1. PICK xs : xs = Held(a, s)
      OBVIOUS
    <2>2. xs \in Seq(Double) /\ Len(xs) \in 0..2 /\ HeldSense(xs) = StandsFor(a, s)
      <3>1. CASE s.n = 0
        <4>1. xs = <<>>
          BY <2>1, <3>1 DEF Held
        <4>2. StandsFor(a, s) = NoTotal
          BY <3>1, StandIs
        <4>. QED BY <4>1, <4>2 DEF HeldSense
      <3>2. CASE s.n = 1
        <4>1. PICK x \in Double : x = s.v
          BY <3>2, SlotIs
        <4>2. xs = <<x>>
          BY <2>1, <3>2, <4>1 DEF Held
        <4>3. StandsFor(a, s) = Tally(NoTotal, x, 1)
          BY <3>2, <4>1, StandIs
        <4>4. xs \in Seq(Double) /\ Len(xs) = 1 /\ xs[1] = x
          BY <4>2
        <4>. QED BY <4>3, <4>4 DEF HeldSense
      <3>3. CASE s.n = 2
        <4>1. xs = a.pairs[s.v]
          BY <2>1, <3>3 DEF Held
        <4>2. xs \in Double \X Double
          BY <1>1, <1>2, <1>3, <3>3, <4>1, PartsAre DEF Points
        <4>3. xs \in Seq(Double) /\ Len(xs) = 2
          <5>1. PICK x \in Double, y \in Double : xs = <<x, y>>
            BY <4>2
          <5>. QED BY <5>1
        <4>4. StandsFor(a, s) = Tally(Tally(NoTotal, xs[1], 1), xs[2], 1)
          BY <3>3, <4>1, StandIs
        <4>. QED BY <4>3, <4>4 DEF HeldSense
      <3>. QED BY <1>5, <3>1, <3>2, <3>3, SlotIs
    <2>3. PICK e : e = ExactFrom(xs)
      OBVIOUS
    <2>4. Sound(e) /\ Sense(e) = StandsFor(a, s) /\ Within(e, Limit) /\ e \in ExactSums
      BY <2>2, <2>3, ExactFromTakes DEF Sound
    <2>5. PICK k \in Nat : k = Len(E) + 1
      BY <1>2
    <2>6. PICK t \in Slots : t = Slot(Exact, k) /\ t.n = Exact /\ t.v = k
      BY SlotsAre
    <2>7. PICK T \in Seq(Slots) : T = [S EXCEPT ![g] = t] /\ T[g] = t
      <3>1. PICK T : T = [S EXCEPT ![g] = t]
        BY Zenon
      <3>2. g \in 1..Len(S)
        BY <1>2
      <3>. QED BY <3>1, <3>2, ExceptSeq
    <2>8. Append(E, e) \in Seq(ExactSums)
      BY <2>4
    <2>9. PICK F \in Seq(ExactSums) : F = Append(E, e)
      BY <2>8, Zenon
    <2>10. Len(F) = k /\ F[k] = e /\ \A i \in 1..Len(E) : F[i] = E[i]
      BY <1>2, <2>4, <2>5, <2>9
    <2>11. PICK r : r = a.rare + RareOne(e)
      OBVIOUS
    <2>12. r = RareIn(F) /\ r \in Int
      <3>1. RareIn(F) = RareIn(E) + RareOne(e)
        BY <2>4, <2>9, RareAppend
      <3>2. RareIn(F) \in Nat
        BY RareType
      <3>. QED BY <1>1, <1>2, <2>11, <3>1, <3>2
    <2>13. w = [a EXCEPT !.slots = T, !.exact = F, !.rare = r]
      BY <1>2, <1>3, <1>5, <2>1, <2>3, <2>5, <2>6, <2>7, <2>9, <2>11 DEF WithExact
    <2>14. /\ w \in Aggregates /\ w.slots = T /\ w.pairs = a.pairs /\ w.exact = F /\ w.rare = r
           /\ w.unchecked = a.unchecked
      BY <1>1, <2>7, <2>9, <2>12, <2>13, Zenon DEF Aggregates
    <2>15. AllSound(w)
      <3> SUFFICES ASSUME NEW i \in 1..k PROVE Sound(F[i])
        BY <2>10, <2>14 DEF AllSound
      <3>1. i = k \/ i \in 1..Len(E)
        BY <1>2, <2>5
      <3>. QED BY <1>1, <1>2, <2>4, <2>10, <3>1 DEF AllSound
    <2>16. Does(a, w, g, StandsFor(w, t))
      <3>1. a.slots[g].n # Exact /\ t.n # 2
        BY <1>2, <1>3, <1>5, <2>6 DEF Exact
      <3>2. Len(a.pairs) <= Len(w.pairs) /\ \A i \in 1..Len(a.pairs) : w.pairs[i] = a.pairs[i]
        BY <1>1, <2>14, PartsAre
      <3>3. Len(a.exact) <= Len(w.exact) /\ t.v = Len(a.exact) + 1 /\ t.v = Len(w.exact)
            /\ \A i \in 1..Len(a.exact) : w.exact[i] = a.exact[i]
        BY <1>2, <2>5, <2>6, <2>10, <2>14
      <3>4. w.slots = [a.slots EXCEPT ![g] = t]
        BY <1>2, <2>7, <2>14
      <3>5. w.rare = RareIn(w.exact)
        BY <2>12, <2>14
      <3>. QED BY <2>6, <2>14, <2>15, <3>1, <3>2, <3>3, <3>4, <3>5, SlotChanges, Zenon
    <2>17. StandsFor(w, t) = Stand(a, g)
      BY <1>2, <1>3, <2>4, <2>6, <2>10, <2>14, StandIs DEF Stand
    <2>18. ASSUME NEW m \in Nat, AllWithin(a, m), Limit <= m PROVE AllWithin(w, m)
      <3> SUFFICES ASSUME NEW i \in 1..k PROVE Within(F[i], m)
        BY <2>10, <2>14 DEF AllWithin
      <3>1. i = k \/ i \in 1..Len(E)
        BY <1>2, <2>5
      <3>2. Within(e, m)
        <4>1. Limit \in Nat
          BY BucketTypes
        <4>. QED BY <2>4, <2>18, <4>1, WithinMore
      <3>. QED BY <1>2, <2>10, <2>18, <3>1, <3>2 DEF AllWithin
    <2>19. w.slots[g].n = Exact
      BY <1>2, <2>6, <2>7, <2>14
    <2>. QED BY <2>16, <2>17, <2>18, <2>19
  <1>. QED BY <1>4, <1>5

LEMMA DoesThen ==
  ASSUME NEW a, NEW w, NEW b, NEW g, NEW t, NEW u, Does(a, w, g, t), Does(w, b, g, u)
  PROVE  Does(a, b, g, u)
  BY DEF Does

LEMMA WithCount ==
  ASSUME NEW e, Sound(e), NEW n \in Nat, NEW f, f = [e EXCEPT !.n = n]
  PROVE  /\ Sound(f) /\ Total(f) = Total(e) /\ f.special = e.special /\ f.n = n
         /\ \A m \in Nat : Within(e, m) => Within(f, m)
  <1>1. /\ f.sums = e.sums /\ f.ids = e.ids /\ f.rare = e.rare /\ f.dense = e.dense /\ f.n = n
        /\ f.special = e.special /\ f \in ExactSums
    BY DEF Sound, ExactSums
  <1>2. Sound(f) /\ Entries(f) = Entries(e)
    BY <1>1 DEF Sound, Entries
  <1>3. \A m \in Nat : Within(e, m) => Within(f, m)
    BY <1>1 DEF Within
  <1>. QED BY <1>1, <1>2, <1>3, TotalIs

LEMMA ExactOf ==
  ASSUME NEW a, Kept(a), NEW g \in 1..Len(a.slots), a.slots[g].n = Exact, NEW e, e = SumOfGroup(a, g)
  PROVE  /\ Sound(e) /\ Sense(e) = Stand(a, g) /\ Stand(a, g) \in Totals
         /\ \A m : AllWithin(a, m) => Within(e, m)
  <1>1. a \in Aggregates /\ AllSound(a) /\ Points(a)
    BY DEF Kept
  <1>2. PICK v \in 1..Len(a.exact) : v = a.slots[g].v
    BY <1>1 DEF Points
  <1>3. e = a.exact[v] /\ Sound(e)
    BY <1>1, <1>2 DEF SumOfGroup, AllSound
  <1>4. Sense(e) = Stand(a, g)
    <2>1. PICK s \in Slots : s = a.slots[g]
      BY <1>1, PartsAre
    <2>. QED BY <1>2, <1>3, <2>1, StandIs DEF Stand
  <1>. QED BY <1>3, <1>4, StandType DEF AllWithin

(* What a step on the group g of a gives that may be refused. *)
Tries(a, u, g, t) ==
  /\ u.ok \in BOOLEAN /\ Kept(u.acc)
  /\ u.ok => /\ Does(a, u.acc, g, t)
             /\ \A m \in Nat : AllWithin(a, m) /\ Limit <= m => AllWithin(u.acc, m)

LEMMA HoldTries ==
  ASSUME NEW a, Kept(a), NEW g \in 1..Len(a.slots), HoldsMore(a, g), NEW x \in Double
  PROVE  Tries(a, [acc |-> Hold(a, g, x), ok |-> TRUE], g, Tally(Stand(a, g), x, 1))
  <1>1. PICK b : b = Hold(a, g, x)
    OBVIOUS
  <1>2. Does(a, b, g, Tally(Stand(a, g), x, 1)) /\ b.exact = a.exact
    BY <1>1, HoldDoes
  <1>3. Kept(b)
    BY <1>2 DEF Does
  <1>4. \A m \in Nat : AllWithin(a, m) => AllWithin(b, m)
    BY <1>2 DEF AllWithin
  <1>. QED BY <1>1, <1>2, <1>3, <1>4 DEF Tries

(* An exact sum that took something is put back. *)
LEMMA UpdatedTries ==
  ASSUME NEW a, Kept(a), NEW g \in 1..Len(a.slots), NEW w, w = WithExact(a, g),
         NEW r, Sound(r.sum), r.ok \in BOOLEAN, NEW t, r.ok => Sense(r.sum) = t,
         r.ok => \A m \in Nat : Within(SumOfGroup(w, g), m) /\ Limit <= m => Within(r.sum, m)
  PROVE  Tries(a, Updated(w, g, r), g, t)
  <1>1. /\ Does(a, w, g, Stand(a, g)) /\ w.slots[g].n = Exact
        /\ \A m \in Nat : AllWithin(a, m) /\ Limit <= m => AllWithin(w, m)
    BY WithExactDoes
  <1>2. Kept(w) /\ g \in 1..Len(w.slots)
    BY <1>1 DEF Does
  <1>3. PICK e : e = r.sum
    OBVIOUS
  <1>4. PICK b : b = Put(w, g, e)
    OBVIOUS
  <1>5. /\ Does(w, b, g, Sense(e))
        /\ \A m \in Nat : AllWithin(w, m) /\ Within(e, m) => AllWithin(b, m)
    BY <1>1, <1>2, <1>3, <1>4, PutDoes, Zenon
  <1>6. Does(a, b, g, Sense(e))
    BY <1>1, <1>5, DoesThen
  <1>7. PICK u : u = Updated(w, g, r)
    OBVIOUS
  <1>8. u.acc = b /\ u.ok = r.ok
    BY <1>3, <1>4, <1>7 DEF Updated
  <1>9. ASSUME r.ok, NEW m \in Nat, AllWithin(a, m), Limit <= m PROVE AllWithin(b, m)
    <2>1. AllWithin(w, m)
      BY <1>1, <1>9
    <2>2. Within(SumOfGroup(w, g), m)
      BY <1>1, <1>2, <2>1, ExactOf
    <2>3. Within(e, m)
      BY <1>3, <1>9, <2>2
    <2>. QED BY <1>5, <2>1, <2>3
  <1>10. Kept(b)
    BY <1>5 DEF Does
  <1>. QED BY <1>3, <1>6, <1>7, <1>8, <1>9, <1>10 DEF Tries

LEMMA AddOneTries ==
  ASSUME NEW a, Kept(a), NEW g \in 1..Len(a.slots), NEW x \in Double
  PROVE  Tries(a, AddOne(a, g, x), g, Tally(Stand(a, g), x, 1))
  <1>1. CASE HoldsMore(a, g)
    BY <1>1, HoldTries DEF AddOne
  <1>2. CASE ~HoldsMore(a, g)
    <2>1. PICK w : w = WithExact(a, g)
      OBVIOUS
    <2>2. Does(a, w, g, Stand(a, g)) /\ w.slots[g].n = Exact
      BY <2>1, WithExactDoes
    <2>3. Kept(w) /\ g \in 1..Len(w.slots) /\ Stand(w, g) = Stand(a, g)
      BY <2>2 DEF Does
    <2>4. PICK e : e = SumOfGroup(w, g)
      OBVIOUS
    <2>5. PICK t \in Totals : t = Stand(a, g) /\ Sense(e) = t /\ Sound(e)
      BY <2>2, <2>3, <2>4, ExactOf
    <2>6. PICK s, ok : Add(e, x) = [sum |-> s, ok |-> ok]
      BY <2>5, AddTakes
    <2>7. /\ Sound(s) /\ ok \in BOOLEAN /\ s.n = e.n
          /\ Total(s) = Tally(t, x, 1).total /\ s.special = Tally(t, x, 1).special
          /\ ok => \A m \in Nat : Within(e, m) /\ Limit <= m => Within(s, m)
      BY <2>5, <2>6, AddTakes DEF Takes
    <2>8. s.n \in Nat /\ s.n + 1 \in Nat
      BY <2>7 DEF Sound, ExactSums
    <2>9. PICK n \in Nat : n = IF ok THEN s.n + 1 ELSE s.n
      BY <2>8
    <2>10. PICK f : f = [s EXCEPT !.n = n]
      BY Zenon
    <2>11. /\ Sound(f) /\ Total(f) = Total(s) /\ f.special = s.special /\ f.n = n
           /\ \A m \in Nat : Within(s, m) => Within(f, m)
      BY <2>7, <2>10, WithCount
    <2>12. ASSUME ok PROVE Sense(f) = Tally(t, x, 1)
      <3>1. PICK u \in Totals : u = Tally(t, x, 1) /\ u.n = t.n + 1
        BY TallyType, Zenon
      <3>2. u = [total |-> u.total, special |-> u.special, n |-> u.n]
        BY DEF Totals
      <3>3. t.n = e.n
        BY <2>5 DEF Sense
      <3>. QED BY <2>7, <2>9, <2>11, <2>12, <3>1, <3>2, <3>3 DEF Sense
    <2>13. PICK r : r = [sum |-> f, ok |-> ok]
      BY Zenon
    <2>14. AddOne(a, g, x) = Updated(w, g, r)
      <3>1. AddOne(a, g, x) = Updated(w, g, [Add(e, x) EXCEPT !.sum.n = IF Add(e, x).ok THEN @ + 1 ELSE @])
        BY <1>2, <2>1, <2>4 DEF AddOne
      <3>2. [[sum |-> s, ok |-> ok] EXCEPT !.sum.n = IF ok THEN @ + 1 ELSE @] = r
        BY <2>9, <2>10, <2>13
      <3>. QED BY <2>6, <3>1, <3>2
    <2>15. Tries(a, Updated(w, g, r), g, Tally(t, x, 1))
      <3>1. r.sum = f /\ r.ok = ok
        BY <2>13
      <3>2. r.ok => \A m \in Nat : Within(SumOfGroup(w, g), m) /\ Limit <= m => Within(r.sum, m)
        BY <2>4, <2>7, <2>11, <3>1
      <3>3. r.ok => Sense(r.sum) = Tally(t, x, 1)
        BY <2>12, <3>1
      <3>. QED BY <2>1, <2>7, <2>11, <3>1, <3>2, <3>3, UpdatedTries
    <2>. QED BY <2>5, <2>14, <2>15
  <1>. QED BY <1>1, <1>2

-----------------------------------------------------------------------------
(* Merging, state by state.                                                *)
LEMMA TogetherNone ==
  ASSUME NEW t \in Totals
  PROVE  Together(t, NoTotal) = t
  <1>1. t.special \in Specials /\ t.total \in Int /\ t.n \in Int /\ NoSpecial \in Specials
        /\ t = [total |-> t.total, special |-> t.special, n |-> t.n]
    BY DEF Totals, NoSpecial, Specials
  <1>2. NoTotal.total = 0 /\ NoTotal.n = 0 /\ NoTotal.special = NoSpecial
    BY DEF NoTotal
  <1>3. [k \in DOMAIN t.special |-> t.special[k] + NoSpecial[k]] = t.special
    BY <1>1, SpecialsTogether, Zenon
  <1>4. t.total + 0 = t.total /\ t.n + 0 = t.n
    BY <1>1
  <1>5. Together(t, NoTotal) = [total |-> t.total + 0, n |-> t.n + 0,
           special |-> [k \in DOMAIN t.special |-> t.special[k] + NoSpecial[k]]]
    BY <1>2 DEF Together
  <1>. QED BY <1>1, <1>3, <1>4, <1>5

LEMMA TogetherOne ==
  ASSUME NEW t \in Totals, NEW x \in Double
  PROVE  Together(t, Tally(NoTotal, x, 1)) = Tally(t, x, 1)
  <1>1. t.special \in Specials /\ t.total \in Int /\ t.n \in Int /\ NoSpecial \in Specials
    BY DEF Totals, NoSpecial, Specials
  <1>2. NoTotal.total = 0 /\ NoTotal.n = 0 /\ NoTotal.special = NoSpecial
    BY DEF NoTotal
  <1>3. PICK o \in Totals : o = Tally(NoTotal, x, 1)
    BY NothingIs, TallyType, Zenon
  <1>4. PICK u \in Totals : u = Tally(t, x, 1)
    BY TallyType, Zenon
  <1>5. o.n = 1 /\ u.n = t.n + 1
    BY <1>2, <1>3, <1>4 DEF Tally
  <1>6. u.total = t.total + o.total
    <2>1. CASE IsFinite(x)
      <3>1. PICK y \in Int : y = UnitsOf(x)
        BY <2>1, TallyType, Zenon
      <3>2. o.total = 0 + 1 * y /\ u.total = t.total + 1 * y
        BY <1>2, <1>3, <1>4, <2>1, <3>1 DEF Tally
      <3>. QED BY <1>1, <3>2
    <2>2. CASE ~IsFinite(x)
      <3>1. o.total = 0 /\ u.total = t.total
        BY <1>2, <1>3, <1>4, <2>2 DEF Tally
      <3>. QED BY <1>1, <3>1
    <2>. QED BY <2>1, <2>2
  <1>7. u.special = [k \in DOMAIN t.special |-> t.special[k] + o.special[k]]
    <2>1. CASE IsFinite(x)
      <3>1. o.special = NoSpecial /\ u.special = t.special
        BY <1>2, <1>3, <1>4, <2>1 DEF Tally
      <3>. QED BY <1>1, <3>1, SpecialsTogether, Zenon
    <2>2. CASE ~IsFinite(x)
      <3>1. PICK k \in Marks : k = SpecialOf(x)
        BY SpecialMark
      <3>2. o.special = [NoSpecial EXCEPT ![k] = @ + 1] /\ u.special = [t.special EXCEPT ![k] = @ + 1]
        BY <1>2, <1>3, <1>4, <2>2, <3>1 DEF Tally
      <3>3. DOMAIN NoSpecial = Marks /\ DOMAIN t.special = Marks
        BY <1>1 DEF NoSpecial, Specials, Marks
      <3>4. \A j \in Marks : t.special[j] \in Int /\ NoSpecial[j] = 0
        BY <1>1 DEF NoSpecial, Specials, Marks
      <3>5. PICK q, z : q = t.special /\ z = NoSpecial
        OBVIOUS
      <3>6. /\ q = [j \in Marks |-> q[j]] /\ z = [j \in Marks |-> 0]
            /\ \A j \in Marks : q[j] \in Int
        <4>1. z = [j \in Marks |-> 0]
          BY <3>5 DEF NoSpecial, Marks
        <4>2. q = [j \in Marks |-> q[j]]
          BY <1>1, <3>3, <3>5 DEF Specials
        <4>. QED BY <3>4, <3>5, <4>1, <4>2
      <3>7. \A j \in Marks : [q EXCEPT ![k] = @ + 1][j] = q[j] + [z EXCEPT ![k] = @ + 1][j]
        BY <3>6
      <3>8. [q EXCEPT ![k] = @ + 1] = [j \in Marks |-> [q EXCEPT ![k] = @ + 1][j]]
        BY <3>6
      <3>. QED BY <3>2, <3>3, <3>5, <3>7, <3>8
    <2>. QED BY <2>1, <2>2
  <1>8. u = [total |-> u.total, special |-> u.special, n |-> u.n]
    BY DEF Totals
  <1>9. u.n = t.n + o.n
    BY <1>5
  <1>. QED BY <1>3, <1>4, <1>6, <1>7, <1>8, <1>9 DEF Together

LEMMA MergeStateTries ==
  ASSUME NEW a, Kept(a), NEW g \in 1..Len(a.slots), NEW q, Kept(q), g \in 1..Len(q.slots)
  PROVE  Tries(a, MergeState(a, g, EncodedState(q, q.slots[g])), g, Together(Stand(a, g), Stand(q, g)))
  <1>1. q \in Aggregates /\ AllSound(q) /\ Points(q)
    BY DEF Kept
  <1>2. PICK s \in Slots : s = q.slots[g]
    BY <1>1, PartsAre
  <1>3. PICK c : c = EncodedState(q, s)
    OBVIOUS
  <1>4. PICK t \in Totals : t = Stand(a, g)
    BY StandType
  <1>5. Stand(q, g) = StandsFor(q, s)
    BY <1>2 DEF Stand
  <1>6. CASE s.n = 0
    <2>1. c = [kind |-> "null"]
      BY <1>3, <1>6 DEF EncodedState
    <2>2. MergeState(a, g, c) = [acc |-> a, ok |-> TRUE]
      BY <2>1 DEF MergeState
    <2>3. Together(t, Stand(q, g)) = t
      BY <1>5, <1>6, StandIs, TogetherNone
    <2>4. Does(a, a, g, t)
      BY <1>4 DEF Does
    <2>5. Tries(a, [acc |-> a, ok |-> TRUE], g, t)
      BY <2>4 DEF Tries
    <2>. QED BY <1>2, <1>3, <1>4, <2>2, <2>3, <2>5
  <1>7. CASE s.n = 1
    <2>1. PICK x \in Double : x = s.v
      BY <1>7, SlotIs
    <2>2. c = [kind |-> "single", x |-> x]
      BY <1>3, <1>7, <2>1 DEF EncodedState
    <2>3. MergeState(a, g, c) = AddOne(a, g, x)
      BY <2>2 DEF MergeState
    <2>4. Together(t, Stand(q, g)) = Tally(t, x, 1)
      <3>1. Stand(q, g) = Tally(NoTotal, x, 1)
        BY <1>5, <1>7, <2>1, StandIs
      <3>. QED BY <3>1, TogetherOne
    <2>5. Tries(a, AddOne(a, g, x), g, Tally(t, x, 1))
      BY <1>4, AddOneTries
    <2>. QED BY <1>2, <1>3, <1>4, <2>3, <2>4, <2>5
  <1>8. CASE s.n \in {2, Exact}
    <2>1. PICK o : o = IF s.n = Exact THEN q.exact[s.v] ELSE ExactFrom(q.pairs[s.v])
      OBVIOUS
    <2>2. Sound(o) /\ Sense(o) = Stand(q, g)
      <3>1. CASE s.n = Exact
        <4>1. Sound(q.exact[s.v])
          BY <1>1, <1>2, <3>1 DEF Points, AllSound
        <4>. QED BY <1>5, <2>1, <3>1, <4>1, StandIs
      <3>2. CASE s.n = 2
        <4>1. PICK xs : xs = q.pairs[s.v]
          OBVIOUS
        <4>2. xs \in Double \X Double
          BY <1>1, <1>2, <3>2, <4>1, PartsAre DEF Points
        <4>3. xs \in Seq(Double) /\ Len(xs) = 2
          <5>1. PICK x \in Double, y \in Double : xs = <<x, y>>
            BY <4>2
          <5>. QED BY <5>1
        <4>4. Stand(q, g) = Tally(Tally(NoTotal, xs[1], 1), xs[2], 1)
          BY <1>5, <3>2, <4>1, StandIs
        <4>5. HeldSense(xs) = Stand(q, g)
          BY <4>3, <4>4 DEF HeldSense
        <4>6. o = ExactFrom(xs)
          BY <2>1, <3>2, <4>1 DEF Exact
        <4>7. Len(xs) \in 0..2
          BY <4>3
        <4>. QED BY <4>3, <4>5, <4>6, <4>7, ExactFromTakes
      <3>. QED BY <1>8, <3>1, <3>2
    <2>3. c = [kind |-> "exact", e |-> o]
      BY <1>3, <1>8, <2>1 DEF EncodedState, Exact
    <2>4. PICK w : w = WithExact(a, g)
      OBVIOUS
    <2>5. PICK r : r = MergeSum(SumOfGroup(w, g), o)
      OBVIOUS
    <2>6. MergeState(a, g, c) = Updated(w, g, r)
      BY <2>3, <2>4, <2>5 DEF MergeState
    <2>7. Does(a, w, g, t) /\ w.slots[g].n = Exact
      BY <1>4, <2>4, WithExactDoes
    <2>8. Kept(w) /\ g \in 1..Len(w.slots) /\ Stand(w, g) = t
      BY <2>7 DEF Does
    <2>9. PICK e : e = SumOfGroup(w, g) /\ Sound(e) /\ Sense(e) = t
      BY <2>7, <2>8, ExactOf
    <2>10. /\ Sound(r.sum) /\ r.ok \in BOOLEAN
           /\ r.ok => Sense(r.sum) = Together(t, Stand(q, g))
           /\ r.ok => \A m \in Nat : Within(e, m) /\ Limit <= m => Within(r.sum, m)
      <3>1. r = MergeSum(e, o)
        BY <2>5, <2>9
      <3>2. /\ Sound(r.sum) /\ r.ok \in BOOLEAN
            /\ r.ok => Sense(r.sum) = Together(Sense(e), Sense(o))
            /\ r.ok => \A m \in Nat : Within(e, m) /\ Limit <= m => Within(r.sum, m)
        BY <2>2, <2>9, <3>1, MergeSumTakes, Zenon
      <3>. QED BY <2>2, <2>9, <3>2
    <2>11. Tries(a, Updated(w, g, r), g, Together(t, Stand(q, g)))
      BY <2>4, <2>9, <2>10, UpdatedTries
    <2>. QED BY <1>2, <1>3, <1>4, <2>6, <2>11
  <1>. QED BY <1>6, <1>7, <1>8, SlotIs

LEMMA MergedTakes ==
  ASSUME NEW a, Kept(a), NEW q, Kept(q), NEW k \in Nat, k <= Len(a.slots), k <= Len(q.slots),
         NEW r, r = Merged(a, q, k)
  PROVE  /\ r.ok \in BOOLEAN /\ Kept(r.acc)
         /\ r.ok => /\ Len(r.acc.slots) = Len(a.slots) /\ r.acc.unchecked = a.unchecked
                    /\ \A h \in 1..Len(a.slots) :
                         Stand(r.acc, h) = IF h <= k THEN Together(Stand(a, h), Stand(q, h)) ELSE Stand(a, h)
                    /\ \A m \in Nat : AllWithin(a, m) /\ Limit <= m => AllWithin(r.acc, m)
  <1>0. Len(a.slots) \in Nat /\ Len(q.slots) \in Nat
    BY PartsAre DEF Kept
  <1>1. PICK l : l = [kind |-> "merged", p |-> q, q |-> 0]
    BY Zenon
  <1>2. PICK f : r = f[k] /\ f[0] = [acc |-> a, ok |-> TRUE]
                 /\ \A i \in 1..k : f[i] = Turn(l, f[i - 1], i)
    <2>1. \E f : Unrolled(l, [acc |-> a, ok |-> TRUE], k, r, f)
      BY <1>1, MergedLoop
    <2>. QED BY <2>1 DEF Unrolled
  <1> DEFINE Half(i, u) ==
               /\ u.ok \in BOOLEAN /\ Kept(u.acc)
               /\ u.ok => /\ Len(u.acc.slots) = Len(a.slots) /\ u.acc.unchecked = a.unchecked
                          /\ \A h \in 1..Len(a.slots) : Stand(u.acc, h) =
                               IF h <= i THEN Together(Stand(a, h), Stand(q, h)) ELSE Stand(a, h)
                          /\ \A m \in Nat : AllWithin(a, m) /\ Limit <= m => AllWithin(u.acc, m)
             I == {i \in Nat : i <= k => Half(i, f[i])}
  <1>3. 0 \in I
    <2>1. f[0].acc = a /\ f[0].ok = TRUE
      BY <1>2
    <2>2. \A h \in 1..Len(a.slots) : ~(h <= 0)
      BY <1>0
    <2>. QED BY <2>1, <2>2, Zenon
  <1>4. ASSUME NEW i \in Nat, i \in I PROVE i + 1 \in I
    <2> SUFFICES ASSUME i + 1 <= k PROVE Half(i + 1, f[i + 1])
      OBVIOUS
    <2>1. /\ i + 1 \in 1..k /\ (i + 1) - 1 = i /\ i <= k
          /\ i + 1 \in 1..Len(a.slots) /\ i + 1 \in 1..Len(q.slots)
      BY <1>0
    <2>2. PICK u, w : u = f[i] /\ w = f[i + 1]
      OBVIOUS
    <2>3. Half(i, u)
      BY <1>4, <2>1, <2>2
    <2>4. w = Turn(l, u, i + 1)
      BY <1>2, <2>1, <2>2
    <2>5. w = IF ~u.ok THEN u ELSE MergeState(u.acc, i + 1, EncodedState(q, q.slots[i + 1]))
      BY <1>1, <2>4 DEF Turn
    <2>6. CASE ~u.ok
      BY <2>2, <2>3, <2>5, <2>6
    <2>7. CASE u.ok
      <3>1. PICK b, g : b = u.acc /\ g = i + 1
        OBVIOUS
      <3>2. Kept(b) /\ Len(b.slots) = Len(a.slots) /\ b.unchecked = a.unchecked
        BY <2>3, <2>7, <3>1
      <3>3. w = MergeState(b, g, EncodedState(q, q.slots[g]))
        BY <2>5, <2>7, <3>1
      <3>4. Tries(b, w, g, Together(Stand(b, g), Stand(q, g)))
        BY <2>1, <3>1, <3>2, <3>3, MergeStateTries
      <3>5. w.ok \in BOOLEAN /\ Kept(w.acc)
        BY <3>4 DEF Tries
      <3>6. ASSUME w.ok
            PROVE  /\ Len(w.acc.slots) = Len(a.slots) /\ w.acc.unchecked = a.unchecked
                   /\ \A h \in 1..Len(a.slots) : Stand(w.acc, h) =
                        IF h <= i + 1 THEN Together(Stand(a, h), Stand(q, h)) ELSE Stand(a, h)
                   /\ \A m \in Nat : AllWithin(a, m) /\ Limit <= m => AllWithin(w.acc, m)
        <4>1. Does(b, w.acc, g, Together(Stand(b, g), Stand(q, g)))
          BY <3>4, <3>6 DEF Tries
        <4>2. Len(w.acc.slots) = Len(a.slots) /\ w.acc.unchecked = a.unchecked
          BY <3>2, <4>1 DEF Does
        <4>3. ASSUME NEW h \in 1..Len(a.slots)
              PROVE  Stand(w.acc, h) = IF h <= i + 1 THEN Together(Stand(a, h), Stand(q, h)) ELSE Stand(a, h)
          <5>1. Stand(w.acc, h) = IF h = g THEN Together(Stand(b, g), Stand(q, g)) ELSE Stand(b, h)
            BY <3>2, <4>1 DEF Does
          <5>2. Stand(b, h) = IF h <= i THEN Together(Stand(a, h), Stand(q, h)) ELSE Stand(a, h)
            BY <2>3, <2>7, <3>1
          <5>3. h \in Int /\ (h <= i + 1 <=> h <= i \/ h = i + 1) /\ (h = i + 1 => ~(h <= i))
            BY <1>0
          <5>. QED BY <3>1, <5>1, <5>2, <5>3
        <4>4. ASSUME NEW m \in Nat, AllWithin(a, m), Limit <= m PROVE AllWithin(w.acc, m)
          <5>1. AllWithin(b, m)
            BY <2>3, <2>7, <3>1, <4>4
          <5>. QED BY <3>4, <3>6, <4>4, <5>1 DEF Tries
        <4>. QED BY <4>2, <4>3, <4>4
      <3>. QED BY <2>2, <3>5, <3>6
    <2>. QED BY <2>3, <2>6, <2>7
  <1>5. k \in I
    <2> HIDE DEF I
    <2>. QED BY <1>3, <1>4, ByInduction, Zenon
  <1>6. Half(k, r)
    BY <1>2, <1>5
  <1>. QED BY <1>6

-----------------------------------------------------------------------------
(* Rows of the grouped path, whose range checks are put off.               *)
Far(n) == Limit + n * MaxUnits

LEMMA FarGrows ==
  /\ Far(0) = Limit
  /\ \A n \in Nat : Far(n) \in Nat /\ Limit <= Far(n) /\ Far(n) <= Far(n + 1) /\ Far(n + 1) = Far(n) + MaxUnits
  <1>1. PICK u \in Nat, l \in Nat : u = MaxUnits /\ l = Limit
    BY BucketTypes
  <1>2. \A n \in Nat : n * u \in Nat /\ (n + 1) * u = n * u + u
    OBVIOUS
  <1>. QED BY <1>1, <1>2 DEF Far

LEMMA ConcatSeq ==
  ASSUME NEW A, NEW s \in Seq(A), NEW t \in Seq(A), NEW u, u = s \o t
  PROVE  /\ u \in Seq(A) /\ Len(u) = Len(s) + Len(t)
         /\ \A i \in 1..(Len(s) + Len(t)) : u[i] = IF i <= Len(s) THEN s[i] ELSE t[i - Len(s)]
  OBVIOUS

LEMMA AllWithinMore ==
  ASSUME NEW a, Kept(a), NEW m \in Nat, NEW k \in Nat, m <= k, AllWithin(a, m)
  PROVE  AllWithin(a, k)
  <1> SUFFICES ASSUME NEW i \in 1..Len(a.exact) PROVE Within(a.exact[i], k)
    BY DEF AllWithin
  <1>1. Sound(a.exact[i]) /\ Within(a.exact[i], m)
    BY DEF Kept, AllSound, AllWithin
  <1>. QED BY <1>1, WithinMore

LEMMA UncheckedKeeps ==
  ASSUME NEW a, Kept(a), NEW n \in Nat, NEW b, b = [a EXCEPT !.unchecked = n]
  PROVE  /\ Kept(b) /\ b.unchecked = n /\ b.slots = a.slots /\ b.exact = a.exact
         /\ \A g \in 1..Len(a.slots) : Stand(b, g) = Stand(a, g)
         /\ \A m : AllWithin(a, m) => AllWithin(b, m)
  <1>0. a \in Aggregates /\ a.rare = RareIn(a.exact) /\ AllSound(a) /\ Points(a) /\ Apart(a) /\ Reached(a)
    BY DEF Kept
  <1>1. /\ b \in Aggregates /\ b.unchecked = n /\ b.slots = a.slots /\ b.exact = a.exact
        /\ b.pairs = a.pairs /\ b.rare = a.rare
    BY <1>0, Zenon DEF Aggregates
  <1>2. AllSound(b) /\ Points(b) /\ Apart(b) /\ Reached(b)
    BY <1>0, <1>1 DEF AllSound, Points, Apart, Reached
  <1>3. Kept(b)
    BY <1>0, <1>1, <1>2 DEF Kept
  <1>4. ASSUME NEW g \in 1..Len(a.slots) PROVE Stand(b, g) = Stand(a, g)
    <2>1. PICK s \in Slots : s = a.slots[g]
      BY <1>0, PartsAre
    <2>2. Stand(b, g) = StandsFor(b, s) /\ Stand(a, g) = StandsFor(a, s)
      BY <1>1, <2>1 DEF Stand
    <2>3. StandsFor(b, s) = StandsFor(a, s)
      BY <1>1 DEF StandsFor
    <2>. QED BY <2>2, <2>3
  <1>5. \A m : AllWithin(a, m) => AllWithin(b, m)
    BY <1>1 DEF AllWithin
  <1>. QED BY <1>1, <1>3, <1>4, <1>5

(* New groups, each of nothing, after those there are. *)
LEMMA GrownIs ==
  ASSUME NEW a, Kept(a), NEW n \in Nat, Len(a.slots) <= n, NEW b, b = Grown(a, n)
  PROVE  /\ Kept(b) /\ Len(b.slots) = n /\ b.exact = a.exact /\ b.unchecked = a.unchecked
         /\ \A g \in 1..n : Stand(b, g) = IF g <= Len(a.slots) THEN Stand(a, g) ELSE NoTotal
         /\ \A m : AllWithin(a, m) => AllWithin(b, m)
  <1>0. a \in Aggregates /\ a.rare = RareIn(a.exact) /\ AllSound(a) /\ Points(a) /\ Apart(a) /\ Reached(a)
    BY DEF Kept
  <1>1. PICK S \in Seq(Slots) : S = a.slots /\ Len(S) \in Nat
    BY <1>0, PartsAre
  <1>2. PICK k \in Nat : k = n - Len(S)
    <2>1. PICK l \in Nat : l = Len(S) /\ l <= n
      BY <1>1
    <2>2. n - l \in Nat
      BY <2>1
    <2>. QED BY <2>1, <2>2
  <1>3. PICK z \in Slots : z = Slot(0, 0) /\ z.n = 0
    BY SlotsAre
  <1>4. PICK N : N = [g \in 1..k |-> z]
    BY Zenon
  <1>5. N \in Seq(Slots) /\ Len(N) = k /\ \A g \in 1..k : N[g] = z
    <2>1. N \in [1..k -> Slots]
      BY <1>4
    <2>. QED BY <1>4, <2>1
  <1>6. PICK T : T = S \o N
    BY Zenon
  <1>7. /\ T \in Seq(Slots) /\ Len(T) = n
        /\ \A g \in 1..n : T[g] = IF g <= Len(S) THEN S[g] ELSE z
    <2>1. T \in Seq(Slots) /\ Len(T) = Len(S) + k
      <3>1. N \in Seq(Slots)
        BY <1>5
      <3>2. T \in Seq(Slots) /\ Len(T) = Len(S) + Len(N)
        BY <1>6, <3>1, ConcatSeq
      <3>. QED BY <1>5, <3>2
    <2>2. \A g \in 1..(Len(S) + k) : T[g] = IF g <= Len(S) THEN S[g] ELSE N[g - Len(S)]
      BY <1>5, <1>6, ConcatSeq
    <2>3. Len(S) + k = n
      BY <1>1, <1>2
    <2>4. \A g \in 1..n : ~(g <= Len(S)) => g - Len(S) \in 1..k
      BY <1>1, <1>2
    <2>. QED BY <1>5, <2>1, <2>2, <2>3, <2>4
  <1>8. b = [a EXCEPT !.slots = T]
    BY <1>1, <1>2, <1>3, <1>4, <1>6 DEF Grown
  <1>9. /\ b \in Aggregates /\ b.slots = T /\ b.pairs = a.pairs /\ b.exact = a.exact /\ b.rare = a.rare
        /\ b.unchecked = a.unchecked
    BY <1>0, <1>7, <1>8, Zenon DEF Aggregates
  <1>10. AllSound(b)
    BY <1>0, <1>9 DEF AllSound
  <1>11. z.n # 2 /\ z.n # Exact
    BY <1>3 DEF Exact
  <1>12. \A g \in 1..n : T[g].n \in {2, Exact} => g \in 1..Len(S) /\ T[g] = S[g]
    BY <1>1, <1>7, <1>11
  <1>13. \A g \in 1..Len(S) : g \in 1..n /\ T[g] = S[g]
    BY <1>1, <1>7
  <1>14. Points(b)
    <2> SUFFICES ASSUME NEW g \in 1..n
                 PROVE  /\ T[g].n = 2 => T[g].v \in 1..Len(a.pairs)
                        /\ T[g].n = Exact => T[g].v \in 1..Len(a.exact)
      BY <1>7, <1>9 DEF Points
    <2>. QED BY <1>0, <1>1, <1>12, Zenon DEF Points
  <1>15. Apart(b)
    <2> SUFFICES ASSUME NEW g \in 1..n, NEW h \in 1..n, g # h, T[g].n \in {2, Exact}, T[g] = T[h] PROVE FALSE
      BY <1>7, <1>9 DEF Apart
    <2>. QED BY <1>0, <1>1, <1>12 DEF Apart
  <1>16. Reached(b)
    <2> SUFFICES ASSUME NEW i \in 1..Len(a.exact) PROVE \E g \in 1..n : T[g].n = Exact /\ T[g].v = i
      BY <1>7, <1>9 DEF Reached
    <2>. QED BY <1>0, <1>1, <1>13, Zenon DEF Reached
  <1>17. Kept(b)
    BY <1>0, <1>9, <1>10, <1>14, <1>15, <1>16 DEF Kept
  <1>18. ASSUME NEW g \in 1..n PROVE Stand(b, g) = IF g <= Len(S) THEN Stand(a, g) ELSE NoTotal
    <2>1. PICK s \in Slots : s = T[g]
      BY <1>7
    <2>2. Stand(b, g) = StandsFor(b, s) /\ StandsFor(b, s) = StandsFor(a, s)
      BY <1>9, <2>1 DEF Stand, StandsFor
    <2>3. CASE g <= Len(S)
      BY <1>1, <1>7, <2>1, <2>2, <2>3 DEF Stand
    <2>4. CASE ~(g <= Len(S))
      BY <1>3, <1>7, <2>1, <2>2, <2>4, StandIs
    <2>. QED BY <2>3, <2>4
  <1>19. \A m : AllWithin(a, m) => AllWithin(b, m)
    BY <1>9 DEF AllWithin
  <1>. QED BY <1>1, <1>7, <1>9, <1>17, <1>18, <1>19

LEMMA InRange ==
  ASSUME NEW e, Sound(e), ~OutOfRange(e)
  PROVE  Within(e, Limit)
  <1>1. e.sums \in [1..2 -> Int] /\ e.dense \in [BucketIds -> Int]
    BY DEF Sound, ExactSums
  <1>2. PICK l \in Nat : l = Limit
    BY BucketTypes
  <1>3. \A v \in Int : ~(Magnitude(v) > l) => -l <= v /\ v <= l
    BY DEF Magnitude
  <1>4. \A j \in 1..2 : ~(Magnitude(e.sums[j]) > l)
    BY <1>2 DEF OutOfRange
  <1>5. \A b \in BucketIds : ~(Magnitude(e.dense[b]) > l)
    BY <1>2 DEF OutOfRange
  <1>6. \A j \in 1..2 : -l <= e.sums[j] /\ e.sums[j] <= l
    BY <1>1, <1>3, <1>4
  <1>7. \A b \in BucketIds : -l <= e.dense[b] /\ e.dense[b] <= l
    BY <1>1, <1>3, <1>5
  <1>. QED BY <1>2, <1>6, <1>7 DEF Within

LEMMA RowCheckedKeeps ==
  ASSUME NEW a, Kept(a), NEW r, r = RowChecked(a)
  PROVE  /\ r.ok \in BOOLEAN /\ Kept(r.acc) /\ r.acc.slots = a.slots
         /\ \A g \in 1..Len(a.slots) : Stand(r.acc, g) = Stand(a, g)
         /\ r.ok /\ AllWithin(a, Far(a.unchecked)) => AllWithin(r.acc, Far(r.acc.unchecked))
         /\ r.ok => ~CheckDue(r.acc)
  <1>1. CASE ~CheckDue(a)
    <2>1. r.acc = a /\ r.ok = TRUE
      BY <1>1 DEF RowChecked
    <2>. QED BY <1>1, <2>1, Zenon
  <1>2. CASE CheckDue(a)
    <2>1. PICK b : b = [a EXCEPT !.unchecked = 0]
      BY Zenon
    <2>2. PICK ok : ok = \A i \in DOMAIN a.exact : ~OutOfRange(a.exact[i])
      BY Zenon
    <2>3. r.acc = b /\ r.ok = ok /\ ok \in BOOLEAN
      BY <1>2, <2>1, <2>2 DEF RowChecked
    <2>4. /\ Kept(b) /\ b.unchecked = 0 /\ b.slots = a.slots /\ b.exact = a.exact
          /\ \A g \in 1..Len(a.slots) : Stand(b, g) = Stand(a, g)
      <3>1. 0 \in Nat
        OBVIOUS
      <3>. QED BY <2>1, <3>1, UncheckedKeeps
    <2>5. ~CheckDue(b)
      <3>1. CheckEvery \in Nat /\ CheckEvery # 0
        BY BucketTypes
      <3>. QED BY <2>4, <3>1 DEF CheckDue
    <2>6. ASSUME ok PROVE AllWithin(b, Far(0))
      <3>1. a \in Aggregates /\ AllSound(a)
        BY DEF Kept
      <3>2. a.exact \in Seq(ExactSums)
        BY <3>1, PartsAre
      <3>3. DOMAIN a.exact = 1..Len(a.exact)
        BY <3>2
      <3>4. ASSUME NEW i \in 1..Len(a.exact) PROVE Within(a.exact[i], Limit)
        <4>1. Sound(a.exact[i])
          BY <3>1 DEF AllSound
        <4>2. ~OutOfRange(a.exact[i])
          BY <2>2, <2>6, <3>3, Zenon
        <4>. QED BY <4>1, <4>2, InRange
      <3>5. Far(0) = Limit
        BY FarGrows
      <3>. QED BY <2>4, <3>4, <3>5 DEF AllWithin
    <2>. QED BY <2>3, <2>4, <2>5, <2>6
  <1>. QED BY <1>1, <1>2

(* A row into a group: what the group stands for is one value more, and no *)
(* bucket is past the limit by more than the rows since the last look.     *)
LEMMA AddRowTakes ==
  ASSUME NEW a, Kept(a), NEW g \in 1..Len(a.slots), NEW x \in Double, NEW u, u = AddRow(a, g, x)
  PROVE  /\ u.ok \in BOOLEAN /\ Kept(u.acc)
         /\ u.ok => /\ Len(u.acc.slots) = Len(a.slots)
                    /\ \A h \in 1..Len(a.slots) :
                         Stand(u.acc, h) = IF h = g THEN Tally(Stand(a, g), x, 1) ELSE Stand(a, h)
                    /\ AllWithin(a, Far(a.unchecked)) => AllWithin(u.acc, Far(u.acc.unchecked))
                    /\ ~CheckDue(u.acc)
  <1>1. PICK n \in Nat : n = a.unchecked
    BY PartsAre DEF Kept
  <1>2. PICK b : b = [a EXCEPT !.unchecked = n + 1]
    BY Zenon
  <1>3. /\ Kept(b) /\ b.unchecked = n + 1 /\ b.slots = a.slots /\ b.exact = a.exact
        /\ \A h \in 1..Len(a.slots) : Stand(b, h) = Stand(a, h)
        /\ \A m : AllWithin(a, m) => AllWithin(b, m)
    <2>1. n + 1 \in Nat
      OBVIOUS
    <2>. QED BY <1>2, <2>1, UncheckedKeeps
  <1>4. PICK t \in Totals : t = Stand(a, g)
    BY StandType
  <1>5. [a EXCEPT !.unchecked = @ + 1] = b
    BY <1>1, <1>2
  <1>6. PICK k \in Nat, l \in Nat : k = Far(n) /\ l = Far(n + 1) /\ k <= l /\ l = k + MaxUnits /\ Limit <= k
    <2>1. n + 1 \in Nat
      OBVIOUS
    <2>. QED BY <2>1, FarGrows, Zenon
  <1>7. ASSUME NEW c, Does(b, c, g, Tally(t, x, 1)), AllWithin(a, k) => AllWithin(c, l), u = RowChecked(c)
        PROVE  /\ u.ok \in BOOLEAN /\ Kept(u.acc) /\ Len(u.acc.slots) = Len(a.slots)
               /\ \A h \in 1..Len(a.slots) :
                    Stand(u.acc, h) = IF h = g THEN Tally(Stand(a, g), x, 1) ELSE Stand(a, h)
               /\ u.ok => /\ AllWithin(a, k) => AllWithin(u.acc, Far(u.acc.unchecked))
                          /\ ~CheckDue(u.acc)
    <2>1. /\ Kept(c) /\ Len(c.slots) = Len(a.slots) /\ c.unchecked = n + 1
          /\ \A h \in 1..Len(a.slots) : Stand(c, h) = IF h = g THEN Tally(t, x, 1) ELSE Stand(b, h)
      BY <1>3, <1>7 DEF Does
    <2>2. /\ u.ok \in BOOLEAN /\ Kept(u.acc) /\ u.acc.slots = c.slots
          /\ \A h \in 1..Len(c.slots) : Stand(u.acc, h) = Stand(c, h)
          /\ u.ok /\ AllWithin(c, l) => AllWithin(u.acc, Far(u.acc.unchecked))
          /\ u.ok => ~CheckDue(u.acc)
      BY <1>6, <1>7, <2>1, RowCheckedKeeps
    <2>3. \A h \in 1..Len(a.slots) :
            Stand(u.acc, h) = IF h = g THEN Tally(Stand(a, g), x, 1) ELSE Stand(a, h)
      BY <1>3, <1>4, <2>1, <2>2
    <2>. QED BY <1>7, <2>1, <2>2, <2>3
  <1>8. CASE HoldsMore(b, g)
    <2>1. PICK c : c = Hold(b, g, x)
      OBVIOUS
    <2>2. u = RowChecked(c)
      BY <1>5, <1>8, <2>1 DEF AddRow
    <2>3. Does(b, c, g, Tally(t, x, 1)) /\ c.exact = b.exact
      <3>1. Stand(b, g) = t
        BY <1>3, <1>4
      <3>. QED BY <1>3, <1>8, <2>1, <3>1, HoldDoes
    <2>4. AllWithin(a, k) => AllWithin(c, l)
      <3> HAVE AllWithin(a, k)
      <3>1. AllWithin(a, l)
        BY <1>6, AllWithinMore
      <3>. QED BY <1>3, <2>3, <3>1 DEF AllWithin
    <2>. QED BY <1>1, <1>6, <1>7, <2>2, <2>3, <2>4
  <1>9. CASE ~HoldsMore(b, g)
    <2>1. PICK w : w = WithExact(b, g)
      OBVIOUS
    <2>2. /\ Does(b, w, g, t) /\ w.slots[g].n = Exact
          /\ \A m \in Nat : AllWithin(b, m) /\ Limit <= m => AllWithin(w, m)
      <3>1. Stand(b, g) = t
        BY <1>3, <1>4
      <3>. QED BY <1>3, <2>1, <3>1, WithExactDoes
    <2>3. Kept(w) /\ g \in 1..Len(w.slots) /\ Stand(w, g) = t
      BY <1>3, <2>2 DEF Does
    <2>4. PICK e : e = SumOfGroup(w, g)
      OBVIOUS
    <2>5. /\ Sound(e) /\ Sense(e) = t /\ \A m : AllWithin(w, m) => Within(e, m)
      BY <2>2, <2>3, <2>4, ExactOf
    <2>6. PICK d \in Nat : d = e.n + 1 /\ e.n \in Nat
      BY <2>5 DEF Sound, ExactSums
    <2>7. PICK f : f = [e EXCEPT !.n = d]
      BY Zenon
    <2>8. /\ Sound(f) /\ Total(f) = Total(e) /\ f.special = e.special /\ f.n = d
          /\ \A m \in Nat : Within(e, m) => Within(f, m)
      BY <2>5, <2>7, WithCount
    <2>9. PICK r : r = RowInto(f, x)
      OBVIOUS
    <2>10. /\ Sound(r.sum) /\ r.ok \in BOOLEAN /\ r.sum.n = d
           /\ Total(r.sum) = Tally(Sense(f), x, 1).total
           /\ r.sum.special = Tally(Sense(f), x, 1).special
           /\ \A m \in Nat : Within(f, m) => Within(r.sum, m + MaxUnits)
      BY <2>8, <2>9, RowTakes DEF Takes
    <2>11. Sense(r.sum) = Tally(t, x, 1)
      <3>1. PICK v \in Totals : v = Tally(t, x, 1)
        BY TallyType, Zenon
      <3>2. v = [total |-> v.total, special |-> v.special, n |-> v.n]
        BY DEF Totals
      <3>3. Sense(f).total = t.total /\ Sense(f).special = t.special /\ t.n = e.n
        BY <2>5, <2>8 DEF Sense
      <3>4. Tally(Sense(f), x, 1).total = v.total /\ Tally(Sense(f), x, 1).special = v.special
        BY <3>1, <3>3 DEF Tally
      <3>5. v.n = t.n + 1
        BY <3>1, TallyType, Zenon
      <3>. QED BY <2>6, <2>10, <3>1, <3>2, <3>3, <3>4, <3>5 DEF Sense
    <2>12. PICK c : c = Put(w, g, r.sum)
      OBVIOUS
    <2>13. /\ Does(w, c, g, Tally(t, x, 1))
           /\ \A m \in Nat : AllWithin(w, m) /\ Within(r.sum, m) => AllWithin(c, m)
      <3>1. PICK s : s = r.sum
        OBVIOUS
      <3>2. Sound(s) /\ Sense(s) = Tally(t, x, 1) /\ c = Put(w, g, s)
        BY <2>10, <2>11, <2>12, <3>1
      <3>3. /\ Does(w, c, g, Sense(s))
            /\ \A m \in Nat : AllWithin(w, m) /\ Within(s, m) => AllWithin(c, m)
        BY <2>2, <2>3, <3>2, PutDoes, Zenon
      <3>. QED BY <3>1, <3>2, <3>3
    <2>14. Does(b, c, g, Tally(t, x, 1))
      BY <2>2, <2>13, DoesThen
    <2>15. ASSUME AllWithin(a, k) PROVE AllWithin(c, l)
      <3>1. AllWithin(w, k)
        BY <1>3, <1>6, <2>2, <2>15
      <3>2. Within(r.sum, l)
        BY <1>6, <2>5, <2>8, <2>10, <3>1
      <3>3. AllWithin(w, l)
        BY <1>6, <2>3, <3>1, AllWithinMore
      <3>. QED BY <2>13, <3>2, <3>3
    <2>16. PICK v : v = Updated(w, g, r)
      OBVIOUS
    <2>17. v.acc = c /\ v.ok = r.ok
      BY <2>12, <2>16 DEF Updated
    <2>18. u = IF v.ok THEN RowChecked(c) ELSE v
      <3>1. u = LET z == RowInto([SumOfGroup(w, g) EXCEPT !.n = @ + 1], x)
                    y == Updated(w, g, z)
                IN IF y.ok THEN RowChecked(y.acc) ELSE y
        BY <1>5, <1>9, <2>1 DEF AddRow
      <3>2. [SumOfGroup(w, g) EXCEPT !.n = @ + 1] = f
        BY <2>4, <2>6, <2>7
      <3>. QED BY <2>9, <2>16, <2>17, <3>1, <3>2
    <2>19. CASE ~r.ok
      <3>1. u.ok = FALSE /\ u.acc = c
        BY <2>10, <2>17, <2>18, <2>19
      <3>2. Kept(c)
        BY <2>14 DEF Does
      <3>. QED BY <3>1, <3>2, Zenon
    <2>20. CASE r.ok
      <3>1. u = RowChecked(c)
        BY <2>17, <2>18, <2>20
      <3>. QED BY <1>1, <1>6, <1>7, <2>14, <2>15, <3>1
    <2>. QED BY <2>10, <2>19, <2>20
  <1>. QED BY <1>8, <1>9

-----------------------------------------------------------------------------
(* Taking groups away: the slots that stay are renumbered in their order.  *)
LEMMA SubSeqIs ==
  ASSUME NEW A, NEW s \in Seq(A), NEW k \in Nat, k <= Len(s), NEW u, u = SubSeq(s, k + 1, Len(s))
  PROVE  /\ u \in Seq(A) /\ Len(u) = Len(s) - k
         /\ \A i \in 1..(Len(s) - k) : u[i] = s[i + k]
  OBVIOUS

LEMMA UpToFinite ==
  ASSUME NEW S, NEW n, NEW i \in Nat
  PROVE  IsFiniteSet(UpTo(S, n, i)) /\ Rank(S, n, i) = Cardinality(UpTo(S, n, i)) /\ Rank(S, n, i) \in Nat
         /\ UpTo(S, n, i) \subseteq 1..i
  <1>1. UpTo(S, n, i) \subseteq 1..i
    BY DEF UpTo
  <1>2. IsFiniteSet(1..i)
    BY FS_Interval
  <1>3. IsFiniteSet(UpTo(S, n, i))
    BY <1>1, <1>2, FS_Subset
  <1>4. Cardinality(UpTo(S, n, i)) \in Nat
    BY <1>3, FS_CardinalityType
  <1>. QED BY <1>1, <1>3, <1>4 DEF Rank

LEMMA RankBelow ==
  ASSUME NEW S, NEW n, NEW i \in Nat, NEW j \in Nat, i < j, S[j].n = n
  PROVE  Rank(S, n, i) + 1 <= Rank(S, n, j)
  <1>1. /\ IsFiniteSet(UpTo(S, n, i)) /\ Rank(S, n, i) = Cardinality(UpTo(S, n, i)) /\ Rank(S, n, i) \in Nat
        /\ UpTo(S, n, i) \subseteq 1..i
    BY UpToFinite
  <1>2. IsFiniteSet(UpTo(S, n, j)) /\ Rank(S, n, j) = Cardinality(UpTo(S, n, j)) /\ Rank(S, n, j) \in Nat
    BY UpToFinite
  <1>3. PICK U : U = UpTo(S, n, i) \cup {j}
    BY Zenon
  <1>4. j \notin UpTo(S, n, i)
    BY <1>1
  <1>5. Cardinality(U) = Cardinality(UpTo(S, n, i)) + 1
    BY <1>1, <1>3, <1>4, FS_AddElement, Zenon
  <1>6. U \subseteq UpTo(S, n, j)
    BY <1>3 DEF UpTo
  <1>7. Cardinality(U) <= Cardinality(UpTo(S, n, j))
    BY <1>2, <1>6, FS_Subset
  <1>. QED BY <1>1, <1>2, <1>5, <1>7

LEMMA RankStep ==
  ASSUME NEW S, NEW n, NEW i \in Nat
  PROVE  Rank(S, n, i + 1) = IF S[i + 1].n = n THEN Rank(S, n, i) + 1 ELSE Rank(S, n, i)
  <1>1. /\ IsFiniteSet(UpTo(S, n, i)) /\ Rank(S, n, i) = Cardinality(UpTo(S, n, i))
        /\ UpTo(S, n, i) \subseteq 1..i
    BY UpToFinite
  <1>2. Rank(S, n, i + 1) = Cardinality(UpTo(S, n, i + 1))
    BY DEF Rank
  <1>3. CASE S[i + 1].n = n
    <2>1. UpTo(S, n, i + 1) = UpTo(S, n, i) \cup {i + 1}
      BY <1>3 DEF UpTo
    <2>2. i + 1 \notin UpTo(S, n, i)
      BY <1>1
    <2>. QED BY <1>1, <1>2, <1>3, <2>1, <2>2, FS_AddElement
  <1>4. CASE S[i + 1].n # n
    <2>1. UpTo(S, n, i + 1) = UpTo(S, n, i)
      BY <1>4 DEF UpTo
    <2>. QED BY <1>1, <1>2, <1>4, <2>1
  <1>. QED BY <1>3, <1>4

LEMMA RankReach ==
  ASSUME NEW S, NEW n, NEW l \in Nat, NEW k \in 1..Rank(S, n, l)
  PROVE  \E i \in 1..l : S[i].n = n /\ Rank(S, n, i) = k
  <1> DEFINE I == {m \in Nat : \A j \in 1..Rank(S, n, m) : \E i \in 1..m : S[i].n = n /\ Rank(S, n, i) = j}
  <1>1. 0 \in I
    <2>1. UpTo(S, n, 0) = {}
      BY DEF UpTo
    <2>2. Rank(S, n, 0) = 0
      BY <2>1, FS_EmptySet DEF Rank
    <2>. QED BY <2>2
  <1>2. ASSUME NEW m \in Nat, m \in I PROVE m + 1 \in I
    <2> SUFFICES ASSUME NEW j \in 1..Rank(S, n, m + 1)
                 PROVE  \E i \in 1..(m + 1) : S[i].n = n /\ Rank(S, n, i) = j
      OBVIOUS
    <2>1. PICK q \in Nat : q = Rank(S, n, m)
      BY UpToFinite
    <2>2. PICK r \in Nat : r = Rank(S, n, m + 1)
      BY UpToFinite
    <2>3. r = IF S[m + 1].n = n THEN q + 1 ELSE q
      BY <2>1, <2>2, RankStep
    <2>4. CASE j \in 1..q
      <3>1. PICK i \in 1..m : S[i].n = n /\ Rank(S, n, i) = j
        BY <1>2, <2>1, <2>4
      <3>. QED BY <3>1
    <2>5. CASE j \notin 1..q
      <3>1. S[m + 1].n = n /\ j = r
        BY <2>2, <2>3, <2>5
      <3>2. m + 1 \in 1..(m + 1)
        OBVIOUS
      <3>. QED BY <2>2, <3>1, <3>2
    <2>. QED BY <2>4, <2>5
  <1>3. l \in I
    <2> HIDE DEF I
    <2>. QED BY <1>1, <1>2, ByInduction
  <1>. QED BY <1>3

LEMMA NthIs ==
  ASSUME NEW S \in Seq(Slots), NEW n
  PROVE  /\ \A i \in 1..Len(S) : S[i].n = n => /\ Rank(S, n, i) \in 1..Rank(S, n, Len(S))
                                               /\ Nth(S, n, Rank(S, n, i)) = i
         /\ \A k \in 1..Rank(S, n, Len(S)) :
              /\ Nth(S, n, k) \in 1..Len(S) /\ S[Nth(S, n, k)].n = n
              /\ Rank(S, n, Nth(S, n, k)) = k
  <1>0. DOMAIN S = 1..Len(S) /\ Len(S) \in Nat
    OBVIOUS
  <1>1. ASSUME NEW i \in 1..Len(S), NEW j \in 1..Len(S), S[i].n = n, S[j].n = n, Rank(S, n, i) = Rank(S, n, j)
        PROVE  i = j
    <2>1. Rank(S, n, i) \in Nat /\ Rank(S, n, j) \in Nat
      BY UpToFinite
    <2>2. ~(i < j)
      <3> SUFFICES ASSUME i < j PROVE FALSE
        OBVIOUS
      <3>1. Rank(S, n, i) + 1 <= Rank(S, n, j)
        BY <1>1, RankBelow
      <3>. QED BY <1>1, <2>1, <3>1
    <2>3. ~(j < i)
      <3> SUFFICES ASSUME j < i PROVE FALSE
        OBVIOUS
      <3>1. Rank(S, n, j) + 1 <= Rank(S, n, i)
        BY <1>1, RankBelow
      <3>. QED BY <1>1, <2>1, <3>1
    <2>. QED BY <2>2, <2>3
  <1>2. ASSUME NEW k, NEW i \in 1..Len(S), S[i].n = n, Rank(S, n, i) = k PROVE Nth(S, n, k) = i
    <2>1. Nth(S, n, k) = CHOOSE j \in 1..Len(S) : S[j].n = n /\ Rank(S, n, j) = k
      BY <1>0 DEF Nth
    <2>2. PICK j : j = Nth(S, n, k)
      OBVIOUS
    <2>3. j \in 1..Len(S) /\ S[j].n = n /\ Rank(S, n, j) = k
      BY <1>2, <2>1, <2>2
    <2>. QED BY <1>1, <1>2, <2>2, <2>3
  <1>3. ASSUME NEW i \in 1..Len(S), S[i].n = n PROVE Rank(S, n, i) \in 1..Rank(S, n, Len(S))
    <2>1. PICK r \in Nat, q \in Nat, l \in Nat :
            r = Rank(S, n, i) /\ q = Rank(S, n, Len(S)) /\ l = Rank(S, n, i - 1)
      <3>1. Rank(S, n, i) \in Nat
        BY UpToFinite
      <3>2. Rank(S, n, Len(S)) \in Nat
        BY <1>0, UpToFinite
      <3>3. i - 1 \in Nat
        OBVIOUS
      <3>4. Rank(S, n, i - 1) \in Nat
        BY <3>3, UpToFinite
      <3>. QED BY <3>1, <3>2, <3>4
    <2>2. l + 1 <= r
      <3>1. i - 1 \in Nat /\ i \in Nat /\ i - 1 < i
        OBVIOUS
      <3>. QED BY <1>3, <2>1, <3>1, RankBelow
    <2>3. r <= q
      <3>1. UpTo(S, n, i) \subseteq UpTo(S, n, Len(S))
        BY <1>0 DEF UpTo
      <3>2. IsFiniteSet(UpTo(S, n, Len(S))) /\ q = Cardinality(UpTo(S, n, Len(S)))
        BY <1>0, <2>1, UpToFinite
      <3>3. Cardinality(UpTo(S, n, i)) <= Cardinality(UpTo(S, n, Len(S)))
        BY <3>1, <3>2, FS_Subset
      <3>. QED BY <2>1, <3>2, <3>3 DEF Rank
    <2>. QED BY <2>1, <2>2, <2>3
  <1>4. ASSUME NEW k \in 1..Rank(S, n, Len(S))
        PROVE  /\ Nth(S, n, k) \in 1..Len(S) /\ S[Nth(S, n, k)].n = n
               /\ Rank(S, n, Nth(S, n, k)) = k
    <2>1. PICK i \in 1..Len(S) : S[i].n = n /\ Rank(S, n, i) = k
      BY <1>0, RankReach
    <2>2. Nth(S, n, k) = i
      BY <1>2, <2>1
    <2>. QED BY <2>1, <2>2
  <1>. QED BY <1>2, <1>3, <1>4

(* What a renumbered sort of slots points into. *)
Into(S, n, P) == \A i \in 1..Len(S) : S[i].n = n => S[i].v \in 1..Len(P)
Drawn(S, n, P) == [k \in 1..Rank(S, n, Len(S)) |-> P[S[Nth(S, n, k)].v]]

LEMMA FunctionSeq ==
  ASSUME NEW A, NEW l \in Nat, NEW Q \in [1..l -> A]
  PROVE  Q \in Seq(A) /\ Len(Q) = l
  OBVIOUS

LEMMA PlacesKept ==
  ASSUME NEW S \in Seq(Slots), NEW n, NEW A, NEW P \in Seq(A), Into(S, n, P), NEW Q, Q = Drawn(S, n, P)
  PROVE  /\ Q \in Seq(A) /\ Len(Q) = Rank(S, n, Len(S))
         /\ \A i \in 1..Len(S) : S[i].n = n => Q[Rank(S, n, i)] = P[S[i].v]
         /\ \A k \in 1..Len(Q) : \E i \in 1..Len(S) : S[i].n = n /\ Rank(S, n, i) = k /\ Q[k] = P[S[i].v]
  <1>1. PICK l \in Nat : l = Rank(S, n, Len(S))
    <2>1. Len(S) \in Nat
      OBVIOUS
    <2>. QED BY <2>1, UpToFinite
  <1>2. ASSUME NEW k \in 1..l
        PROVE  /\ Nth(S, n, k) \in 1..Len(S) /\ S[Nth(S, n, k)].n = n /\ Rank(S, n, Nth(S, n, k)) = k
               /\ P[S[Nth(S, n, k)].v] \in A
    <2>1. PICK i \in 1..Len(S) : i = Nth(S, n, k) /\ S[i].n = n /\ Rank(S, n, i) = k
      BY <1>1, NthIs
    <2>2. S[i].v \in 1..Len(P)
      BY <2>1 DEF Into
    <2>3. P[S[i].v] \in A
      BY <2>2
    <2>. QED BY <2>1, <2>3
  <1>3. Q \in [1..l -> A]
    BY <1>1, <1>2 DEF Drawn
  <1>4. Q \in Seq(A) /\ Len(Q) = l
    BY <1>3, FunctionSeq
  <1>5. ASSUME NEW i \in 1..Len(S), S[i].n = n PROVE Q[Rank(S, n, i)] = P[S[i].v]
    <2>1. Rank(S, n, i) \in 1..l /\ Nth(S, n, Rank(S, n, i)) = i
      BY <1>1, <1>5, NthIs
    <2>. QED BY <1>1, <2>1 DEF Drawn
  <1>6. ASSUME NEW k \in 1..l
        PROVE  \E i \in 1..Len(S) : S[i].n = n /\ Rank(S, n, i) = k /\ Q[k] = P[S[i].v]
    <2>1. Q[k] = P[S[Nth(S, n, k)].v]
      BY <1>1, <1>6 DEF Drawn
    <2>. QED BY <1>2, <2>1, Zenon
  <1>. QED BY <1>1, <1>4, <1>5, <1>6

LEMMA AfterTakingKeeps ==
  ASSUME NEW a, Kept(a), NEW k \in Nat, k <= Len(a.slots), NEW b, b = AfterTaking(a, k)
  PROVE  /\ Kept(b) /\ Len(b.slots) = Len(a.slots) - k /\ b.unchecked = a.unchecked
         /\ \A h \in 1..(Len(a.slots) - k) : Stand(b, h) = Stand(a, h + k)
         /\ \A m : AllWithin(a, m) => AllWithin(b, m)
  <1>0. a \in Aggregates /\ AllSound(a) /\ Points(a) /\ Apart(a)
    BY DEF Kept
  <1>1. PICK O \in Seq(Slots) : O = a.slots /\ Len(O) \in Nat
    BY <1>0, PartsAre
  <1>2. PICK P \in Seq(Double \X Double), E \in Seq(ExactSums) :
          P = a.pairs /\ E = a.exact /\ Len(P) \in Nat /\ Len(E) \in Nat
    BY <1>0, PartsAre
  <1>3. PICK S : S = SubSeq(O, k + 1, Len(O))
    BY Zenon
  <1>4. PICK l \in Nat : l = Len(O) - k
    <2>1. Len(O) - k \in Nat
      BY <1>1
    <2>. QED BY <2>1, Zenon
  <1>5. S \in Seq(Slots) /\ Len(S) = l /\ \A i \in 1..l : S[i] = O[i + k]
    BY <1>1, <1>3, <1>4, SubSeqIs
  <1>6. \A i \in 1..l : i + k \in 1..Len(O)
    BY <1>1, <1>4
  <1>7. ASSUME NEW i \in 1..l
        PROVE  /\ S[i].n = 2 => S[i].v \in 1..Len(P)
               /\ S[i].n = Exact => S[i].v \in 1..Len(E)
    BY <1>0, <1>1, <1>2, <1>5, <1>6, Zenon DEF Points
  <1>8. PICK T : T = [i \in 1..l |-> IF S[i].n \in {2, Exact} THEN Slot(S[i].n, Rank(S, S[i].n, i)) ELSE S[i]]
    BY Zenon
  <1>9. PICK p, q : /\ p = [j \in 1..Rank(S, 2, l) |-> P[S[Nth(S, 2, j)].v]]
                    /\ q = [j \in 1..Rank(S, Exact, l) |-> E[S[Nth(S, Exact, j)].v]]
    BY Zenon
  <1>10. /\ p \in Seq(Double \X Double) /\ Len(p) = Rank(S, 2, l)
         /\ \A i \in 1..l : S[i].n = 2 => p[Rank(S, 2, i)] = P[S[i].v]
    <2>1. p = Drawn(S, 2, P)
      BY <1>5, <1>9 DEF Drawn
    <2>2. Into(S, 2, P)
      BY <1>5, <1>7 DEF Into
    <2>3. PICK n, A : n = 2 /\ A = Double \X Double
      BY Zenon
    <2>4. S \in Seq(Slots) /\ P \in Seq(A) /\ Into(S, n, P) /\ p = Drawn(S, n, P)
      BY <1>5, <2>1, <2>2, <2>3
    <2>5. /\ p \in Seq(A) /\ Len(p) = Rank(S, n, Len(S))
          /\ \A i \in 1..Len(S) : S[i].n = n => p[Rank(S, n, i)] = P[S[i].v]
      BY <2>4, PlacesKept
    <2>6. /\ p \in Seq(Double \X Double) /\ Len(p) = Rank(S, 2, Len(S))
          /\ \A i \in 1..Len(S) : S[i].n = 2 => p[Rank(S, 2, i)] = P[S[i].v]
      BY <2>3, <2>5
    <2>. QED BY <1>5, <2>6
  <1>11. /\ q \in Seq(ExactSums) /\ Len(q) = Rank(S, Exact, l)
         /\ \A i \in 1..l : S[i].n = Exact => q[Rank(S, Exact, i)] = E[S[i].v]
         /\ \A j \in 1..Len(q) : \E i \in 1..l : S[i].n = Exact /\ Rank(S, Exact, i) = j /\ q[j] = E[S[i].v]
    <2>1. q = Drawn(S, Exact, E)
      BY <1>5, <1>9 DEF Drawn
    <2>2. Into(S, Exact, E)
      BY <1>5, <1>7 DEF Into
    <2>3. /\ q \in Seq(ExactSums) /\ Len(q) = Rank(S, Exact, Len(S))
          /\ \A i \in 1..Len(S) : S[i].n = Exact => q[Rank(S, Exact, i)] = E[S[i].v]
          /\ \A j \in 1..Len(q) : \E i \in 1..Len(S) : S[i].n = Exact /\ Rank(S, Exact, i) = j /\ q[j] = E[S[i].v]
      <3>1. PICK n, A : n = Exact /\ A = ExactSums
        OBVIOUS
      <3>2. S \in Seq(Slots) /\ E \in Seq(A) /\ Into(S, n, E) /\ q = Drawn(S, n, E)
        BY <1>5, <2>1, <2>2, <3>1
      <3>3. /\ q \in Seq(A) /\ Len(q) = Rank(S, n, Len(S))
            /\ \A i \in 1..Len(S) : S[i].n = n => q[Rank(S, n, i)] = E[S[i].v]
            /\ \A j \in 1..Len(q) : \E i \in 1..Len(S) : S[i].n = n /\ Rank(S, n, i) = j /\ q[j] = E[S[i].v]
        BY <3>2, PlacesKept
      <3>. QED BY <3>1, <3>3
    <2>. QED BY <1>5, <2>3
  <1>12. ASSUME NEW i \in 1..l
         PROVE  /\ T[i] \in Slots /\ T[i].n = S[i].n /\ S[i] \in Slots
                /\ S[i].n \in {2, Exact} => T[i].v = Rank(S, S[i].n, i)
                /\ S[i].n \in {0, 1} => T[i] = S[i]
    <2>1. PICK s \in Slots : s = S[i]
      BY <1>5
    <2>2. Rank(S, s.n, i) \in Nat
      BY UpToFinite
    <2>3. CASE s.n \in {2, Exact}
      <3>1. T[i] = Slot(s.n, Rank(S, s.n, i))
        BY <1>8, <2>1, <2>3
      <3>2. ~(s.n \in {0, 1})
        BY <2>3 DEF Exact
      <3>. QED BY <2>1, <2>2, <2>3, <3>1, <3>2, SlotsAre
    <2>4. CASE s.n \in {0, 1}
      <3>1. ~(s.n \in {2, Exact})
        BY <2>4 DEF Exact
      <3>2. T[i] = s
        BY <1>8, <2>1, <3>1
      <3>. QED BY <2>1, <3>1, <3>2
    <2>. QED BY <2>1, <2>3, <2>4, SlotIs
  <1>13. T \in Seq(Slots) /\ Len(T) = l
    <2>1. T \in [1..l -> Slots]
      BY <1>8, <1>12
    <2>. QED BY <2>1
  <1>14. PICK r : r = RareIn(q) /\ r \in Nat
    BY <1>11, RareType
  <1>15. b = [slots |-> T, pairs |-> p, exact |-> q, rare |-> r, unchecked |-> a.unchecked]
    <2>1. DOMAIN S = 1..l
      BY <1>5
    <2>2. Renumbered(a, S) = [slots |-> T, pairs |-> p, exact |-> q]
      BY <1>2, <1>5, <1>8, <1>9, <2>1 DEF Renumbered
    <2>3. S = SubSeq(a.slots, k + 1, Len(a.slots))
      BY <1>1, <1>3
    <2>. QED BY <1>14, <2>2, <2>3 DEF AfterTaking
  <1>16. /\ b.slots = T /\ b.pairs = p /\ b.exact = q /\ b.rare = r /\ b.unchecked = a.unchecked
         /\ b \in Aggregates
    <2>1. a.unchecked \in Nat
      BY <1>0, PartsAre
    <2>. QED BY <1>10, <1>11, <1>13, <1>14, <1>15, <2>1 DEF Aggregates
  <1>17. ASSUME NEW m, AllWithin(a, m) PROVE AllWithin(b, m)
    <2> SUFFICES ASSUME NEW j \in 1..Len(q) PROVE Within(q[j], m)
      BY <1>16 DEF AllWithin
    <2>1. PICK i \in 1..l : S[i].n = Exact /\ q[j] = E[S[i].v]
      BY <1>11, Zenon
    <2>. QED BY <1>2, <1>7, <1>17, <2>1, Zenon DEF AllWithin
  <1>18. AllSound(b)
    <2> SUFFICES ASSUME NEW j \in 1..Len(q) PROVE Sound(q[j])
      BY <1>16 DEF AllSound
    <2>1. PICK i \in 1..l : S[i].n = Exact /\ q[j] = E[S[i].v]
      BY <1>11, Zenon
    <2>. QED BY <1>0, <1>2, <1>7, <2>1, Zenon DEF AllSound
  <1>19. Points(b)
    <2> SUFFICES ASSUME NEW i \in 1..l
                 PROVE  /\ T[i].n = 2 => T[i].v \in 1..Len(p)
                        /\ T[i].n = Exact => T[i].v \in 1..Len(q)
      BY <1>13, <1>16 DEF Points
    <2>1. S[i].n = 2 => Rank(S, 2, i) \in 1..Rank(S, 2, l)
      BY <1>5, NthIs, Zenon
    <2>2. S[i].n = Exact => Rank(S, Exact, i) \in 1..Rank(S, Exact, l)
      BY <1>5, NthIs, Zenon
    <2>3. T[i].n = 2 => T[i].v \in 1..Len(p)
      BY <1>10, <1>11, <1>12, <2>1, Zenon
    <2>4. T[i].n = Exact => T[i].v \in 1..Len(q)
      BY <1>10, <1>11, <1>12, <2>2, Zenon
    <2>. QED BY <2>3, <2>4
  <1>20. Apart(b)
    <2> SUFFICES ASSUME NEW i \in 1..l, NEW j \in 1..l, i # j, T[i].n \in {2, Exact}, T[i] = T[j] PROVE FALSE
      BY <1>13, <1>16 DEF Apart
    <2>1. PICK n : n = S[i].n /\ n \in {2, Exact} /\ S[j].n = n
      BY <1>12, Zenon
    <2>2. Rank(S, n, i) = Rank(S, n, j)
      BY <1>12, <2>1, Zenon
    <2>3. Nth(S, n, Rank(S, n, i)) = i
      BY <1>5, <2>1, NthIs, Zenon
    <2>4. Nth(S, n, Rank(S, n, j)) = j
      BY <1>5, <2>1, NthIs, Zenon
    <2>. QED BY <2>2, <2>3, <2>4
  <1>21. Reached(b)
    <2> SUFFICES ASSUME NEW j \in 1..Len(q) PROVE \E i \in 1..l : T[i].n = Exact /\ T[i].v = j
      BY <1>13, <1>16 DEF Reached
    <2>1. PICK i \in 1..l : S[i].n = Exact /\ Rank(S, Exact, i) = j
      BY <1>11
    <2>. QED BY <1>12, <2>1, Zenon
  <1>22. Kept(b)
    BY <1>14, <1>16, <1>18, <1>19, <1>20, <1>21 DEF Kept
  <1>23. ASSUME NEW h \in 1..l PROVE Stand(b, h) = Stand(a, h + k)
    <2>1. PICK s \in Slots, t \in Slots :
            /\ s = S[h] /\ t = T[h] /\ t.n = s.n
            /\ s.n \in {2, Exact} => t.v = Rank(S, s.n, h)
            /\ s.n \in {0, 1} => t = s
      BY <1>12
    <2>2. Stand(b, h) = StandsFor(b, t)
      BY <1>16, <2>1 DEF Stand
    <2>3. Stand(a, h + k) = StandsFor(a, s)
      BY <1>1, <1>5, <2>1 DEF Stand
    <2>4. CASE s.n \in {0, 1}
      <3>1. StandsFor(b, s) = StandsFor(a, s)
        BY <2>4, StandIs
      <3>. QED BY <2>1, <2>2, <2>3, <2>4, <3>1
    <2>5. CASE s.n = 2
      <3>1. b.pairs[t.v] = a.pairs[s.v]
        BY <1>2, <1>10, <1>16, <2>1, <2>5, Zenon
      <3>2. StandsFor(b, t) = Tally(Tally(NoTotal, b.pairs[t.v][1], 1), b.pairs[t.v][2], 1)
        BY <2>1, <2>5, StandIs
      <3>3. StandsFor(a, s) = Tally(Tally(NoTotal, a.pairs[s.v][1], 1), a.pairs[s.v][2], 1)
        BY <2>5, StandIs
      <3>. QED BY <2>2, <2>3, <3>1, <3>2, <3>3
    <2>6. CASE s.n = Exact
      <3>1. b.exact[t.v] = a.exact[s.v]
        BY <1>2, <1>11, <1>16, <2>1, <2>6
      <3>2. StandsFor(b, t) = Sense(b.exact[t.v])
        BY <2>1, <2>6, StandIs
      <3>3. StandsFor(a, s) = Sense(a.exact[s.v])
        BY <2>6, StandIs
      <3>. QED BY <2>2, <2>3, <3>1, <3>2, <3>3
    <2>. QED BY <2>4, <2>5, <2>6, SlotIs
  <1>. QED BY <1>1, <1>4, <1>13, <1>16, <1>17, <1>22, <1>23

(* There are never more exact sums than groups. *)
LEMMA FewSums ==
  ASSUME NEW a, Kept(a)
  PROVE  Len(a.exact) <= Len(a.slots)
  <1>1. a \in Aggregates /\ Reached(a)
    BY DEF Kept
  <1>2. PICK l \in Nat, k \in Nat : l = Len(a.exact) /\ k = Len(a.slots)
    BY <1>1, PartsAre
  <1>3. \A i \in 1..l : \E g \in 1..k : a.slots[g].n = Exact /\ a.slots[g].v = i
    BY <1>1, <1>2, Zenon DEF Reached
  <1>4. PICK f : f = [i \in 1..l |-> CHOOSE g \in 1..k : a.slots[g].n = Exact /\ a.slots[g].v = i]
    BY Zenon
  <1>5. \A i \in 1..l : f[i] \in 1..k /\ a.slots[f[i]].v = i
    BY <1>3, <1>4, Zenon
  <1>6. f \in [1..l -> 1..k]
    BY <1>4, <1>5, Zenon
  <1>7. f \in Injection(1..l, 1..k)
    BY <1>5, <1>6 DEF Injection, IsInjective
  <1>8. IsFiniteSet(1..k) /\ Cardinality(1..k) = k
    BY FS_Interval
  <1>9. Cardinality(1..l) = l
    BY FS_Interval
  <1>10. Cardinality(1..l) <= Cardinality(1..k)
    BY <1>7, <1>8, FS_Injection
  <1>. QED BY <1>2, <1>8, <1>9, <1>10

-----------------------------------------------------------------------------
(* The invariant, inductive: aggregates in order, and of those not refused *)
(* what their groups stand for and how far their buckets may be.           *)
Standing(p) ==
  /\ fed[p] \in Seq(Totals) /\ Len(fed[p]) = Len(acc[p].slots) /\ Len(acc[p].slots) <= MaxGroups
  /\ \A g \in 1..Len(acc[p].slots) : Stand(acc[p], g) = fed[p][g]
  /\ AllWithin(acc[p], Far(acc[p].unchecked))
  /\ acc[p].unchecked < CheckEvery + MaxGroups * (Buckets + 1)

Framed(p) ==
  /\ frame[p] \in Seq(Double)
  /\ Len(acc[p].slots) = 1 /\ acc[p].slots[1].n = Exact /\ fed[p][1].n = Len(frame[p])

FInv ==
  /\ DOMAIN acc = Parts /\ DOMAIN fed = Parts /\ DOMAIN frame = Parts /\ error \in BOOLEAN
  /\ \A p \in Parts : Kept(acc[p])
  /\ ~error => \A p \in Parts : Standing(p) /\ (mode = "window" => Framed(p))

LEMMA LengthenedIs ==
  ASSUME NEW f \in Seq(Totals), NEW n \in Nat, Len(f) <= n, NEW h, h = Lengthened(f, n)
  PROVE  /\ h \in Seq(Totals) /\ Len(h) = n
         /\ \A g \in 1..n : h[g] = IF g <= Len(f) THEN f[g] ELSE NoTotal
  <1>1. PICK k \in Nat, l \in Nat : l = Len(f) /\ k = n - l /\ l + k = n
    <2>1. PICK l \in Nat : l = Len(f) /\ l <= n
      OBVIOUS
    <2>2. n - l \in Nat /\ l + (n - l) = n
      BY <2>1
    <2>. QED BY <2>1, <2>2
  <1>2. PICK N : N = [g \in 1..k |-> NoTotal]
    BY Zenon
  <1>3. N \in Seq(Totals) /\ Len(N) = k
    <2>1. N \in [1..k -> Totals]
      BY <1>2, NothingIs
    <2>. QED BY <2>1, FunctionSeq
  <1>4. h = f \o N
    BY <1>1, <1>2 DEF Lengthened
  <1>5. /\ h \in Seq(Totals) /\ Len(h) = Len(f) + Len(N)
        /\ \A g \in 1..(Len(f) + Len(N)) : h[g] = IF g <= Len(f) THEN f[g] ELSE N[g - Len(f)]
    <2>1. N \in Seq(Totals)
      BY <1>3
    <2>. QED BY <1>4, <2>1, ConcatSeq
  <1>6. \A g \in 1..n : ~(g <= l) => N[g - l] = NoTotal
    BY <1>1, <1>2
  <1>. QED BY <1>1, <1>3, <1>5, <1>6, Zenon

LEMMA FewUnchecked ==
  ASSUME NEW a, Kept(a), ~CheckDue(a), Len(a.slots) <= MaxGroups
  PROVE  a.unchecked < CheckEvery + MaxGroups * (Buckets + 1)
  <1>1. a \in Aggregates /\ a.rare = RareIn(a.exact)
    BY DEF Kept
  <1>2. PICK l \in Nat, r \in Nat, n \in Nat, s \in Nat :
          l = Len(a.exact) /\ r = a.rare /\ n = a.unchecked /\ s = Len(a.slots)
    <2>1. a.exact \in Seq(ExactSums) /\ Len(a.exact) \in Nat /\ a.unchecked \in Nat /\ Len(a.slots) \in Nat
      BY <1>1, PartsAre
    <2>2. a.rare \in Nat
      BY <1>1, <2>1, RareType
    <2>. QED BY <2>1, <2>2
  <1>3. r <= l /\ l <= s
    <2>1. a.exact \in Seq(ExactSums)
      BY <1>1, PartsAre
    <2>2. r <= l
      BY <1>1, <1>2, <2>1, RareType
    <2>3. l <= s
      BY <1>2, FewSums
    <2>. QED BY <2>2, <2>3
  <1>4. PICK m \in Nat, c \in Nat, b \in Nat : m = MaxGroups /\ c = CheckEvery /\ b = Buckets /\ c > 0 /\ m > 0
    BY BucketTypes, FloatSumAssumption
  <1>5. r <= m /\ l <= m
    BY <1>2, <1>3, <1>4
  <1>6. b * r <= b * m /\ b * r \in Nat /\ b * m \in Nat
    <2>1. PICK d \in Nat : m = r + d
      <3>1. m - r \in Nat /\ m = r + (m - r)
        BY <1>5
      <3>. QED BY <3>1
    <2>2. b * m = b * r + b * d /\ b * d \in Nat /\ b * r \in Nat /\ b * m \in Nat
      BY <2>1
    <2>. QED BY <2>2
  <1>7. m * (b + 1) = b * m + m
    OBVIOUS
  <1>8. n < c \/ n < l + b * r
    <2>1. ~(n >= CheckEvery /\ n >= l + Buckets * r)
      BY <1>2 DEF CheckDue
    <2>2. ~(n >= c /\ n >= l + b * r)
      BY <1>4, <2>1
    <2>3. PICK z \in Nat : z = b * r
      BY <1>6
    <2>. QED BY <2>2, <2>3
  <1>9. n < c + (b * m + m)
    BY <1>4, <1>5, <1>6, <1>8
  <1>. QED BY <1>2, <1>4, <1>7, <1>9

LEMMA NoGroupsKept ==
  Kept(NoGroups) /\ NoGroups.unchecked = 0 /\ Len(NoGroups.slots) = 0 /\ \A m : AllWithin(NoGroups, m)
  <1>1. PICK a : a = NoGroups
    OBVIOUS
  <1>2. /\ a.slots = <<>> /\ a.pairs = <<>> /\ a.exact = <<>> /\ a.rare = 0 /\ a.unchecked = 0
        /\ a = [slots |-> a.slots, pairs |-> a.pairs, exact |-> a.exact, rare |-> a.rare, unchecked |-> a.unchecked]
    BY <1>1 DEF NoGroups
  <1>3. a \in Aggregates
    <2>1. /\ a.slots \in Seq(Slots) /\ a.pairs \in Seq(Double \X Double) /\ a.exact \in Seq(ExactSums)
          /\ a.rare \in Int /\ a.unchecked \in Nat
      BY <1>2
    <2>. QED BY <1>2, <2>1, Zenon DEF Aggregates
  <1>4. RareIn(a.exact) = 0
    <2>1. RareOnes(a.exact) = {}
      BY <1>2 DEF RareOnes
    <2>2. RareIn(a.exact) = Cardinality({})
      BY <2>1 DEF RareIn, RareOnes
    <2>. QED BY <2>2, FS_EmptySet
  <1>5. AllSound(a) /\ Points(a) /\ Apart(a) /\ Reached(a)
    BY <1>2 DEF AllSound, Points, Apart, Reached
  <1>6. Kept(a)
    BY <1>2, <1>3, <1>4, <1>5 DEF Kept
  <1>7. \A m : AllWithin(a, m)
    BY <1>2 DEF AllWithin
  <1>. QED BY <1>1, <1>2, <1>6, <1>7

LEMMA WindowedKept ==
  /\ Kept(Windowed) /\ Windowed.unchecked = 0 /\ Len(Windowed.slots) = 1 /\ Windowed.slots[1].n = Exact
  /\ Stand(Windowed, 1) = NoTotal /\ AllWithin(Windowed, Limit)
  <1>1. PICK a : a = NoGroups /\ Kept(a) /\ a.unchecked = 0 /\ Len(a.slots) = 0 /\ \A m : AllWithin(a, m)
    BY NoGroupsKept
  <1>2. PICK b : b = Grown(a, 1)
    OBVIOUS
  <1>3. /\ Kept(b) /\ Len(b.slots) = 1 /\ b.unchecked = 0 /\ Stand(b, 1) = NoTotal
        /\ \A m : AllWithin(b, m)
    <2>1. PICK n \in Nat : n = 1 /\ Len(a.slots) <= n
      BY <1>1
    <2>2. b = Grown(a, n)
      BY <1>2, <2>1
    <2>3. /\ Kept(b) /\ Len(b.slots) = n /\ b.unchecked = a.unchecked
          /\ \A g \in 1..n : Stand(b, g) = IF g <= Len(a.slots) THEN Stand(a, g) ELSE NoTotal
          /\ \A m : AllWithin(a, m) => AllWithin(b, m)
      <3>1. Kept(a)
        BY <1>1
      <3>2. Len(a.slots) <= n
        BY <2>1
      <3>. QED BY <2>2, <3>1, <3>2, GrownIs
    <2>4. 1 \in 1..n /\ ~(1 <= Len(a.slots))
      BY <1>1, <2>1
    <2>. QED BY <1>1, <2>1, <2>3, <2>4
  <1>4. PICK w : w = WithExact(b, 1)
    OBVIOUS
  <1>5. 1 \in 1..Len(b.slots)
    BY <1>3
  <1>6. /\ Does(b, w, 1, Stand(b, 1)) /\ w.slots[1].n = Exact
        /\ \A m \in Nat : AllWithin(b, m) /\ Limit <= m => AllWithin(w, m)
    BY <1>3, <1>4, <1>5, WithExactDoes
  <1>7. Kept(w) /\ Len(w.slots) = 1 /\ w.unchecked = 0 /\ Stand(w, 1) = NoTotal
    BY <1>3, <1>5, <1>6 DEF Does
  <1>8. AllWithin(w, Limit)
    <2>1. Limit \in Nat /\ Limit <= Limit
      BY BucketTypes
    <2>. QED BY <1>3, <1>6, <2>1
  <1>9. w = Windowed
    BY <1>1, <1>2, <1>4 DEF Windowed
  <1>. QED BY <1>6, <1>7, <1>8, <1>9

LEMMA FloatsStart ==
  FloatInit => FInv
  <1> SUFFICES ASSUME FloatInit PROVE FInv
    OBVIOUS
  <1>0. /\ mode \in {"grouped", "window"} /\ error = FALSE
        /\ DOMAIN acc = Parts /\ DOMAIN fed = Parts /\ DOMAIN frame = Parts
    BY DEF FloatInit
  <1>1. Far(0) = Limit /\ Limit \in Nat
    BY FarGrows, BucketTypes
  <1>2. 0 < CheckEvery + MaxGroups * (Buckets + 1) /\ MaxGroups \in Nat /\ 1 <= MaxGroups
    <2>1. PICK m \in Nat, c \in Nat, b \in Nat : m = MaxGroups /\ c = CheckEvery /\ b = Buckets /\ c > 0 /\ m > 0
      BY BucketTypes, FloatSumAssumption
    <2>2. m * (b + 1) \in Nat
      OBVIOUS
    <2>. QED BY <2>1, <2>2
  <1>3. ASSUME NEW p \in Parts PROVE Kept(acc[p]) /\ Standing(p) /\ (mode = "window" => Framed(p))
    <2>0. frame[p] = <<>>
      BY DEF FloatInit
    <2>1. CASE mode = "window"
      <3>1. PICK a : a = Windowed
        OBVIOUS
      <3>2. acc[p] = a /\ fed[p] = <<NoTotal>>
        BY <2>1, <3>1 DEF FloatInit
      <3>3. /\ Kept(a) /\ a.unchecked = 0 /\ Len(a.slots) = 1 /\ a.slots[1].n = Exact
            /\ Stand(a, 1) = NoTotal /\ AllWithin(a, Limit)
        BY <3>1, WindowedKept
      <3>4. fed[p] \in Seq(Totals) /\ Len(fed[p]) = 1 /\ fed[p][1] = NoTotal /\ NoTotal.n = 0
        BY <3>2, NothingIs DEF NoTotal
      <3>5. Standing(p)
        BY <1>1, <1>2, <3>2, <3>3, <3>4 DEF Standing
      <3>6. frame[p] \in Seq(Double) /\ Len(frame[p]) = 0
        BY <2>0
      <3>. QED BY <3>2, <3>3, <3>4, <3>5, <3>6 DEF Framed
    <2>2. CASE mode = "grouped"
      <3>1. acc[p] = NoGroups /\ fed[p] = <<>>
        BY <2>2 DEF FloatInit
      <3>2. fed[p] \in Seq(Totals) /\ Len(fed[p]) = 0
        BY <3>1
      <3>3. Standing(p)
        BY <1>2, <3>1, <3>2, NoGroupsKept DEF Standing
      <3>. QED BY <2>2, <3>1, <3>3, NoGroupsKept
    <2>. QED BY <1>0, <2>1, <2>2
  <1>. QED BY <1>0, <1>3, Zenon DEF FInv

LEMMA UpdateKeeps ==
  ASSUME FInv, NEW p \in Parts, NEW g \in 1..MaxGroups, NEW x \in Values, Update(p, g, x)
  PROVE  FInv'
  <1>0. /\ DOMAIN acc = Parts /\ DOMAIN fed = Parts /\ DOMAIN frame = Parts
        /\ \A s \in Parts : Kept(acc[s])
        /\ \A s \in Parts : Standing(s)
        /\ mode = "grouped" /\ mode' = mode /\ frame' = frame /\ x \in Double
    BY FloatSumAssumption DEF FInv, Update
  <1>1. PICK a \in Aggregates, f \in Seq(Totals), l \in Nat :
          a = acc[p] /\ f = fed[p] /\ l = Len(f) /\ l = Len(a.slots) /\ Kept(a)
    <2>1. Standing(p) /\ Kept(acc[p])
      BY <1>0
    <2>2. fed[p] \in Seq(Totals) /\ Len(fed[p]) = Len(acc[p].slots)
      BY <2>1 DEF Standing
    <2>3. Len(fed[p]) \in Nat
      BY <2>2
    <2>4. acc[p] \in Aggregates
      BY <2>1 DEF Kept
    <2>. QED BY <2>1, <2>2, <2>3, <2>4
  <1>2. MaxGroups \in Nat
    BY FloatSumAssumption
  <1>3. PICK n \in Nat : n = IF g > l THEN g ELSE l
    OBVIOUS
  <1>4. l <= n /\ g \in 1..n /\ n <= MaxGroups
    <2>1. l <= MaxGroups
      BY <1>0, <1>1 DEF Standing
    <2>. QED BY <1>2, <1>3, <2>1
  <1>5. PICK b : b = Grown(a, n)
    OBVIOUS
  <1>6. /\ Kept(b) /\ Len(b.slots) = n /\ b.unchecked = a.unchecked
        /\ \A h \in 1..n : Stand(b, h) = IF h <= l THEN Stand(a, h) ELSE NoTotal
        /\ \A m : AllWithin(a, m) => AllWithin(b, m)
    <2>1. Len(a.slots) <= n
      BY <1>1, <1>4
    <2>2. /\ Kept(b) /\ Len(b.slots) = n /\ b.unchecked = a.unchecked
          /\ \A h \in 1..n : Stand(b, h) = IF h <= Len(a.slots) THEN Stand(a, h) ELSE NoTotal
          /\ \A m : AllWithin(a, m) => AllWithin(b, m)
      BY <1>1, <1>5, <2>1, GrownIs
    <2>. QED BY <1>1, <2>2
  <1>7. PICK u : u = AddRow(b, g, x)
    OBVIOUS
  <1>8. /\ u.ok \in BOOLEAN /\ Kept(u.acc)
        /\ u.ok => /\ Len(u.acc.slots) = n
                   /\ \A h \in 1..n : Stand(u.acc, h) = IF h = g THEN Tally(Stand(b, g), x, 1) ELSE Stand(b, h)
                   /\ AllWithin(b, Far(b.unchecked)) => AllWithin(u.acc, Far(u.acc.unchecked))
                   /\ ~CheckDue(u.acc)
    <2>1. g \in 1..Len(b.slots)
      BY <1>4, <1>6
    <2>2. /\ u.ok \in BOOLEAN /\ Kept(u.acc)
          /\ u.ok => /\ Len(u.acc.slots) = Len(b.slots)
                     /\ \A h \in 1..Len(b.slots) :
                          Stand(u.acc, h) = IF h = g THEN Tally(Stand(b, g), x, 1) ELSE Stand(b, h)
                     /\ AllWithin(b, Far(b.unchecked)) => AllWithin(u.acc, Far(u.acc.unchecked))
                     /\ ~CheckDue(u.acc)
      BY <1>0, <1>6, <1>7, <2>1, AddRowTakes
    <2>. QED BY <1>6, <2>2
  <1>9. PICK h : h = Lengthened(f, n)
    OBVIOUS
  <1>10. h \in Seq(Totals) /\ Len(h) = n /\ \A i \in 1..n : h[i] = IF i <= l THEN f[i] ELSE NoTotal
    <2>1. Len(f) <= n
      BY <1>1, <1>4
    <2>2. h \in Seq(Totals) /\ Len(h) = n /\ \A i \in 1..n : h[i] = IF i <= Len(f) THEN f[i] ELSE NoTotal
      BY <1>9, <2>1, LengthenedIs
    <2>. QED BY <1>1, <2>2
  <1>11. PICK t \in Totals : t = Tally(h[g], x, 1)
    <2>1. h[g] \in Totals
      BY <1>4, <1>10
    <2>2. Tally(h[g], x, 1) \in Totals
      BY <1>0, <2>1, TallyType, Zenon
    <2>. QED BY <2>2
  <1>12. PICK k : k = [h EXCEPT ![g] = t]
    BY Zenon
  <1>13. k \in Seq(Totals) /\ Len(k) = n /\ k[g] = t /\ \A i \in 1..n : i # g => k[i] = h[i]
    <2>1. g \in 1..Len(h)
      BY <1>4, <1>10
    <2>2. k \in Seq(Totals) /\ Len(k) = Len(h) /\ k[g] = t /\ \A i \in 1..Len(h) : i # g => k[i] = h[i]
      BY <1>10, <1>12, <2>1, ExceptSeq
    <2>. QED BY <1>10, <2>2, Zenon
  <1>14. /\ acc' = [acc EXCEPT ![p] = u.acc] /\ error' = ~u.ok
         /\ fed'[p] = k /\ DOMAIN fed' = Parts /\ \A s \in Parts : s # p => fed'[s] = fed[s]
    <2>1. n = IF g > Len(acc[p].slots) THEN g ELSE Len(acc[p].slots)
      BY <1>1, <1>3
    <2>2. acc' = [acc EXCEPT ![p] = u.acc] /\ error' = ~u.ok
      BY <1>1, <1>5, <1>7, <2>1 DEF Update
    <2>3. fed' = [fed EXCEPT ![p] = Tallied(Lengthened(fed[p], n), g, x)]
      BY <2>1 DEF Update
    <2>4. DOMAIN fed' = Parts /\ \A s \in Parts : s # p => fed'[s] = fed[s]
      BY <1>0, <2>3
    <2>5. fed'[p] = Tallied(Lengthened(fed[p], n), g, x)
      BY <1>0, <2>3
    <2>6. Lengthened(fed[p], n) = h
      BY <1>1, <1>9
    <2>7. Tallied(h, g, x) = k
      BY <1>11, <1>12 DEF Tallied
    <2>. QED BY <2>2, <2>4, <2>5, <2>6, <2>7
  <1>15. /\ acc'[p] = u.acc /\ fed'[p] = k /\ DOMAIN acc' = Parts /\ DOMAIN fed' = Parts
         /\ \A s \in Parts : s # p => acc'[s] = acc[s] /\ fed'[s] = fed[s]
    BY <1>0, <1>14
  <1>16. ASSUME u.ok PROVE Standing(p)'
    <2>1. \A i \in 1..n : Stand(u.acc, i) = k[i]
      <3> TAKE i \in 1..n
      <3>1. Stand(b, i) = h[i]
        <4>1. i <= l => Stand(a, i) = f[i]
          BY <1>0, <1>1 DEF Standing
        <4>. QED BY <1>6, <1>10, <4>1
      <3>2. CASE i = g
        BY <1>8, <1>11, <1>13, <1>16, <3>1, <3>2
      <3>3. CASE i # g
        BY <1>8, <1>13, <1>16, <3>1, <3>3
      <3>. QED BY <3>2, <3>3
    <2>2. AllWithin(u.acc, Far(u.acc.unchecked))
      <3>1. AllWithin(a, Far(a.unchecked))
        BY <1>0, <1>1 DEF Standing
      <3>. QED BY <1>6, <1>8, <1>16, <3>1
    <2>3. Len(u.acc.slots) = n
      BY <1>8, <1>16
    <2>4. u.acc.unchecked < CheckEvery + MaxGroups * (Buckets + 1)
      BY <1>4, <1>8, <1>16, <2>3, FewUnchecked
    <2>. QED BY <1>4, <1>13, <1>15, <2>1, <2>2, <2>3, <2>4 DEF Standing
  <1>17. ASSUME NEW s \in Parts, s # p PROVE Standing(s)'
    <2>1. Standing(s)
      BY <1>0
    <2>2. acc'[s] = acc[s] /\ fed'[s] = fed[s]
      BY <1>15, <1>17
    <2>. QED BY <2>1, <2>2 DEF Standing
  <1>18. \A s \in Parts : Kept(acc'[s])
    BY <1>0, <1>8, <1>15
  <1>19. mode' # "window"
    BY <1>0
  <1>. QED BY <1>0, <1>8, <1>14, <1>15, <1>16, <1>17, <1>18, <1>19, Zenon DEF FInv

LEMMA EmitKeeps ==
  ASSUME FInv, NEW p \in Parts, NEW q \in Parts, NEW k \in 1..MaxGroups, EmitGroups(p, q, k)
  PROVE  FInv'
  <1>0. /\ DOMAIN acc = Parts /\ DOMAIN fed = Parts /\ DOMAIN frame = Parts
        /\ \A s \in Parts : Kept(acc[s])
        /\ \A s \in Parts : Standing(s)
        /\ mode = "grouped" /\ mode' = mode /\ frame' = frame /\ p # q
        /\ k \in 1..Len(acc[q].slots)
    BY DEF FInv, EmitGroups
  <1>1. PICK a \in Aggregates, f \in Seq(Totals), l \in Nat :
          a = acc[p] /\ f = fed[p] /\ l = Len(f) /\ l = Len(a.slots) /\ Kept(a)
    <2>1. Standing(p) /\ Kept(acc[p])
      BY <1>0
    <2>2. fed[p] \in Seq(Totals) /\ Len(fed[p]) = Len(acc[p].slots)
      BY <2>1 DEF Standing
    <2>3. Len(fed[p]) \in Nat
      BY <2>2
    <2>4. acc[p] \in Aggregates
      BY <2>1 DEF Kept
    <2>. QED BY <2>1, <2>2, <2>3, <2>4
  <1>2. PICK c \in Aggregates, e \in Seq(Totals), j \in Nat :
          c = acc[q] /\ e = fed[q] /\ j = Len(e) /\ j = Len(c.slots) /\ Kept(c)
    <2>1. Standing(q) /\ Kept(acc[q])
      BY <1>0
    <2>2. fed[q] \in Seq(Totals) /\ Len(fed[q]) = Len(acc[q].slots)
      BY <2>1 DEF Standing
    <2>3. Len(fed[q]) \in Nat
      BY <2>2
    <2>4. acc[q] \in Aggregates
      BY <2>1 DEF Kept
    <2>. QED BY <2>1, <2>2, <2>3, <2>4
  <1>3. MaxGroups \in Nat /\ k \in Nat /\ k <= j /\ l <= MaxGroups /\ j <= MaxGroups
    <2>1. MaxGroups \in Nat
      BY FloatSumAssumption
    <2>2. l <= MaxGroups /\ j <= MaxGroups
      BY <1>0, <1>1, <1>2 DEF Standing
    <2>3. k \in 1..j
      BY <1>0, <1>2
    <2>. QED BY <2>1, <2>2, <2>3
  <1>4. PICK n \in Nat : n = IF k > l THEN k ELSE l
    BY <1>3
  <1>5. l <= n /\ k <= n /\ n <= MaxGroups
    BY <1>3, <1>4
  <1>6. PICK b : b = Grown(a, n)
    OBVIOUS
  <1>7. /\ Kept(b) /\ Len(b.slots) = n /\ b.unchecked = a.unchecked
        /\ \A h \in 1..n : Stand(b, h) = IF h <= l THEN Stand(a, h) ELSE NoTotal
        /\ \A m : AllWithin(a, m) => AllWithin(b, m)
    <2>1. Len(a.slots) <= n
      BY <1>1, <1>5
    <2>2. /\ Kept(b) /\ Len(b.slots) = n /\ b.unchecked = a.unchecked
          /\ \A h \in 1..n : Stand(b, h) = IF h <= Len(a.slots) THEN Stand(a, h) ELSE NoTotal
          /\ \A m : AllWithin(a, m) => AllWithin(b, m)
      BY <1>1, <1>6, <2>1, GrownIs
    <2>. QED BY <1>1, <2>2
  <1>8. PICK r : r = Merged(b, c, k)
    OBVIOUS
  <1>9. /\ r.ok \in BOOLEAN /\ Kept(r.acc)
        /\ r.ok => /\ Len(r.acc.slots) = n /\ r.acc.unchecked = a.unchecked
                   /\ \A h \in 1..n :
                        Stand(r.acc, h) = IF h <= k THEN Together(Stand(b, h), Stand(c, h)) ELSE Stand(b, h)
                   /\ \A m \in Nat : AllWithin(b, m) /\ Limit <= m => AllWithin(r.acc, m)
    <2>1. k <= Len(b.slots) /\ k <= Len(c.slots)
      BY <1>2, <1>3, <1>5, <1>7
    <2>2. /\ r.ok \in BOOLEAN /\ Kept(r.acc)
          /\ r.ok => /\ Len(r.acc.slots) = Len(b.slots) /\ r.acc.unchecked = b.unchecked
                     /\ \A h \in 1..Len(b.slots) :
                          Stand(r.acc, h) = IF h <= k THEN Together(Stand(b, h), Stand(c, h)) ELSE Stand(b, h)
                     /\ \A m \in Nat : AllWithin(b, m) /\ Limit <= m => AllWithin(r.acc, m)
      <3>1. Kept(b) /\ Kept(c) /\ k \in Nat
        BY <1>2, <1>3, <1>7
      <3>. QED BY <1>8, <2>1, <3>1, MergedTakes
    <2>. QED BY <1>7, <2>2
  <1>10. PICK d : d = AfterTaking(c, k)
    OBVIOUS
  <1>11. /\ Kept(d) /\ Len(d.slots) = j - k /\ d.unchecked = c.unchecked
         /\ \A h \in 1..(j - k) : Stand(d, h) = Stand(c, h + k)
         /\ \A m : AllWithin(c, m) => AllWithin(d, m)
    <2>1. k <= Len(c.slots)
      BY <1>2, <1>3
    <2>2. /\ Kept(d) /\ Len(d.slots) = Len(c.slots) - k /\ d.unchecked = c.unchecked
          /\ \A h \in 1..(Len(c.slots) - k) : Stand(d, h) = Stand(c, h + k)
          /\ \A m : AllWithin(c, m) => AllWithin(d, m)
      <3>1. Kept(c) /\ k \in Nat
        BY <1>2, <1>3
      <3>2. Kept(d) /\ Len(d.slots) = Len(c.slots) - k /\ d.unchecked = c.unchecked
        BY <1>10, <2>1, <3>1, AfterTakingKeeps, Zenon
      <3>3. \A h \in 1..(Len(c.slots) - k) : Stand(d, h) = Stand(c, h + k)
        BY <1>10, <2>1, <3>1, AfterTakingKeeps
      <3>4. \A m : AllWithin(c, m) => AllWithin(d, m)
        BY <1>10, <2>1, <3>1, AfterTakingKeeps
      <3>. QED BY <3>2, <3>3, <3>4
    <2>. QED BY <1>2, <2>2
  <1>12. PICK h : h = Lengthened(f, n)
    OBVIOUS
  <1>13. h \in Seq(Totals) /\ Len(h) = n /\ \A i \in 1..n : h[i] = IF i <= l THEN f[i] ELSE NoTotal
    <2>1. Len(f) <= n
      BY <1>1, <1>5
    <2>2. h \in Seq(Totals) /\ Len(h) = n /\ \A i \in 1..n : h[i] = IF i <= Len(f) THEN f[i] ELSE NoTotal
      BY <1>12, <2>1, LengthenedIs
    <2>. QED BY <1>1, <2>2
  <1>14. PICK y : y = [i \in 1..n |-> IF i <= k THEN Together(h[i], e[i]) ELSE h[i]]
    BY Zenon
  <1>15. PICK z : z = SubSeq(e, k + 1, Len(e))
    BY Zenon
  <1>16. y \in Seq(Totals) /\ Len(y) = n
    <2>1. ASSUME NEW i \in 1..n PROVE y[i] \in Totals
      <3>1. h[i] \in Totals
        BY <1>13
      <3>2. CASE i <= k
        <4>1. e[i] \in Totals
          <5>1. i \in 1..Len(e)
            BY <1>2, <1>3, <3>2
          <5>. QED BY <5>1
        <4>2. Together(h[i], e[i]) \in Totals
          BY <3>1, <4>1, TogetherType
        <4>. QED BY <1>14, <3>2, <4>2
      <3>3. CASE ~(i <= k)
        BY <1>14, <3>1, <3>3
      <3>. QED BY <3>2, <3>3
    <2>2. y \in [1..n -> Totals]
      BY <1>14, <2>1
    <2>. QED BY <2>2, FunctionSeq
  <1>17. z \in Seq(Totals) /\ Len(z) = j - k /\ \A i \in 1..(j - k) : z[i] = e[i + k]
    <2>1. k \in Nat /\ k <= Len(e)
      BY <1>2, <1>3
    <2>2. z \in Seq(Totals) /\ Len(z) = Len(e) - k /\ \A i \in 1..(Len(e) - k) : z[i] = e[i + k]
      BY <1>15, <2>1, SubSeqIs
    <2>. QED BY <1>2, <2>2, Zenon
  <1>18. /\ acc' = [acc EXCEPT ![p] = r.acc, ![q] = d] /\ error' = ~r.ok
         /\ fed' = [fed EXCEPT ![p] = y, ![q] = z]
    <2>1. n = IF k > Len(acc[p].slots) THEN k ELSE Len(acc[p].slots)
      BY <1>1, <1>4
    <2>2. acc' = [acc EXCEPT ![p] = r.acc, ![q] = d] /\ error' = ~r.ok
      BY <1>1, <1>2, <1>6, <1>8, <1>10, <2>1 DEF EmitGroups
    <2>3. fed' = [fed EXCEPT
             ![p] = [i \in 1..n |-> IF i <= k THEN Together(Lengthened(fed[p], n)[i], fed[q][i])
                                    ELSE Lengthened(fed[p], n)[i]],
             ![q] = SubSeq(@, k + 1, Len(@))]
      BY <2>1 DEF EmitGroups
    <2>4. fed' = [fed EXCEPT ![p] = y, ![q] = SubSeq(@, k + 1, Len(@))]
      BY <1>1, <1>2, <1>12, <1>14, <2>3, Zenon
    <2>. QED BY <1>0, <1>2, <1>15, <2>2, <2>4
  <1>19. /\ acc'[p] = r.acc /\ fed'[p] = y /\ acc'[q] = d /\ fed'[q] = z
         /\ DOMAIN acc' = Parts /\ DOMAIN fed' = Parts
         /\ \A s \in Parts : s # p /\ s # q => acc'[s] = acc[s] /\ fed'[s] = fed[s]
    BY <1>0, <1>18
  <1>20. ASSUME r.ok PROVE Standing(p)'
    <2>1. \A i \in 1..n : Stand(r.acc, i) = y[i]
      <3> TAKE i \in 1..n
      <3>1. Stand(b, i) = h[i]
        <4>1. i <= l => Stand(a, i) = f[i]
          BY <1>0, <1>1 DEF Standing
        <4>. QED BY <1>7, <1>13, <4>1
      <3>2. CASE i <= k
        <4>1. Stand(c, i) = e[i]
          BY <1>0, <1>2, <1>3, <3>2 DEF Standing
        <4>2. Stand(r.acc, i) = Together(Stand(b, i), Stand(c, i))
          BY <1>9, <1>20, <3>2
        <4>. QED BY <1>14, <3>1, <3>2, <4>1, <4>2
      <3>3. CASE ~(i <= k)
        BY <1>9, <1>14, <1>20, <3>1, <3>3
      <3>. QED BY <3>2, <3>3
    <2>2. AllWithin(r.acc, Far(r.acc.unchecked))
      <3>1. AllWithin(a, Far(a.unchecked))
        BY <1>0, <1>1 DEF Standing
      <3>2. a.unchecked \in Nat
        BY <1>1, PartsAre DEF Kept
      <3>3. Far(a.unchecked) \in Nat /\ Limit <= Far(a.unchecked)
        BY <3>2, FarGrows, Zenon
      <3>. QED BY <1>7, <1>9, <1>20, <3>1, <3>3
    <2>3. a.unchecked < CheckEvery + MaxGroups * (Buckets + 1)
      BY <1>0, <1>1 DEF Standing
    <2>. QED BY <1>5, <1>9, <1>16, <1>19, <1>20, <2>1, <2>2, <2>3 DEF Standing
  <1>21. Standing(q)'
    <2>1. \A i \in 1..(j - k) : Stand(d, i) = z[i]
      <3> TAKE i \in 1..(j - k)
      <3>1. i + k \in 1..j
        BY <1>3
      <3>2. Stand(c, i + k) = e[i + k]
        BY <1>0, <1>2, <3>1 DEF Standing
      <3>. QED BY <1>11, <1>17, <3>2
    <2>2. AllWithin(d, Far(d.unchecked))
      <3>1. AllWithin(c, Far(c.unchecked))
        BY <1>0, <1>2 DEF Standing
      <3>. QED BY <1>11, <3>1
    <2>3. c.unchecked < CheckEvery + MaxGroups * (Buckets + 1)
      BY <1>0, <1>2 DEF Standing
    <2>4. j - k <= MaxGroups
      BY <1>3
    <2>. QED BY <1>11, <1>17, <1>19, <2>1, <2>2, <2>3, <2>4 DEF Standing
  <1>22. ASSUME NEW s \in Parts, s # p, s # q PROVE Standing(s)'
    <2>1. Standing(s)
      BY <1>0
    <2>2. acc'[s] = acc[s] /\ fed'[s] = fed[s]
      BY <1>19, <1>22
    <2>. QED BY <2>1, <2>2 DEF Standing
  <1>23. \A s \in Parts : Kept(acc'[s])
    BY <1>0, <1>9, <1>11, <1>19
  <1>24. mode' # "window"
    BY <1>0
  <1>. QED BY <1>0, <1>9, <1>18, <1>19, <1>20, <1>21, <1>22, <1>23, <1>24, Zenon DEF FInv

(* A whole batch of a window: into its one group, or back out of it. *)
LEMMA BatchKeeps ==
  ASSUME FInv, ~error, mode = "window", mode' = mode, NEW p \in Parts, NEW xs \in Seq(Double), NEW sign \in {1, -1},
         NEW d \in Int, d = sign * Len(xs), Len(frame[p]) + d \in Nat, WholeBatch(p, xs, sign),
         NEW w \in Seq(Double), frame' = [frame EXCEPT ![p] = w], Len(w) = Len(frame[p]) + d
  PROVE  FInv'
  <1>0. /\ DOMAIN acc = Parts /\ DOMAIN fed = Parts /\ DOMAIN frame = Parts
        /\ \A s \in Parts : Kept(acc[s]) /\ Standing(s) /\ Framed(s)
    BY DEF FInv
  <1>1. PICK a \in Aggregates : a = acc[p] /\ Kept(a) /\ Len(a.slots) = 1 /\ a.slots[1].n = Exact
    <2>1. Kept(acc[p]) /\ Framed(p)
      BY <1>0
    <2>. QED BY <2>1 DEF Kept, Framed
  <1>2. PICK e : e = SumOfGroup(a, 1)
    OBVIOUS
  <1>3. 1 \in 1..Len(a.slots)
    BY <1>1
  <1>4. /\ Sound(e) /\ Sense(e) = Stand(a, 1) /\ Stand(a, 1) \in Totals
        /\ \A m : AllWithin(a, m) => Within(e, m)
    BY <1>1, <1>2, <1>3, ExactOf
  <1>5. PICK t \in Totals : t = fed[p][1] /\ t = Stand(a, 1) /\ t.n = Len(frame[p])
    <2>1. Standing(p) /\ Framed(p)
      BY <1>0
    <2>2. Stand(a, 1) = fed[p][1]
      BY <1>1, <1>3, <2>1 DEF Standing
    <2>3. fed[p][1].n = Len(frame[p])
      BY <2>1 DEF Framed
    <2>. QED BY <1>4, <2>2, <2>3
  <1>6. e.n = t.n
    BY <1>4, <1>5 DEF Sense
  <1>7. PICK r : r = AddMany(e, xs, sign)
    OBVIOUS
  <1>8. /\ Sound(r.sum) /\ r.ok \in BOOLEAN
        /\ r.ok => r.sum.n = e.n + d /\ Sense(r.sum) = TallyAll(t, xs, sign)
        /\ r.ok => \A m \in Nat : Within(e, m) /\ Limit <= m => Within(r.sum, m)
    <2>1. e.n + sign * Len(xs) \in Nat
      BY <1>5, <1>6, Zenon
    <2>2. Sense(e) = t
      BY <1>4, <1>5
    <2>3. /\ Sound(r.sum) /\ r.ok \in BOOLEAN
          /\ r.ok => r.sum.n = e.n + sign * Len(xs) /\ Sense(r.sum) = TallyAll(Sense(e), xs, sign)
          /\ r.ok => \A m \in Nat : Within(e, m) /\ Limit <= m => Within(r.sum, m)
      BY <1>4, <1>7, <2>1, AddManyTakes
    <2>. QED BY <2>2, <2>3
  <1>9. PICK s : s = r.sum
    OBVIOUS
  <1>10. PICK b : b = Put(a, 1, s)
    OBVIOUS
  <1>11. /\ Does(a, b, 1, Sense(s)) /\ b.slots = a.slots
         /\ \A m \in Nat : AllWithin(a, m) /\ Within(s, m) => AllWithin(b, m)
    <2>1. PICK g : g = 1 /\ g \in 1..Len(a.slots)
      BY <1>3
    <2>2. Sound(s) /\ Kept(a) /\ a.slots[g].n = Exact /\ b = Put(a, g, s)
      BY <1>1, <1>8, <1>9, <1>10, <2>1
    <2>3. /\ Does(a, b, g, Sense(s))
          /\ \A m \in Nat : AllWithin(a, m) /\ Within(s, m) => AllWithin(b, m)
      BY <2>1, <2>2, PutDoes, Zenon
    <2>4. b.slots = a.slots
      BY <2>2 DEF Put, Aggregates
    <2>. QED BY <2>1, <2>3, <2>4
  <1>12. PICK f : f = <<TallyAll(t, xs, sign)>>
    BY Zenon
  <1>13. acc' = [acc EXCEPT ![p] = b] /\ error' = ~r.ok /\ fed' = [fed EXCEPT ![p] = f]
    <2>1. acc' = [acc EXCEPT ![p] = b] /\ error' = ~r.ok
      BY <1>1, <1>2, <1>7, <1>9, <1>10 DEF WholeBatch
    <2>2. fed' = [fed EXCEPT ![p] = <<TallyAll(@[1], xs, sign)>>]
      BY DEF WholeBatch
    <2>. QED BY <1>5, <1>12, <2>1, <2>2, Zenon
  <1>14. /\ acc'[p] = b /\ fed'[p] = f /\ frame'[p] = w
         /\ DOMAIN acc' = Parts /\ DOMAIN fed' = Parts /\ DOMAIN frame' = Parts
         /\ \A q \in Parts : q # p => acc'[q] = acc[q] /\ fed'[q] = fed[q] /\ frame'[q] = frame[q]
    BY <1>0, <1>13
  <1>15. /\ Kept(b) /\ Len(b.slots) = 1 /\ b.unchecked = a.unchecked /\ b.slots[1].n = Exact
         /\ Stand(b, 1) = Sense(s)
    BY <1>1, <1>3, <1>11 DEF Does
  <1>16. ASSUME r.ok PROVE Standing(p)' /\ Framed(p)'
    <2>1. Sense(s) = TallyAll(t, xs, sign) /\ s.n = e.n + d /\ Sense(s) \in Totals
      BY <1>8, <1>9, <1>16, SenseType
    <2>2. f \in Seq(Totals) /\ Len(f) = 1 /\ f[1] = Sense(s)
      BY <1>12, <2>1
    <2>3. f[1].n = Len(w)
      BY <1>5, <1>6, <2>1, <2>2 DEF Sense
    <2>4. Standing(p)
      BY <1>0
    <2>5. AllWithin(b, Far(b.unchecked))
      <3>1. AllWithin(a, Far(a.unchecked))
        BY <1>1, <2>4 DEF Standing
      <3>2. a.unchecked \in Nat
        BY <1>1, PartsAre
      <3>3. Far(a.unchecked) \in Nat /\ Limit <= Far(a.unchecked)
        BY <3>2, FarGrows, Zenon
      <3>4. Within(s, Far(a.unchecked))
        BY <1>4, <1>8, <1>9, <1>16, <3>1, <3>3
      <3>. QED BY <1>11, <1>15, <3>1, <3>3, <3>4
    <2>6. \A g \in 1..1 : Stand(b, g) = f[g]
      BY <1>15, <2>2
    <2>7. 1 <= MaxGroups /\ a.unchecked < CheckEvery + MaxGroups * (Buckets + 1)
      BY <1>1, <2>4 DEF Standing
    <2>8. Standing(p)'
      BY <1>14, <1>15, <2>2, <2>5, <2>6, <2>7 DEF Standing
    <2>9. Framed(p)'
      BY <1>14, <1>15, <2>3 DEF Framed
    <2>. QED BY <2>8, <2>9
  <1>17. ASSUME NEW q \in Parts, q # p PROVE Standing(q)' /\ Framed(q)'
    <2>1. Standing(q) /\ Framed(q)
      BY <1>0
    <2>2. acc'[q] = acc[q] /\ fed'[q] = fed[q] /\ frame'[q] = frame[q]
      BY <1>14, <1>17
    <2>3. Standing(q)'
      BY <2>1, <2>2 DEF Standing
    <2>4. Framed(q)'
      BY <2>1, <2>2 DEF Framed
    <2>. QED BY <2>3, <2>4
  <1>18. \A q \in Parts : Kept(acc'[q])
    BY <1>0, <1>14, <1>15
  <1>. QED BY <1>8, <1>13, <1>14, <1>16, <1>17, <1>18, Zenon DEF FInv

LEMMA WidenKeeps ==
  ASSUME FInv, NEW p \in Parts, NEW xs \in Seq(Double), Widen(p, xs)
  PROVE  FInv'
  <1>1. ~error /\ mode = "window" /\ mode' = mode /\ WholeBatch(p, xs, 1)
        /\ frame' = [frame EXCEPT ![p] = @ \o xs]
    BY DEF Widen
  <1>2. PICK v \in Seq(Double) : v = frame[p]
    <2>1. Framed(p)
      BY <1>1 DEF FInv
    <2>. QED BY <2>1 DEF Framed
  <1>3. PICK w : w = v \o xs
    BY Zenon
  <1>4. w \in Seq(Double) /\ Len(w) = Len(v) + Len(xs)
    BY <1>3, ConcatSeq
  <1>5. Len(v) \in Nat /\ Len(xs) \in Nat
    OBVIOUS
  <1>6. PICK sign \in {1, -1} : sign = 1
    OBVIOUS
  <1>7. PICK d \in Int : d = sign * Len(xs) /\ d = Len(xs)
    BY <1>5, <1>6
  <1>8. Len(frame[p]) + d = Len(w) /\ Len(w) \in Nat
    <2>1. PICK i \in Nat, j \in Nat : i = Len(v) /\ j = Len(xs)
      BY <1>5
    <2>2. Len(w) = i + j /\ d = j
      BY <1>4, <1>7, <2>1
    <2>. QED BY <1>2, <2>1, <2>2
  <1>9. WholeBatch(p, xs, sign) /\ frame' = [frame EXCEPT ![p] = w]
    BY <1>1, <1>2, <1>3, <1>6
  <1>10. ~error /\ mode = "window" /\ mode' = mode
    BY <1>1
  <1>. QED BY <1>4, <1>7, <1>8, <1>9, <1>10, BatchKeeps, Zenon

LEMMA RetractKeeps ==
  ASSUME FInv, NEW p \in Parts, NEW k \in 1..MaxRows, Retract(p, k)
  PROVE  FInv'
  <1>1. ~error /\ mode = "window" /\ mode' = mode /\ WholeBatch(p, SubSeq(frame[p], 1, k), -1)
        /\ frame' = [frame EXCEPT ![p] = SubSeq(@, k + 1, Len(@))] /\ k \in 1..Len(frame[p])
    BY DEF Retract
  <1>2. PICK v \in Seq(Double) : v = frame[p] /\ DOMAIN frame = Parts
    <2>1. Framed(p) /\ DOMAIN frame = Parts
      BY <1>1 DEF FInv
    <2>. QED BY <2>1 DEF Framed
  <1>3. PICK w, xs : w = SubSeq(v, k + 1, Len(v)) /\ xs = SubSeq(v, 1, k)
    BY Zenon
  <1>4. k \in Nat /\ k <= Len(v) /\ Len(v) \in Nat
    BY <1>1, <1>2
  <1>5. w \in Seq(Double) /\ Len(w) = Len(v) - k
    BY <1>3, <1>4, SubSeqIs
  <1>6. xs \in Seq(Double) /\ Len(xs) = k
    BY <1>3, <1>4
  <1>7. PICK sign \in {1, -1} : sign = -1
    OBVIOUS
  <1>8. PICK d \in Int : d = sign * Len(xs) /\ d = -k
    BY <1>4, <1>6, <1>7
  <1>9. Len(frame[p]) + d = Len(w) /\ Len(w) \in Nat
    BY <1>2, <1>4, <1>5, <1>8
  <1>10. WholeBatch(p, xs, sign) /\ frame' = [frame EXCEPT ![p] = w]
    BY <1>1, <1>2, <1>3, <1>7
  <1>11. ~error /\ mode = "window" /\ mode' = mode
    BY <1>1
  <1>. QED BY <1>5, <1>6, <1>8, <1>9, <1>10, <1>11, BatchKeeps, Zenon

LEMMA FloatsStep ==
  FInv /\ [FloatNext]_floats => FInv'
  <1> SUFFICES ASSUME FInv, [FloatNext]_floats PROVE FInv'
    OBVIOUS
  <1>0. Values \subseteq Double
    BY FloatSumAssumption
  <1>1. ASSUME NEW p \in Parts, NEW g \in 1..MaxGroups, NEW x \in Values, Update(p, g, x) PROVE FInv'
    BY <1>1, UpdateKeeps
  <1>2. ASSUME NEW p \in Parts, NEW q \in Parts, NEW k \in 1..MaxGroups, EmitGroups(p, q, k) PROVE FInv'
    BY <1>2, EmitKeeps
  <1>3. ASSUME NEW p \in Parts, NEW x \in Values, Widen(p, <<x>>) PROVE FInv'
    <2>1. <<x>> \in Seq(Double)
      BY <1>0
    <2>. QED BY <1>3, <2>1, WidenKeeps, Zenon
  <1>4. ASSUME NEW p \in Parts, NEW x \in Values, NEW y \in Values, Widen(p, <<x, y>>) PROVE FInv'
    <2>1. <<x, y>> \in Seq(Double)
      BY <1>0
    <2>. QED BY <1>4, <2>1, WidenKeeps, Zenon
  <1>5. ASSUME NEW p \in Parts, NEW k \in 1..MaxRows, Retract(p, k) PROVE FInv'
    BY <1>5, RetractKeeps
  <1>6. CASE UNCHANGED floats
    BY <1>6 DEF floats, FInv, Standing, Framed
  <1>. QED BY <1>1, <1>2, <1>3, <1>4, <1>5, <1>6, Zenon DEF FloatNext

LEMMA FloatsMean ==
  FInv => FloatsKept
  <1> SUFFICES ASSUME FInv PROVE FloatsKept
    OBVIOUS
  <1>1. ASSUME NEW p \in Parts, NEW a, a = acc[p]
        PROVE  /\ a \in Aggregates /\ Kept(a) /\ a.exact \in Seq(ExactSums) /\ DOMAIN a.exact = 1..Len(a.exact)
               /\ DOMAIN a.slots = 1..Len(a.slots) /\ DOMAIN a.pairs = 1..Len(a.pairs)
               /\ \A i \in DOMAIN a.exact : Sound(a.exact[i])
    <2>1. Kept(a) /\ a \in Aggregates /\ AllSound(a)
      BY <1>1 DEF FInv, Kept
    <2>2. /\ a.exact \in Seq(ExactSums) /\ a.slots \in Seq(Slots) /\ a.pairs \in Seq(Double \X Double)
      BY <2>1, PartsAre
    <2>3. DOMAIN a.exact = 1..Len(a.exact) /\ DOMAIN a.slots = 1..Len(a.slots) /\ DOMAIN a.pairs = 1..Len(a.pairs)
      BY <2>2
    <2>. QED BY <2>1, <2>2, <2>3 DEF AllSound
  <1>2. FloatTypeOK
    <2> SUFFICES ASSUME NEW p \in Parts, NEW a, a = acc[p]
                 PROVE  /\ a.rare = RareIn(a.exact)
                        /\ \A i \in DOMAIN a.exact :
                             /\ a.exact[i].n \in Nat /\ a.exact[i].ids \in Seq(0..None)
                             /\ a.exact[i].rare => a.exact[i].ids = <<None, None>>
                             /\ a.exact[i].ids[1] = a.exact[i].ids[2] => a.exact[i].ids[1] = None
      BY Zenon DEF FloatTypeOK
    <2>1. a.rare = RareIn(a.exact)
      BY <1>1 DEF Kept
    <2>2. ASSUME NEW i \in DOMAIN a.exact, NEW e, e = a.exact[i]
          PROVE  /\ e.n \in Nat /\ e.ids \in Seq(0..None)
                 /\ e.rare => e.ids = <<None, None>>
                 /\ e.ids[1] = e.ids[2] => e.ids[1] = None
      <3>1. Sound(e) /\ e \in ExactSums
        BY <1>1, <2>2, Zenon DEF Sound
      <3>2. PICK z \in [1..2 -> 0..None] : z = e.ids
        BY <3>1 DEF ExactSums
      <3>3. z \in Seq(0..None) /\ Len(z) = 2
        <4>1. PICK l \in Nat : l = 2
          OBVIOUS
        <4>2. z \in [1..l -> 0..None]
          BY <4>1
        <4>. QED BY <4>1, <4>2, FunctionSeq, Zenon
      <3>4. e.rare => z = <<None, None>>
        <4> HAVE e.rare
        <4>1. z[1] = None /\ z[2] = None
          BY <3>1, <3>2 DEF Sound
        <4>. QED BY <3>3, <4>1
      <3>. QED BY <3>1, <3>2, <3>3, <3>4 DEF ExactSums, Sound
    <2>. QED BY <2>1, <2>2, Zenon
  <1>3. TotalsKept
    <2> SUFFICES ASSUME ~error, NEW p \in Parts
                 PROVE  /\ Len(acc[p].slots) = Len(fed[p])
                        /\ \A g \in DOMAIN fed[p] : StandsFor(acc[p], acc[p].slots[g]) = fed[p][g]
      BY DEF TotalsKept
    <2>1. Standing(p)
      BY DEF FInv
    <2>2. fed[p] \in Seq(Totals) /\ Len(acc[p].slots) = Len(fed[p])
          /\ \A g \in 1..Len(acc[p].slots) : StandsFor(acc[p], acc[p].slots[g]) = fed[p][g]
      BY <2>1 DEF Standing, Stand
    <2>3. DOMAIN fed[p] = 1..Len(fed[p])
      BY <2>2
    <2>. QED BY <2>2, <2>3
  <1>4. NoWrap
    <2> SUFFICES ASSUME ~error, NEW p \in Parts, NEW a, a = acc[p], NEW far, far = Limit + a.unchecked * MaxUnits
                 PROVE  /\ a.unchecked < CheckEvery + MaxGroups * (Buckets + 1)
                        /\ \A i \in DOMAIN a.exact :
                             /\ \A j \in 1..2 : Magnitude(a.exact[i].sums[j]) <= far
                             /\ \A b \in BucketIds : Magnitude(a.exact[i].dense[b]) <= far
      BY DEF NoWrap
    <2>1. Standing(p)
      BY DEF FInv
    <2>2. a.unchecked < CheckEvery + MaxGroups * (Buckets + 1) /\ AllWithin(a, far)
      BY <2>1 DEF Standing, Far
    <2>3. a.unchecked \in Nat
      BY <1>1, PartsAre
    <2>4. far \in Nat
      <3>1. far = Far(a.unchecked)
        BY DEF Far
      <3>. QED BY <2>3, <3>1, FarGrows
    <2>5. \A v \in Int : -far <= v /\ v <= far => Magnitude(v) <= far
      BY <2>4 DEF Magnitude
    <2>6. ASSUME NEW i \in DOMAIN a.exact, NEW e, e = a.exact[i]
          PROVE  /\ \A j \in 1..2 : Magnitude(e.sums[j]) <= far
                 /\ \A b \in BucketIds : Magnitude(e.dense[b]) <= far
      <3>1. Sound(e) /\ Within(e, far)
        BY <1>1, <2>2, <2>6, Zenon DEF AllWithin
      <3>2. e.sums \in [1..2 -> Int] /\ e.dense \in [BucketIds -> Int]
        BY <3>1 DEF Sound, ExactSums
      <3>3. \A j \in 1..2 : e.sums[j] \in Int /\ -far <= e.sums[j] /\ e.sums[j] <= far
        BY <3>1, <3>2 DEF Within
      <3>4. \A b \in BucketIds : e.dense[b] \in Int /\ -far <= e.dense[b] /\ e.dense[b] <= far
        BY <3>1, <3>2 DEF Within
      <3>. QED BY <2>5, <3>3, <3>4
    <2>. QED BY <2>2, <2>6
  <1>5. OwnPlaces
    <2> SUFFICES ASSUME NEW p \in Parts, NEW a, a = acc[p]
                 PROVE  /\ \A g \in DOMAIN a.slots : a.slots[g].n = 2 => a.slots[g].v \in DOMAIN a.pairs
                        /\ {a.slots[g].v : g \in {h \in DOMAIN a.slots : a.slots[h].n = Exact}} = DOMAIN a.exact
                        /\ \A g, h \in DOMAIN a.slots :
                             g # h /\ a.slots[g].n \in {2, Exact} => a.slots[g] # a.slots[h]
      BY Zenon DEF OwnPlaces
    <2>1. /\ Points(a) /\ Apart(a) /\ Reached(a) /\ DOMAIN a.exact = 1..Len(a.exact)
          /\ DOMAIN a.slots = 1..Len(a.slots) /\ DOMAIN a.pairs = 1..Len(a.pairs)
      BY <1>1 DEF Kept
    <2>2. \A g \in DOMAIN a.slots : a.slots[g].n = 2 => a.slots[g].v \in DOMAIN a.pairs
      BY <2>1 DEF Points
    <2>3. \A g \in DOMAIN a.slots : a.slots[g].n = Exact => a.slots[g].v \in DOMAIN a.exact
      BY <2>1 DEF Points
    <2>4. \A i \in DOMAIN a.exact : \E g \in DOMAIN a.slots : a.slots[g].n = Exact /\ a.slots[g].v = i
      BY <2>1, Zenon DEF Reached
    <2>5. \A g, h \in DOMAIN a.slots : g # h /\ a.slots[g].n \in {2, Exact} => a.slots[g] # a.slots[h]
      BY <2>1 DEF Apart
    <2>. QED BY <2>2, <2>3, <2>4, <2>5
  <1>. QED BY <1>2, <1>3, <1>4, <1>5 DEF FloatsKept

(* Whatever rows come in what order, however they are split, emitted, merged or taken back    *)
(* out of a window frame: a partial aggregate that refused nothing holds, exactly, what its   *)
(* groups stand for, in buckets within the word they are kept in and in places of their own   *)
(* (floatsum.rs, Exact and Groups).                                                           *)
THEOREM FloatsAreKept == FloatSpec => []FloatsKept
  <1>1. FloatInit => FInv
    BY FloatsStart
  <1>2. FInv /\ [FloatNext]_floats => FInv'
    BY FloatsStep
  <1>3. FInv => FloatsKept
    BY FloatsMean
  <1>. QED BY <1>1, <1>2, <1>3, PTL DEF FloatSpec

=============================================================================
