------------------------- MODULE HostCatalogProofs -------------------------
(* A rollback undoes what a transaction bound, and the identifiers kept up  *)
(* one table at a time are those of the tables, whatever the relations, the *)
(* bodies and the nest.                                                     *)
EXTENDS HostCatalog, FiniteSetTheorems, TLAPS

(* There are finitely many names. *)
LEMMA NamesFinite == IsFiniteSet(Names)
<1>1. IsFiniteSet(Relations)  BY CatalogAssumption
<1>2. IsFiniteSet(Parts)
  <2>1. IsFiniteSet({"public"} \cup {"raw"})  BY FS_Singleton, FS_Union
  <2>2. IsFiniteSet({"hot"} \cup {"union"})  BY FS_Singleton, FS_Union
  <2>3. Parts = ({"public"} \cup {"raw"}) \cup ({"hot"} \cup {"union"})  BY DEF Parts
  <2> QED  BY <2>1, <2>2, <2>3, FS_Union
<1> QED  BY <1>1, <1>2, FS_Product DEF Names

-----------------------------------------------------------------------------
(* The counts *)

(* A rebuild counts tables. *)
LEMMA KnownDomain ==
  ASSUME NEW ts
  PROVE  KnownOf(ts) \in [Idents -> Nat]
<1> SUFFICES ASSUME NEW i \in Idents
             PROVE  Cardinality({n \in Names : i \in Carries(n, ts[n])}) \in Nat
  BY DEF KnownOf
<1> DEFINE S == {n \in Names : i \in Carries(n, ts[n])}
<1>1. S \subseteq Names  OBVIOUS
<1>2. IsFiniteSet(S)  BY <1>1, NamesFinite, FS_Subset
<1> QED  BY <1>2, FS_CardinalityType

(* Two sets with nothing in common count as their sum. *)
LEMMA CountedApart ==
  ASSUME NEW S, NEW T, IsFiniteSet(S), IsFiniteSet(T), S \cap T = {}
  PROVE  /\ Cardinality(S \cup T) = Cardinality(S) + Cardinality(T)
         /\ Cardinality(S) \in Nat /\ Cardinality(T) \in Nat
<1>1. Cardinality(S \cup T) = Cardinality(S) + Cardinality(T) - Cardinality(S \cap T)
  BY FS_Union
<1>2. Cardinality(S \cap T) = 0  BY FS_EmptySet
<1>3. Cardinality(S) \in Nat /\ Cardinality(T) \in Nat  BY FS_CardinalityType
<1> QED  BY <1>1, <1>2, <1>3

(* Taking out the old table and putting in the new one, for any set of      *)
(* names at once, gives the counts of the tables as they are then.          *)
LEMMA RenamedIsKnown ==
  ASSUME NEW ts, NEW new, DOMAIN new \subseteq Names
  PROVE  Renamed(KnownOf(ts), ts, new) = KnownOf(Over(ts, new))
<1> DEFINE Kept(i) == {n \in Names \ DOMAIN new : i \in Carries(n, ts[n])}
           Old(i) == {n \in DOMAIN new : i \in Carries(n, ts[n])}
           New(i) == {n \in DOMAIN new : i \in Carries(n, new[n])}
<1>1. ASSUME NEW i \in Idents
      PROVE  /\ KnownOf(ts)[i] = Cardinality(Kept(i)) + Cardinality(Old(i))
             /\ KnownOf(Over(ts, new))[i] = Cardinality(Kept(i)) + Cardinality(New(i))
             /\ Cardinality(Kept(i)) \in Nat /\ Cardinality(Old(i)) \in Nat
             /\ Cardinality(New(i)) \in Nat
  <2>1. /\ Kept(i) \subseteq Names /\ Old(i) \subseteq Names /\ New(i) \subseteq Names
        /\ Kept(i) \cap Old(i) = {} /\ Kept(i) \cap New(i) = {}
    OBVIOUS
  <2>2. IsFiniteSet(Kept(i)) /\ IsFiniteSet(Old(i)) /\ IsFiniteSet(New(i))
    BY <2>1, NamesFinite, FS_Subset
  <2>3. {n \in Names : i \in Carries(n, ts[n])} = Kept(i) \cup Old(i)  OBVIOUS
  <2>4. {n \in Names : i \in Carries(n, Over(ts, new)[n])} = Kept(i) \cup New(i)
    BY DEF Over
  <2> HIDE DEF Kept, Old, New
  <2>5. /\ Cardinality(Kept(i) \cup Old(i)) = Cardinality(Kept(i)) + Cardinality(Old(i))
        /\ Cardinality(Kept(i)) \in Nat /\ Cardinality(Old(i)) \in Nat
    BY <2>1, <2>2, CountedApart
  <2>6. /\ Cardinality(Kept(i) \cup New(i)) = Cardinality(Kept(i)) + Cardinality(New(i))
        /\ Cardinality(New(i)) \in Nat
    BY <2>1, <2>2, CountedApart
  <2>8. KnownOf(ts)[i] = Cardinality(Kept(i) \cup Old(i))  BY <2>3 DEF KnownOf
  <2>9. KnownOf(Over(ts, new))[i] = Cardinality(Kept(i) \cup New(i))  BY <2>4 DEF KnownOf
  <2> QED  BY <2>5, <2>6, <2>8, <2>9
<1>2. CASE KnownOf(ts) = Unbuilt
  <2>1. DOMAIN KnownOf(ts) = Idents  BY DEF KnownOf
  <2>2. DOMAIN Unbuilt = {}  BY DEF Unbuilt
  <2>3. Idents = {}  BY <1>2, <2>1, <2>2
  <2>4. KnownOf(ts) = KnownOf(Over(ts, new))  BY <2>3 DEF KnownOf
  <2> QED  BY <1>2, <2>4 DEF Renamed
<1>3. CASE KnownOf(ts) # Unbuilt
  <2>1. ASSUME NEW i \in Idents
        PROVE  (KnownOf(ts)[i] + Cardinality(New(i))) - Cardinality(Old(i))
                 = KnownOf(Over(ts, new))[i]
    <3> HIDE DEF Kept, Old, New
    <3> QED  BY <1>1
  <2>2. Renamed(KnownOf(ts), ts, new) = [i \in Idents |-> KnownOf(Over(ts, new))[i]]
    BY <1>3, <2>1 DEF Renamed
  <2>3. KnownOf(Over(ts, new)) = [i \in Idents |-> KnownOf(Over(ts, new))[i]]
    BY DEF KnownOf
  <2> QED  BY <2>2, <2>3
<1> QED  BY <1>2, <1>3

(* The cache is not built, or is what a rebuild would give. *)
Current(k, ts) == k = Unbuilt \/ k = KnownOf(ts)

(* Planning a statement builds it from the tables. *)
LEMMA PlannedCurrent ==
  ASSUME NEW k, NEW ts, Current(k, ts)
  PROVE  Current(Planned(k, ts), ts)
BY DEF Current, Planned

(* Renaming any names keeps it current. *)
LEMMA RenamedCurrent ==
  ASSUME NEW k, NEW ts, NEW new, DOMAIN new \subseteq Names, Current(k, ts)
  PROVE  Current(Renamed(k, ts, new), Over(ts, new))
<1>1. CASE k = Unbuilt  BY <1>1 DEF Current, Renamed
<1>2. CASE k = KnownOf(ts)  BY <1>2, RenamedIsKnown DEF Current
<1> QED  BY <1>1, <1>2 DEF Current

(* The names a transaction has saved are names: what a rollback renames. *)
SavedNames == DOMAIN txn \subseteq Names

CatalogInv == Current(known, tables) /\ SavedNames

(* Binding and unbinding keep it current. *)
LEMMA PutCurrent ==
  ASSUME NEW k, NEW new, DOMAIN new \subseteq Names, Current(k, tables), Put(k, new)
  PROVE  Current(known', tables')
BY RenamedCurrent DEF Put

(* Every operation keeps the identifiers current, and saves only names. *)
LEMMA CatalogStep == CatalogInv /\ [Next]_vars => CatalogInv'
<1> SUFFICES ASSUME CatalogInv, [Next]_vars
             PROVE  CatalogInv'
  OBVIOUS
<1> USE DEF CatalogInv
<1>0. /\ Current(known, tables) /\ Current(Planned(known, tables), tables)
      /\ SavedNames
  BY PlannedCurrent
<1>1. ASSUME NEW r \in Relations, NEW p \in Parts
      PROVE  Part(r, p) \in Names
  BY <1>1 DEF Part, Names
<1>2. ASSUME NEW n \in Names, NEW b
      PROVE  DOMAIN One(n, b) \subseteq Names
  BY <1>2 DEF One
<1>3. ASSUME NEW r \in Relations, NEW b, NEW upto \in SUBSET Parts
      PROVE  DOMAIN Made(r, b, upto) \subseteq Names
  BY <1>3 DEF Made, Names
<1>4. ASSUME NEW was, NEW ns \in SUBSET Names
      PROVE  DOMAIN Saved(txn, was, ns) \subseteq Names
  BY <1>0, <1>4 DEF Saved, SavedFirst, SavedNames
<1>5. "public" \in Parts /\ {"raw"} \subseteq Parts /\ {"raw", "hot"} \subseteq Parts
      /\ {"raw", "hot", "union"} \subseteq Parts
  BY DEF Parts
<1>6. ASSUME NEW k, Current(k, tables), NEW n \in Names, NEW b, Bind(k, n, b)
      PROVE  CatalogInv'
  <2>1. Current(known', tables')  BY <1>2, <1>6, PutCurrent DEF Bind
  <2>2. txn' = Saved(txn, tables, {n})  BY <1>6 DEF Bind
  <2>3. {n} \in SUBSET Names  OBVIOUS
  <2>4. SavedNames'  BY <1>4, <2>2, <2>3 DEF SavedNames
  <2> QED  BY <2>1, <2>4
<1>7. ASSUME NEW r \in Relations, NEW b \in Bodies, RegisterView(r, b)
      PROVE  CatalogInv'
  <2>1. Current(known', tables')
    BY <1>0, <1>1, <1>2, <1>5, <1>7, PutCurrent DEF RegisterView
  <2> QED  BY <1>0, <1>7, <2>1 DEF RegisterView, SavedNames, transaction
<1>8. ASSUME NEW r \in Relations, NEW b \in Bodies, RegisterRows(r, b)
      PROVE  CatalogInv'
  <2>1. Current(known', tables')
    BY <1>0, <1>1, <1>2, <1>5, <1>8, PutCurrent DEF RegisterRows
  <2> QED  BY <1>0, <1>8, <2>1 DEF RegisterRows, SavedNames, transaction
<1>9. ASSUME NEW r \in Relations, NEW b \in Bodies, FactsFail(r, b)
      PROVE  CatalogInv'
  <2>1. ASSUME NEW upto \in {{"raw"}, {"raw", "hot"}}, Put(known, Made(r, b, upto))
        PROVE  Current(known', tables')
    BY <1>0, <1>3, <1>5, <2>1, PutCurrent
  <2>2. ASSUME NEW upto \in {{"raw"}, {"raw", "hot", "union"}},
               tables' = Over(tables, Made(r, b, upto)),
               known' = Planned(Renamed(known, tables, Made(r, b, upto)), tables')
        PROVE  Current(known', tables')
    <3>1. DOMAIN Made(r, b, upto) \subseteq Names  BY <1>3, <1>5
    <3>2. Current(Renamed(known, tables, Made(r, b, upto)), tables')
      BY <1>0, <2>2, <3>1, RenamedCurrent
    <3> QED  BY <2>2, <3>2, PlannedCurrent
  <2>3. SavedNames'  BY <1>0, <1>9 DEF FactsFail, SavedNames, transaction
  <2>4. Current(known', tables')  BY <1>9, <2>1, <2>2 DEF FactsFail
  <2> QED  BY <2>3, <2>4
<1>10. ASSUME NEW r \in Relations, NEW b \in Bodies, NEW hot \in BOOLEAN, RegisterFacts(r, b, hot)
       PROVE  CatalogInv'
  <2> DEFINE parts == Made(r, b, IF hot THEN {"raw", "hot", "union"} ELSE {"raw"})
             made == Over(tables, parts)
             asked == Planned(Renamed(known, tables, parts), made)
             view == One(Part(r, "public"), [kind |-> "view", body |-> b])
             shown == Over(made, view)
             gone == {n \in BoundIn(shown) : Hidden(n)}
             dropped == [n \in gone |-> Unbound]
  <2>1. DOMAIN parts \subseteq Names  BY <1>3, <1>5
  <2>2. DOMAIN view \subseteq Names  BY <1>1, <1>2, <1>5
  <2>3. gone \subseteq Names /\ DOMAIN dropped = gone  BY DEF BoundIn
  <2>4. /\ tables' = Over(shown, dropped)
        /\ known' = Renamed(Renamed(asked, made, view), shown, dropped)
        /\ txn' = Saved(txn, shown, gone)
    BY <1>10 DEF RegisterFacts
  <2> HIDE DEF parts, view, gone, dropped
  <2>5. Current(Renamed(known, tables, parts), made)  BY <1>0, <2>1, RenamedCurrent
  <2>6. Current(asked, made)  BY <2>5, PlannedCurrent
  <2>7. Current(Renamed(asked, made, view), shown)  BY <2>2, <2>6, RenamedCurrent
  <2>8. Current(known', tables')  BY <2>3, <2>4, <2>7, RenamedCurrent
  <2>9. SavedNames'  BY <1>4, <2>3, <2>4 DEF SavedNames
  <2> QED  BY <2>8, <2>9
<1>11. CASE Plans
  BY <1>0, <1>11 DEF Plans, SavedNames, transaction
<1>12. CASE Survey
  BY <1>0, <1>12 DEF Survey, SavedNames, transaction
<1>13. CASE Begin \/ Commit
  BY <1>0, <1>13 DEF Begin, Commit, session, SavedNames, NoTables
<1>14. CASE Rollback
  <2>1. Current(known', tables')  BY <1>0, <1>14, PutCurrent DEF Rollback, SavedNames
  <2>2. SavedNames'  BY <1>14 DEF Rollback, SavedNames, NoTables
  <2> QED  BY <2>1, <2>2
<1>15. CASE UNCHANGED vars
  BY <1>0, <1>15 DEF vars, session, transaction, SavedNames
<1>16. CASE \E n \in Public : DropRelation(n)
  <2>1. Public \subseteq Names  BY DEF Public, Names, Parts
  <2> QED  BY <1>0, <1>6, <1>16, <2>1 DEF DropRelation
<1>17. ASSUME NEW r \in Relations, NEW b \in Bodies, CreateTableAs(r, b) \/ LoadParquet(r, b)
       PROVE  CatalogInv'
  BY <1>0, <1>1, <1>5, <1>6, <1>17 DEF CreateTableAs, LoadParquet
<1> QED
  BY <1>7, <1>8, <1>9, <1>10, <1>11, <1>12, <1>13, <1>14, <1>15, <1>16, <1>17 DEF Next, Host

(* The identifiers statements resolve against are those of the tables and   *)
(* views registered: no replacement, drop, half-made definition or rollback *)
(* leaves a name behind or loses one another table still carries.           *)
THEOREM KnownStaysCurrent == Spec => []KnownIsCurrent
<1>1. Init => CatalogInv
  BY DEF Init, CatalogInv, Current, SavedNames, NoTables
<1>2. CatalogInv => KnownIsCurrent
  BY DEF CatalogInv, Current, KnownIsCurrent
<1> QED  BY <1>1, <1>2, CatalogStep, PTL DEF Spec
-----------------------------------------------------------------------------
(* Transactions *)

(* A registration touches only names it counts as registered. *)
LEMMA RegisteringCanUndo ==
  ASSUME CanUndo, NEW ns \in SUBSET Names, Registers(ns),
         open' = open, before' = before, txn' = txn,
         \A n \in Names \ ns : tables'[n] = tables[n]
  PROVE  CanUndo'
BY DEF CanUndo, Registers, Over

(* Saving the first binding of each name bound keeps what a rollback would  *)
(* put back what the transaction began with.                                *)
LEMMA SavingCanUndo ==
  ASSUME CanUndo, NEW ns \in SUBSET Names, NEW ms \in SUBSET Names, NEW was,
         \A n \in Names \ ms : was[n] = tables[n],
         txn' = Saved(txn, was, ns),
         open' = open, before' = before,
         open => registered \cup ms \subseteq registered',
         \A n \in Names \ (ns \cup ms) : tables'[n] = tables[n]
  PROVE  CanUndo'
BY DEF CanUndo, Saved, SavedFirst, Over

(* Every operation leaves an open transaction able to be undone. *)
LEMMA CanUndoStep == CanUndo /\ [Next]_vars => CanUndo'
<1> SUFFICES ASSUME CanUndo, [Next]_vars
             PROVE  CanUndo'
  OBVIOUS
<1>1. ASSUME NEW k, NEW n \in Names, NEW b, Bind(k, n, b)
      PROVE  CanUndo'
  <2>1. /\ txn' = Saved(txn, tables, {n}) /\ open' = open
        /\ before' = before /\ registered' = registered
        /\ \A m \in Names \ {n} : tables'[m] = tables[m]
    BY <1>1 DEF Bind, Put, One, Over, history
  <2>2. {n} \in SUBSET Names /\ {} \in SUBSET Names  OBVIOUS
  <2>3. /\ \A m \in Names \ {} : tables[m] = tables[m]
        /\ open => registered \cup {} \subseteq registered'
        /\ \A m \in Names \ ({n} \cup {}) : tables'[m] = tables[m]
    BY <2>1
  <2> HIDE DEF CanUndo
  <2> QED  BY <2>1, <2>2, <2>3, SavingCanUndo
<1>2. ASSUME NEW r \in Relations, NEW b \in Bodies, RegisterView(r, b) \/ RegisterRows(r, b)
      PROVE  CanUndo'
  <2>1. {Part(r, "public")} \in SUBSET Names  BY DEF Part, Names, Parts
  <2>2. /\ Registers({Part(r, "public")}) /\ open' = open /\ before' = before /\ txn' = txn
        /\ \A n \in Names \ {Part(r, "public")} : tables'[n] = tables[n]
    BY <1>2 DEF RegisterView, RegisterRows, Put, One, Over, transaction
  <2> QED  BY <2>1, <2>2, RegisteringCanUndo
<1>3. ASSUME NEW r \in Relations, NEW b \in Bodies, FactsFail(r, b)
      PROVE  CanUndo'
  <2> DEFINE ns == {r} \X (Parts \ {"public"})
  <2>1. ns \in SUBSET Names  BY DEF Names
  <2>2. PICK upto \in {{"raw"}, {"raw", "hot"}, {"raw", "hot", "union"}} :
          tables' = Over(tables, Made(r, b, upto))
    BY <1>3 DEF FactsFail, Put
  <2>3. \A n \in Names \ ns : tables'[n] = tables[n]
    BY <2>2 DEF Over, Made, Parts
  <2>4. Registers(ns) /\ open' = open /\ before' = before /\ txn' = txn
    BY <1>3 DEF FactsFail, transaction
  <2> QED  BY <2>1, <2>3, <2>4, RegisteringCanUndo
<1>4. ASSUME NEW r \in Relations, NEW b \in Bodies, NEW hot \in BOOLEAN, RegisterFacts(r, b, hot)
      PROVE  CanUndo'
  <2> DEFINE ms == {r} \X Parts
             parts == Made(r, b, IF hot THEN {"raw", "hot", "union"} ELSE {"raw"})
             shown == Over(Over(tables, parts), One(Part(r, "public"), [kind |-> "view", body |-> b]))
             gone == {n \in BoundIn(shown) : Hidden(n)}
             dropped == [n \in gone |-> Unbound]
  <2>1. ms \in SUBSET Names /\ gone \in SUBSET Names  BY DEF Names, BoundIn
  <2>2. \A n \in Names \ ms : shown[n] = tables[n]
    BY DEF Over, Made, One, Part, Parts
  <2>3. /\ tables' = Over(shown, dropped) /\ txn' = Saved(txn, shown, gone)
        /\ open' = open /\ before' = before /\ Registers(ms)
    BY <1>4 DEF RegisterFacts
  <2> HIDE DEF ms, shown, gone
  <2>4. \A n \in Names \ (gone \cup ms) : tables'[n] = tables[n]
    BY <2>2, <2>3 DEF Over
  <2>5. open => registered \cup ms \subseteq registered'  BY <2>3 DEF Registers
  <2> QED  BY <2>1, <2>2, <2>3, <2>4, <2>5, SavingCanUndo
<1>5. CASE Plans \/ Survey \/ UNCHANGED vars
  BY <1>5 DEF Plans, Survey, vars, session, transaction, history, CanUndo, Over
<1>6. CASE Begin
  BY <1>6 DEF Begin, CanUndo, Over, NoTables, session
<1>7. CASE Commit \/ Rollback
  BY <1>7 DEF Commit, Rollback, CanUndo
<1>8. CASE \E n \in Public : DropRelation(n)
  <2>1. Public \subseteq Names  BY DEF Public, Names, Parts
  <2> QED  BY <1>1, <1>8, <2>1 DEF DropRelation
<1>9. ASSUME NEW r \in Relations, NEW b \in Bodies, CreateTableAs(r, b) \/ LoadParquet(r, b)
      PROVE  CanUndo'
  <2>1. Part(r, "public") \in Names  BY DEF Part, Names, Parts
  <2> QED  BY <1>1, <1>9, <2>1 DEF CreateTableAs, LoadParquet
<1> QED  BY <1>2, <1>3, <1>4, <1>5, <1>6, <1>7, <1>8, <1>9 DEF Next, Host

(* What an open transaction would put back is what it began with, for every *)
(* name no registration has touched meanwhile.                              *)
THEOREM TransactionsCanUndo == Spec => []CanUndo
<1>1. Init => CanUndo  BY DEF Init, CanUndo
<1> QED  BY <1>1, CanUndoStep, PTL DEF Spec

(* And so a rollback leaves each of those names bound to what it was bound  *)
(* to when the transaction began, or unbound if it was not bound then.      *)
THEOREM RollbackUndoes ==
  Spec => [][Rollback => \A n \in Names \ registered : tables'[n] = before[n]]_vars
<1>1. CanUndo /\ [Next]_vars
        => [Rollback => \A n \in Names \ registered : tables'[n] = before[n]]_vars
  BY DEF CanUndo, Rollback, Put
<1> QED  BY <1>1, TransactionsCanUndo, PTL DEF Spec
=============================================================================
