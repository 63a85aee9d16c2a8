---------------------------- MODULE HostCatalog ----------------------------
(* The names of an engine: the tables and views a nest opens with, the ones *)
(* a host registers or materialises, its transactions over them, and the    *)
(* two caches derived from them (every identifier a statement can mean, and *)
(* the rows of information_schema). df/tables.rs, df/host.rs and the parts  *)
(* of df/mod.rs and df/session.rs they call.                                *)
(*                                                                          *)
(* Every operation takes the engine exclusively (`&mut self`), so each is   *)
(* one step; statements share it and are the steps Plans and Survey. A body *)
(* stands for the rows and the captured plan a name is bound to.            *)
EXTENDS Integers, FiniteSets

CONSTANTS
  Relations,            \* the names a host or a nest may give
  Bodies,               \* what a name may be bound to
  Columns,              \* column names that are not relation names
  ColumnsOf,            \* a body's columns
  Nest,                 \* what each relation is when the engine opens
  NestBody,             \* the body of the relations the nest has
  Failing,              \* the bodies whose definition may fail after it has begun
  Unsealed,             \* the bodies over a relation that has no segment file yet
  RegisterInTransaction \* a host registers inside a transaction too

Parts == {"public", "raw", "hot", "union"}
Names == Relations \X Parts
Public == Relations \X {"public"}
Part(r, p) == <<r, p>>
Hidden(n) == n[2] # "public"
Idents == Names \cup Columns

(* A MemTable, a SegmentTable or a ViewTable. *)
Bindings == [kind : {"table", "segments", "view"}, body : Bodies]
Unbound == [kind |-> "unbound"]
NoTables == [n \in {} |-> Unbound]

ASSUME CatalogAssumption ==
  /\ IsFiniteSet(Relations)
  /\ ColumnsOf \in [Bodies -> SUBSET Idents]
  /\ Nest \in [Relations -> {"absent", "unsealed", "segments", "wide"}]
  /\ NestBody \in Bodies
  /\ Failing \subseteq Bodies /\ Unsealed \subseteq Bodies /\ RegisterInTransaction \in BOOLEAN

VARIABLES
  tables,      \* MiniSession::tables
  known,       \* MiniSession::known: how many tables carry each identifier, once asked
  listed,      \* MiniSession::information_schema, once read
  listsParts,  \* the filter it is built with lets `__hot` and `__union` through
  txn,         \* Engine::txn: what each name touched was bound to
  open,        \* whether Engine::txn is Some
  before,      \* history: the tables when the transaction began
  registered   \* history: names registered since then

session == <<tables, known>>
transaction == <<txn, open>>
history == <<before, registered>>
vars == <<session, listed, listsParts, transaction, history>>

BoundIn(ts) == {n \in Names : ts[n] # Unbound}

(* The identifiers a table or a view brings: its own name and its columns. *)
Carries(n, b) == IF b = Unbound THEN {} ELSE {n} \cup ColumnsOf[b.body]

Unbuilt == [i \in {} |-> 0]
KnownOf(ts) == [i \in Idents |-> Cardinality({n \in Names : i \in Carries(n, ts[n])})]

(* known_names: built when a statement is first planned. *)
Planned(k, ts) == IF k = Unbuilt THEN KnownOf(ts) ELSE k

(* renamed, for each name of `new`: its old table is taken out of the       *)
(* counts and its new one put in.                                           *)
RenamedAddsOnly(k, old, new) ==
  IF k = Unbuilt THEN k
  ELSE [i \in Idents |-> k[i] + Cardinality({n \in DOMAIN new : i \in Carries(n, new[n])})]
Renamed(k, old, new) ==
  IF k = Unbuilt THEN k
  ELSE [i \in Idents |->
          (k[i] + Cardinality({n \in DOMAIN new : i \in Carries(n, new[n])}))
            - Cardinality({n \in DOMAIN new : i \in Carries(n, old[n])})]

One(n, b) == [m \in {n} |-> b]
Over(ts, new) == [n \in Names |-> IF n \in DOMAIN new THEN new[n] ELSE ts[n]]

(* set_table_source and register_table, over a session planned as k says *)
Put(k, new) ==
  /\ tables' = Over(tables, new)
  /\ known' = Renamed(k, tables, new)

(* `entry(name).or_insert(before)` for each name bound in a transaction *)
SavedLast(s, was, ns) == [n \in DOMAIN s \cup ns |-> IF n \in ns THEN was[n] ELSE s[n]]
SavedFirst(s, was, ns) == [n \in DOMAIN s \cup ns |-> IF n \in DOMAIN s THEN s[n] ELSE was[n]]
Saved(s, was, ns) == IF open THEN SavedFirst(s, was, ns) ELSE s

Listing(ts) ==
  {n \in BoundIn(ts) : n[2] = "public" \/ (listsParts /\ n[2] # "raw")}
NotListed == [n \in {} |-> {}]

(* from_tables: `wide` keeps its segments under `__raw` and serves a view. *)
Opened ==
  [n \in Names |->
     CASE n[2] = "public" /\ Nest[n[1]] = "unsealed" -> [kind |-> "table", body |-> NestBody]
       [] n[2] = "public" /\ Nest[n[1]] = "segments" -> [kind |-> "segments", body |-> NestBody]
       [] n[2] = "public" /\ Nest[n[1]] = "wide" -> [kind |-> "view", body |-> NestBody]
       [] n[2] = "raw" /\ Nest[n[1]] = "wide" -> [kind |-> "segments", body |-> NestBody]
       [] OTHER -> Unbound]

Init ==
  /\ tables = Opened
  /\ known = IF \E r \in Relations : Nest[r] = "wide" THEN KnownOf(Opened) ELSE Unbuilt
  /\ listed = NotListed /\ listsParts = TRUE
  /\ txn = NoTables /\ open = FALSE
  /\ before = NoTables /\ registered = {}
-----------------------------------------------------------------------------
MayRegister == RegisterInTransaction \/ ~open
Registers(ns) == registered' = IF open THEN registered \cup ns ELSE {}

(* A statement, or a call refused while it planned: it resolves identifiers. *)
Plans ==
  /\ known' = Planned(known, tables)
  /\ UNCHANGED <<tables, listed, listsParts, transaction, history>>

(* A statement over information_schema: the rows are built at the first. *)
Survey ==
  /\ known' = Planned(known, tables)
  /\ listed' = IF listed = NotListed THEN [n \in Listing(tables) |-> ColumnsOf[tables[n].body]]
                                     ELSE listed
  /\ UNCHANGED <<tables, listsParts, transaction, history>>

(* build_information_schema: forgets the rows and takes the caller's filter. *)
ForgetListing(parts) == listed' = NotListed /\ listsParts' = parts

(* refuse_replacing_a_table: what it takes for a table is a MemTable. *)
Replaces(r) == tables[Part(r, "public")].kind # "table"

RegisterView(r, b) ==
  /\ MayRegister /\ Replaces(r)
  /\ Put(Planned(known, tables), One(Part(r, "public"), [kind |-> "view", body |-> b]))
  /\ ForgetListing(TRUE)
  /\ Registers({Part(r, "public")})
  /\ UNCHANGED <<transaction, before>>

RegisterRows(r, b) ==
  /\ MayRegister
  /\ Put(known, One(Part(r, "public"), [kind |-> "table", body |-> b]))
  /\ ForgetListing(FALSE)
  /\ Registers({Part(r, "public")})
  /\ UNCHANGED <<transaction, before>>

(* The parts of a definition, in the order they are registered; with hot    *)
(* rows the view reads `__union` over the other two.                        *)
Made(r, b, upto) ==
  [n \in {r} \X upto |->
     [kind |-> CASE n[2] = "raw" /\ b \notin Unsealed -> "segments"
                 [] n[2] = "hot" \/ (n[2] = "raw" /\ b \in Unsealed) -> "table"
                 [] OTHER -> "view",
      body |-> b]]

(* register_facts that fails with some parts registered: the hot rows have  *)
(* no columns, the two schemas do not unite, or the view does not plan.     *)
FactsFail(r, b) ==
  /\ b \in Failing /\ MayRegister /\ Replaces(r)
  /\ \/ \E upto \in {{"raw"}, {"raw", "hot"}} : Put(known, Made(r, b, upto))
     \/ \E upto \in {{"raw"}, {"raw", "hot", "union"}} :
          /\ tables' = Over(tables, Made(r, b, upto))
          /\ known' = Planned(Renamed(known, tables, Made(r, b, upto)), tables')
  /\ Registers({r} \X (Parts \ {"public"}))
  /\ UNCHANGED <<listed, listsParts, transaction, before>>

(* register_facts: the parts, the view planned over them, and then every    *)
(* hidden name of every relation dropped, through drop_relation and so      *)
(* through the open transaction.                                            *)
RegisterFacts(r, b, hot) ==
  LET parts == Made(r, b, IF hot THEN {"raw", "hot", "union"} ELSE {"raw"})
      made == Over(tables, parts)
      asked == Planned(Renamed(known, tables, parts), made)
      view == One(Part(r, "public"), [kind |-> "view", body |-> b])
      shown == Over(made, view)
      gone == {n \in BoundIn(shown) : Hidden(n)}
      dropped == [n \in gone |-> Unbound]
  IN /\ MayRegister /\ Replaces(r)
     /\ tables' = Over(shown, dropped)
     /\ known' = Renamed(Renamed(asked, made, view), shown, dropped)
     /\ txn' = Saved(txn, shown, gone)
     /\ ForgetListing(FALSE)
     /\ Registers({r} \X Parts)
     /\ UNCHANGED <<open, before>>
-----------------------------------------------------------------------------
(* Engine::bind *)
Bind(k, n, b) ==
  /\ txn' = Saved(txn, tables, {n})
  /\ Put(k, One(n, b))
  /\ UNCHANGED <<open, listed, listsParts, history>>

CreateTableAs(r, b) ==
  Bind(Planned(known, tables), Part(r, "public"), [kind |-> "table", body |-> b])

LoadParquet(r, b) == Bind(known, Part(r, "public"), [kind |-> "table", body |-> b])

DropRelation(n) == tables[n] # Unbound /\ Bind(known, n, Unbound)

Begin ==
  /\ ~open
  /\ open' = TRUE /\ txn' = NoTables
  /\ before' = tables /\ registered' = {}
  /\ UNCHANGED <<session, listed, listsParts>>

Commit ==
  /\ open
  /\ open' = FALSE /\ txn' = NoTables
  /\ before' = NoTables /\ registered' = {}
  /\ UNCHANGED <<session, listed, listsParts>>

Rollback ==
  /\ open
  /\ Put(known, txn)
  /\ open' = FALSE /\ txn' = NoTables
  /\ before' = NoTables /\ registered' = {}
  /\ UNCHANGED <<listed, listsParts>>
-----------------------------------------------------------------------------
Host ==
  \/ \E r \in Relations, b \in Bodies :
       \/ RegisterView(r, b)
       \/ RegisterRows(r, b)
       \/ FactsFail(r, b)
       \/ \E hot \in BOOLEAN : RegisterFacts(r, b, hot)
       \/ CreateTableAs(r, b)
       \/ LoadParquet(r, b)
  \/ \E n \in Public : DropRelation(n)
  \/ Begin
  \/ Commit
  \/ Rollback

Next == Host \/ Plans \/ Survey
Spec == Init /\ [][Next]_vars
-----------------------------------------------------------------------------
(* The identifiers statements are resolved against, kept up one table at a  *)
(* time through replacements, drops, failed definitions and rollbacks, are  *)
(* what a rebuild from the tables would give: a replaced view's old columns *)
(* are gone, and a name two views carry stays while either does.            *)
KnownIsCurrent == known # Unbuilt => known = KnownOf(tables)

(* What rollback would put back is what the transaction began with, for     *)
(* every name a registration has not touched meanwhile: however often a     *)
(* name is bound, dropped and bound again, its first binding is the one     *)
(* kept, and a name not in the map has not changed.                         *)
CanUndo ==
  open => \A n \in Names \ registered : Over(tables, txn)[n] = before[n]

(* Rollback ("every name the transaction touched goes back to what it was   *)
(* before it"): what it puts back is what the transaction began with.       *)
RollbackRestores == [][Rollback => \A n \in DOMAIN txn : tables'[n] = before[n]]_vars

(* information_schema shows the visible tables as they are. *)
SurveyIsCurrent ==
  listed # NotListed => listed = [n \in Listing(tables) |-> ColumnsOf[tables[n].body]]
=============================================================================
