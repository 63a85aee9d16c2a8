------------------------------ MODULE SharedPlans ------------------------------
(***************************************************************************)
(* sharing.rs, as plans: an aliased subquery over an aggregate that occurs *)
(* more than once is defined once beside the statement, and read by name   *)
(* where it occurred.  Repeats inside repeats come first, a layer at a     *)
(* time.  A rule that runs after this one runs over each definition, those *)
(* inside first, and a reference takes the columns the rule gave its       *)
(* definition before the rule reaches who reads it.  What readers of one   *)
(* definition see of its rows is module Sharing.                           *)
(***************************************************************************)
EXTENDS CheckedRule

XsOf(s) == [i \in DOMAIN s |-> s[i].x]
ExprsOf(p) ==
  XsOf(p.xs) \o XsOf(p.keys) \o XsOf(p.o) \o <<p.pred>> \o InTurn([i \in DOMAIN p.on |-> <<p.on[i].l, p.on[i].r>>])
RECURSIVE Nested(_)
Nested(x) == x.s \o InTurn([i \in DOMAIN x.a |-> Nested(x.a[i])])
\* A node's subqueries, which are visited before its inputs.
SubqueriesOf(p) == LET xs == ExprsOf(p) IN InTurn([i \in DOMAIN xs |-> Nested(xs[i])])
Beside(p) == SubqueriesOf(p) \o p.in

\* Each plan of `from`, wherever it is met from the top, by the one of `to`.
RECURSIVE Swap(_, _, _), SwapX(_, _, _)
SwapX(x, from, to) ==
  [x EXCEPT !.a = [i \in DOMAIN x.a |-> SwapX(x.a[i], from, to)], !.s = [i \in DOMAIN x.s |-> Swap(x.s[i], from, to)]]
SwapXs(xs, from, to) == [i \in DOMAIN xs |-> [n |-> xs[i].n, x |-> SwapX(xs[i].x, from, to)]]
Swap(p, from, to) ==
  IF p \in ToSet(from) THEN to[IndexOf(p, from)]
  ELSE [p EXCEPT !.in = [i \in DOMAIN p.in |-> Swap(p.in[i], from, to)], !.xs = SwapXs(@, from, to),
                 !.keys = SwapXs(@, from, to), !.pred = SwapX(@, from, to)]

-----------------------------------------------------------------------------
\* Worth sharing: over an aggregate, so that what is kept is bounded; not correlated;
\* not shared yet, nor a window that a filter above may still turn into an aggregate.
RECURSIVE Aggregating(_), OuterX(_), IsCorrelated(_), Under(_)
Aggregating(p) == p.op = "group" \/ \E i \in DOMAIN p.in : Aggregating(p.in[i])
OuterX(x) == x.e = "out" \/ \E i \in DOMAIN x.a : OuterX(x.a[i])
IsCorrelated(p) == (\E x \in ToSet(ExprsOf(p)) : OuterX(x)) \/ \E i \in DOMAIN p.in : IsCorrelated(p.in[i])
Under(p) == IF p.op \in {"alias", "project"} THEN Under(p.in[1]) ELSE p
IsCandidate(q) == Aggregating(q) /\ ~IsCorrelated(q) /\ Under(q).op \notin {"window", "shared"}

\* The candidates of a plan, as often as they occur.
RECURSIVE Found(_), HoldsOneOf(_, _)
Found(p) ==
  InTurn([i \in DOMAIN Beside(p) |-> Found(Beside(p)[i])])
    \o IF p.op = "alias" /\ IsCandidate(p.in[1]) THEN <<p>> ELSE <<>>
Repeated(found) ==
  {q.in[1] : q \in {r \in ToSet(found) : Cardinality({i \in DOMAIN found : found[i].in = r.in}) >= 2}}
HoldsOneOf(p, plans) ==
  (p.op = "alias" /\ p.in[1] \in plans) \/ \E i \in DOMAIN Beside(p) : HoldsOneOf(Beside(p)[i], plans)
InnermostOf(found, repeated) ==
  SelectSeq(found, LAMBDA a : a.in[1] \in repeated /\ ~HoldsOneOf(a.in[1], repeated))
InnermostRepeats(p) == InnermostOf(Found(p), Repeated(Found(p)))

SharedIds == <<"shared 1", "shared 2", "shared 3", "shared 4">>
InputsOf(aliases) == Firsts([i \in DOMAIN aliases |-> aliases[i].in[1]])
MarkedAlias(a, id) == Alias(a.t, Marked("shared", id, 0, a.in[1]))
MarkThem(p, aliases, inputs, n) ==
  Swap(p, aliases, [i \in DOMAIN aliases |-> MarkedAlias(aliases[i], SharedIds[n + IndexOf(aliases[i].in[1], inputs)])])
\* The repeats marked, innermost first, one layer a pass; n of them are already.
RECURSIVE MarkRepeats(_, _), MarkLayer(_, _, _)
MarkLayer(p, aliases, n) ==
  IF aliases = <<>> THEN p
  ELSE MarkRepeats(MarkThem(p, aliases, InputsOf(aliases), n), n + Len(InputsOf(aliases)))
MarkRepeats(p, n) == MarkLayer(p, InnermostRepeats(p), n)

-----------------------------------------------------------------------------
RECURSIVE MarkedIn(_), Hoist(_, _)
MarkedIn(p) ==
  InTurn([i \in DOMAIN Beside(p) |-> MarkedIn(Beside(p)[i])]) \o IF p.op = "shared" THEN <<p>> ELSE <<>>
ReferenceTo(id, def) == Reference(id, Schema(def), TypesOf(def))
WithDefs(defs, body) ==
  IF defs = <<>> THEN body
  ELSE WithDefinitions([i \in DOMAIN defs |-> defs[i].id], [i \in DOMAIN defs |-> defs[i].def], body)
\* Bottom up, so that a definition holds references to those inside it, and comes
\* after them.
HoistOne(p, m, defs) ==
  Hoist(Swap(p, <<m>>, <<ReferenceTo(m.t, m.in[1])>>), Append(defs, [id |-> m.t, def |-> m.in[1]]))
Hoist(p, defs) == IF MarkedIn(p) = <<>> THEN WithDefs(defs, p) ELSE HoistOne(p, MarkedIn(p)[1], defs)

ShareRepeats(p) == Hoist(MarkRepeats(p, 0), <<>>)

-----------------------------------------------------------------------------
\* What a rule of the analyzer sees of a statement: its definitions, then itself.
DefsOf(p) == IF p.op = "defs" THEN [i \in DOMAIN p.cols |-> [id |-> p.cols[i], def |-> p.in[i]]] ELSE <<>>
BodyOf(p) == IF p.op = "defs" THEN Last(p.in) ELSE p

\* DataFusion's coercion, the rule that meets the types the checked sums changed:
\* the arms of a union take the widest type of each column.
Widened(x, from, to) == IF from = to THEN x ELSE Fn("widen", <<x>>)
ArmWidened(arm, from, to) ==
  IF from = to THEN arm
  ELSE Project([i \in DOMAIN to |-> Named(Schema(arm)[i], Widened(Col(Schema(arm)[i]), from[i], to[i]))], arm)
WidestOf(types) == [i \in DOMAIN types[1] |-> Wider({types[j][i] : j \in DOMAIN types})]
CoercedUnion(arms, types) ==
  Union([j \in DOMAIN arms |-> ArmWidened(arms[j], types[j], WidestOf(types))])
RECURSIVE Coerced(_), CoercedX(_)
CoercedX(x) ==
  [x EXCEPT !.a = [i \in DOMAIN x.a |-> CoercedX(x.a[i])], !.s = [i \in DOMAIN x.s |-> Coerced(x.s[i])]]
CoercedNode(p) ==
  IF p.op = "union" THEN CoercedUnion(p.in, [j \in DOMAIN p.in |-> TypesOf(p.in[j])])
  ELSE [p EXCEPT !.xs = [i \in DOMAIN p.xs |-> Named(p.xs[i].n, CoercedX(p.xs[i].x))], !.pred = CoercedX(@)]
Coerced(p) == CoercedNode([p EXCEPT !.in = [i \in DOMAIN p.in |-> Coerced(p.in[i])]])

\* A definition, or the statement, while a rule runs over all of them: `was` is the
\* reference its readers hold.
InWork(d) == [id |-> d.id, def |-> d.def, was |-> ReferenceTo(d.id, d.def)]
BodyInWork(body) == [id |-> "body", def |-> body, was |-> ReferenceTo("body", body)]
AllInWork(p) == Append([i \in DOMAIN DefsOf(p) |-> InWork(DefsOf(p)[i])], BodyInWork(BodyOf(p)))
Refreshed(d, old, new) == [d EXCEPT !.def = Swap(@, <<old>>, <<new>>)]
RECURSIVE OverEach(_, _)
OverNext(done, later, d, def) ==
  OverEach(Append(done, [id |-> d.id, def |-> def]),
           [i \in DOMAIN later |-> Refreshed(later[i], d.was, ReferenceTo(d.id, def))])
OverEach(done, later) ==
  IF later = <<>> THEN done ELSE OverNext(done, Tail(later), Head(later), Coerced(Head(later).def))
OverAll(all) == WithDefs(Front(all), Last(all).def)
OverShared(p) == OverAll(OverEach(<<>>, AllInWork(p)))
=============================================================================
