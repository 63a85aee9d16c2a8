------------------------------- MODULE FoldRule -------------------------------
(***************************************************************************)
(* fold.rs: an aggregate that sums a cast text over a UNION ALL of plain   *)
(* projections of nest tables is handed to the owned fold, where the two   *)
(* mean the same.  The rule sees a plan from above; what it has put in     *)
(* place it does not look into.                                            *)
(***************************************************************************)
EXTENDS Plans

CONSTANT NestTables  \* those the fold may read

\* A result is <<>> where there is none, else a sequence of one.
Nowhere == <<>>

Input(p) == p.in[1]

RECURSIVE WithoutAlias(_), StripText(_)
WithoutAlias(p) == IF p.op = "alias" THEN WithoutAlias(Input(p)) ELSE p
StripText(x) == IF x.e = "fn" /\ x.f = "text" THEN StripText(x.a[1]) ELSE x

\* The nest column behind output column i, through aliases and projections.
RECURSIVE BaseColumn(_, _)
BaseColumn(p, i) ==
  CASE p.op = "scan" /\ p.types # <<>> ->
         LET c == p.cols[i][2] IN
         <<[table |-> p.t, col |-> c, null |-> p.types[c].null, kind |-> p.types[c].kind]>>
    [] p.op = "alias" -> BaseColumn(Input(p), i)
    [] p.op = "project" /\ p.xs[i].x.e = "col" ->
         BaseColumn(Input(p), IndexOf(p.xs[i].x.c, Schema(Input(p))))
    [] OTHER -> Nowhere

BranchColumn(x, p) == IF x.e = "col" THEN BaseColumn(p, IndexOf(x.c, Schema(p))) ELSE Nowhere

\* The expression that defines an output column, and the plan it reads.
RECURSIVE Defining(_, _)
Defining(p, i) ==
  CASE p.op = "alias" -> Defining(Input(p), i)
    [] p.op = "project" ->
         LET x == StripText(p.xs[i].x)
             below == IF x.e = "col" /\ Input(p).op \in {"project", "alias"}
                      THEN Defining(Input(p), IndexOf(x.c, Schema(Input(p)))) ELSE Nowhere
         IN IF below # Nowhere THEN below ELSE <<[x |-> x, from |-> Input(p)]>>
    [] OTHER -> Nowhere

-----------------------------------------------------------------------------
\* A part of a key, and the column it reads.
CaseFn(x) == IF x.e = "fn" /\ x.f \in {"lower", "upper"} THEN x.f ELSE ""

ColumnPart(x, base) ==
  IF ~\E b \in ToSet(base) : b.kind \in {"text", "int"} THEN Nowhere
  ELSE <<<<[part |-> Column(base[1].col, CaseFn(x)), base |-> base]>>>>
OnePart(x, p) ==
  IF x.e = "lit" THEN IF x.v = Null THEN Nowhere ELSE <<<<[part |-> Literal(x.v), base |-> Nowhere]>>>>
  ELSE ColumnPart(x, BranchColumn(IF CaseFn(x) = "" THEN x ELSE StripText(x.a[1]), p))

\* All of them, where each is found.
AllFound(found) ==
  IF \E i \in DOMAIN found : found[i] = Nowhere THEN Nowhere
  ELSE <<[i \in DOMAIN found |-> found[i][1]]>>
Chained(found) == IF found = Nowhere THEN Nowhere ELSE <<FlattenSeq(found[1])>>

RECURSIVE RuleParts(_, _)
PartsIn(x, p) ==
  IF x.e = "fn" /\ x.f \in {"||", "concat"}
  THEN Chained(AllFound([i \in DOMAIN x.a |-> RuleParts(x.a[i], p)]))
  ELSE OnePart(x, p)
RuleParts(expr, p) == PartsIn(StripText(expr), p)

\* A signed cast of a column to DECIMAL(38, 0), or of its whole i128.
Magnified(x) == IF x.e = "fn" /\ x.f = "neg" THEN x.a[1] ELSE x
CastSource(x) == x.a[1]
RuleValue(x, p) ==
  LET inner == Magnified(x) IN
  IF inner.e = "fn" /\ inner.f \in {"dec", "try_dec", "huge", "try_huge"}
  THEN BranchColumn(CastSource(inner), p) ELSE Nowhere

SameTable(bases) == \E t \in NestTables : \A b \in bases : b.table = t

\* An arm as the fold reads it, and whether its values may be NULL.
BasesOf(parts) == UNION {UNION {ToSet(parts[i][j].base) : j \in DOMAIN parts[i]} : i \in DOMAIN parts}
ArmOn(parts, value, negated) ==
  IF ~SameTable(BasesOf(parts) \cup {value}) \/ value.kind # "text" THEN Nowhere
  ELSE <<[arm |-> Arm(value.table,
                      [i \in DOMAIN parts |-> [j \in DOMAIN parts[i] |-> parts[i][j].part]],
                      <<Value(value.col, negated, TRUE)>>),
          null |-> value.null]>>
ArmWith(parts, value, negated) ==
  IF parts = Nowhere \/ value = Nowhere THEN Nowhere ELSE ArmOn(parts[1], value[1], negated)

PartsOfKey(def) == IF def = Nowhere THEN Nowhere ELSE RuleParts(def[1].x, def[1].from)
ArmDefined(defs, def) ==
  IF def = Nowhere THEN Nowhere
  ELSE ArmWith(AllFound([i \in DOMAIN defs |-> PartsOfKey(defs[i])]),
               RuleValue(def[1].x, def[1].from), def[1].x # Magnified(def[1].x))
RuleArm(arm, keys, sum) ==
  ArmDefined([i \in DOMAIN keys |-> Defining(arm, keys[i])], Defining(arm, sum))

RECURSIVE FlatUnion(_)
FlatUnion(arms) ==
  FlattenSeq([i \in DOMAIN arms |->
    IF WithoutAlias(arms[i]).op = "union" THEN FlatUnion(WithoutAlias(arms[i]).in) ELSE <<arms[i]>>])

-----------------------------------------------------------------------------
\* A party whose values are all NULL is absent from the fold and NULL in SQL.
AbsenceIsUnseen(arms, filtered) == filtered \/ \A i \in DOMAIN arms : ~arms[i].null

PlainSum(g) ==
  /\ Len(g.xs) = 1 /\ g.xs[1].x.e = "agg" /\ g.xs[1].x.f = "sum"
  /\ ~g.xs[1].x.d /\ g.xs[1].x.k = <<>> /\ g.xs[1].x.o = <<>>
  /\ g.keys # <<>>
  /\ g.xs[1].x.a[1].e = "col" /\ \A i \in DOMAIN g.keys : g.keys[i].x.e = "col"

OwnedFold(g, arms, filtered, dropZero) ==
  IF arms = Nowhere THEN Nowhere
  ELSE IF ~AbsenceIsUnseen(arms[1], filtered) THEN Nowhere
  ELSE <<Owned(Fold([i \in DOMAIN arms[1] |-> arms[1][i].arm],
                    [i \in DOMAIN g.keys |-> g.keys[i].n], <<g.xs[1].n>>, dropZero), Schema(g))>>
ArmsIn(g, flat, cols) ==
  LET at(x) == IndexOf(x.c, cols) IN
  AllFound([i \in DOMAIN flat |->
    RuleArm(flat[i], [j \in DOMAIN g.keys |-> at(g.keys[j].x)], at(g.xs[1].x.a[1]))])
Recognised(g, filtered, dropZero) ==
  IF ~PlainSum(g) \/ WithoutAlias(Input(g)).op # "union" THEN Nowhere
  ELSE OwnedFold(g, ArmsIn(g, FlatUnion(WithoutAlias(Input(g)).in), Schema(Input(g))), filtered, dropZero)

Comparisons == {"=", "<>", "<", "<=", ">", ">="}
Rejects(x) == x.f \in Comparisons

\* `sum <op> literal`: a NULL sum fails it, as an absent party does.
NullRejecting(x, g) ==
  /\ x.e = "fn" /\ Rejects(x)
  /\ Len(g.xs) = 1
  /\ x.a[1].e = "col" /\ x.a[1].c[2] = g.xs[1].n[2]
  /\ x.a[2].e = "lit" /\ x.a[2].v # Null
NonZeroTest(x) == x.f = "<>" /\ x.a[2].v = 0

RECURSIVE FoldSubstitution(_), FoldSubstitutionX(_)
FoldSubstitutionX(x) ==
  [x EXCEPT !.a = [i \in DOMAIN x.a |-> FoldSubstitutionX(x.a[i])],
            !.s = [i \in DOMAIN x.s |-> FoldSubstitution(x.s[i])]]

\* An aggregate, or one whose HAVING rejects an absent sum, with the fold in its place.
Substituted(p) ==
  IF p.op = "group" THEN Recognised(p, FALSE, FALSE)
  ELSE IF p.op = "filter" /\ Input(p).op = "group" /\ NullRejecting(p.pred, Input(p))
  THEN Recognised(Input(p), TRUE, NonZeroTest(p.pred)) ELSE Nowhere
PutInPlace(p, owned) == IF p.op = "group" THEN owned[1] ELSE [p EXCEPT !.in = owned]

FoldBelow(p) ==
  [p EXCEPT !.in = [i \in DOMAIN p.in |-> FoldSubstitution(p.in[i])],
            !.xs = [i \in DOMAIN p.xs |-> [p.xs[i] EXCEPT !.x = FoldSubstitutionX(p.xs[i].x)]],
            !.pred = FoldSubstitutionX(p.pred)]
SubstitutedOr(p, owned) == IF owned # Nowhere THEN PutInPlace(p, owned) ELSE FoldBelow(p)
FoldSubstitution(p) == SubstitutedOr(p, Substituted(p))
=============================================================================
