------------------------------ MODULE TextNumbers ------------------------------
(***************************************************************************)
(* Text read as a number: DuckDB's grammar (src/df/wide.rs, duck_number),  *)
(* the casts that go round Arrow's parser (src/df/fastcast.rs), and the    *)
(* exact source of a cast that a sum reads instead of it (checked.rs,      *)
(* ExactWide).  A text is a sequence of characters.                        *)
(***************************************************************************)
EXTENDS Limbs

CONSTANT MaxExponent  \* an exponent beyond it is no number, 2^31 - 1

DecimalMost == 10^Precision - 1
Decimals == <<"0", "1", "2", "3", "4", "5", "6", "7", "8", "9">>
Hexes == Decimals \o <<"a", "b", "c", "d", "e", "f">>
DigitIn(digits, c) == CHOOSE i \in 0..(Len(digits) - 1) : digits[i + 1] = c
IsDigit(c) == c \in ToSet(Decimals)
DigitsOf(t) == LET d == SelectSeq(t, LAMBDA c : c # "_") IN [i \in DOMAIN d |-> DigitIn(Decimals, d[i])]

NotANumber == [kind |-> "none"]
From(t, i) == SubSeq(t, i, Len(t))

Trimmed(s) ==
  LET mark == {i \in DOMAIN s : s[i] # " "} IN
  IF mark = {} THEN <<>>
  ELSE LET first == CHOOSE i \in mark : \A j \in mark : i <= j
           last == CHOOSE i \in mark : \A j \in mark : i >= j
       IN SubSeq(s, first, last)

\* The text before and after the first of some marks.
Cut(t, marks) ==
  LET at == {i \in DOMAIN t : t[i] \in marks} IN
  IF at = {} THEN [found |-> FALSE, before |-> t, after |-> <<>>]
  ELSE LET i == CHOOSE i \in at : \A j \in at : i <= j
       IN [found |-> TRUE, before |-> SubSeq(t, 1, i - 1), after |-> From(t, i + 1)]

\* Digits with single underscores between them, or nothing.
Part(t) ==
  t = <<>> \/ /\ t[1] # "_" /\ Last(t) # "_"
              /\ \A i \in DOMAIN t : IsDigit(t[i]) \/ (t[i] = "_" /\ t[i + 1] # "_")

Signed(t) == t # <<>> /\ t[1] \in {"-", "+"}
Number(digits) == FoldLeft(LAMBDA n, d : IF n > MaxExponent THEN n ELSE n * 10 + d, 0, digits)

Unsigned(t) == IF Signed(t) THEN Tail(t) ELSE t
Negative(t) == t # <<>> /\ t[1] = "-"
Exponent(p) == IF Negative(p) THEN -Number(DigitsOf(Unsigned(p))) ELSE Number(DigitsOf(Unsigned(p)))

\* duck_number: digits, then zeros more of them, plus one if it rounds up.
Figures(neg, all, point) ==
  [kind |-> "number", neg |-> neg, zeros |-> IF point >= 0 THEN point ELSE 0,
   digits |-> IF point >= 0 THEN all ELSE SubSeq(all, 1, Len(all) + point),
   up |-> point < 0 /\ -point <= Len(all) /\ all[Len(all) + point + 1] >= 5]

WithPoint(neg, m, exponent) ==
  IF (m.before = <<>> /\ m.after = <<>>) \/ ~Part(m.before) \/ ~Part(m.after) THEN NotANumber
  ELSE Figures(neg, DigitsOf(m.before \o m.after), exponent - Len(DigitsOf(m.after)))

WithExponent(neg, cut) ==
  IF cut.found /\ (Unsigned(cut.after) = <<>> \/ ~Part(Unsigned(cut.after))
                     \/ Absolute(Exponent(cut.after)) > MaxExponent)
  THEN NotANumber
  ELSE WithPoint(neg, Cut(cut.before, {"."}), Exponent(cut.after))

NumberIn(t) == IF t = <<>> THEN NotANumber ELSE WithExponent(Negative(t), Cut(Unsigned(t), {"e", "E"}))
DuckNumber(s) == NumberIn(Trimmed(s))

-----------------------------------------------------------------------------
\* A magnitude of limbs digit by digit; past its limbs it is none.
Shifted(mag, d) ==
  IF mag = NoWide THEN NoWide
  ELSE LET r == MulSmallAdd(mag, 10, d) IN IF r.over THEN NoWide ELSE r.mag
Incremented(mag) ==
  IF mag = NoWide THEN NoWide
  ELSE LET r == MulSmallAdd(mag, 1, 1) IN IF r.over THEN NoWide ELSE r.mag

RECURSIVE Scaled(_, _)
Scaled(mag, zeros) ==
  IF zeros = 0 \/ mag = NoWide \/ mag = Zeros(Len(mag)) THEN mag ELSE Scaled(Shifted(mag, 0), zeros - 1)

\* parse_integer: no number is NULL, one past the limbs an error.
RoundedUp(up, mag) == IF up THEN Incremented(mag) ELSE mag
Parsed(neg, mag, n) ==
  IF mag = NoWide \/ FromMagnitude(neg /\ mag # Zeros(n), mag) = NoWide THEN [kind |-> "error"]
  ELSE [kind |-> "value", v |-> WideValue(FromMagnitude(neg /\ mag # Zeros(n), mag))]
ParsedNumber(d, n) ==
  IF d = NotANumber THEN [kind |-> "null"]
  ELSE Parsed(d.neg, RoundedUp(d.up, Scaled(FoldLeft(Shifted, Zeros(n), d.digits), d.zeros)), n)
ParseInteger(s, n) == ParsedNumber(DuckNumber(s), n)

\* duck_int: the same in a word of checked operations; without one it has no value.
WordMost == WordHalf - 1
InWord(v) == IF v = NoWord \/ Absolute(v) > WordMost THEN NoWord ELSE v
Tenfold(v, d) == IF v = NoWord \/ v > WordMost \div 10 THEN NoWord ELSE InWord(v * 10 + d)
RECURSIVE ScaledInt(_, _)
ScaledInt(v, zeros) == IF zeros = 0 \/ v \in {0, NoWord} THEN v ELSE ScaledInt(Tenfold(v, 0), zeros - 1)

RoundedInt(up, v) == IF up /\ v # NoWord THEN InWord(v + 1) ELSE v
WithSign(d, v) == IF d.neg /\ v # NoWord THEN -v ELSE v
IntOf(d) ==
  IF d = NotANumber THEN NoWord
  ELSE WithSign(d, RoundedInt(d.up, ScaledInt(FoldLeft(Tenfold, 0, d.digits), d.zeros)))
DuckInt(s) == IntOf(DuckNumber(s))

InDecimal(v) == IF v # NoWord /\ Absolute(v) <= DecimalMost THEN v ELSE NoWord
DuckDecimal(s) == InDecimal(DuckInt(s))

InHugeint(r) == IF r.kind = "value" THEN ToWord(FromWord(r.v, 3)) ELSE NoWord
DuckHugeint(s) == InHugeint(ParseInteger(s, 3))

\* The common case: an optional minus and at most so many significant digits.
PlainValue(neg, digits) ==
  LET v == FoldLeft(LAMBDA n, d : (n * 10 + d) % Limb^2, 0, DigitsOf(digits)) IN IF neg THEN -v ELSE v
MinusOff(s) == IF Negative(s) THEN Tail(s) ELSE s
AllDigits(t) == t # <<>> /\ \A i \in DOMAIN t : IsDigit(t[i])
Significant(digits) ==
  Cardinality({i \in DOMAIN digits : \E j \in 1..i : digits[j] # "0"})

PlainAnyLength(s) == IF AllDigits(MinusOff(s)) THEN PlainValue(Negative(s), MinusOff(s)) ELSE NoWord
Plain(s) ==
  IF AllDigits(MinusOff(s)) /\ Significant(MinusOff(s)) <= Precision
  THEN PlainValue(Negative(s), MinusOff(s)) ELSE NoWord

-----------------------------------------------------------------------------
\* 0x and 0b: not prefixed, prefixed but no number, or the value.
InRadix(radix, bits) ==
  FoldLeft(LAMBDA n, c : IF n >= Limb^2 THEN n ELSE n * radix + DigitIn(Hexes, c), 0, bits)
Malformed(radix, digits) ==
  \/ digits = <<>> \/ digits[1] = "_" \/ Last(digits) = "_"
  \/ \E i \in DOMAIN digits : digits[i] # "_" /\ digits[i] \notin ToSet(SubSeq(Hexes, 1, radix))
Read(v) == [kind |-> "value", v |-> v]
Below(v, most) == IF v >= most THEN [kind |-> "malformed"] ELSE Read(v)
InDigits(radix, digits) ==
  IF Malformed(radix, digits) THEN [kind |-> "malformed"]
  ELSE Below(InRadix(radix, SelectSeq(digits, LAMBDA c : c # "_")), Limb^2)
PrefixedIn(t) ==
  IF Len(t) < 2 \/ t[1] # "0" \/ t[2] \notin {"x", "b"} THEN [kind |-> "no"]
  ELSE InDigits(IF t[2] = "x" THEN 16 ELSE 2, From(t, 3))
Prefixed(s) == PrefixedIn(Trimmed(s))

OrFails(safe) == [kind |-> IF safe THEN "null" ELSE "error"]

\* TextToInt: [TRY_]CAST(text AS an integer type).
IntIn(p, s) == IF p.kind = "no" THEN DuckInt(s) ELSE IF p.kind = "value" THEN p.v ELSE NoWord
Within(v, least, most, else) == IF v # NoWord /\ least <= v /\ v <= most THEN Read(v) ELSE else
TextToInt(s, least, most, safe) == Within(IntIn(Prefixed(s), s), least, most, OrFails(safe))

\* TextToDecimal: [TRY_]CAST(text AS DECIMAL), or as HUGEINT, whose longer numbers
\* refuse rather than read as NULL.
DecimalOr(v, s) == IF v # NoWord THEN v ELSE DuckDecimal(s)
FitsHugeint(s) == DuckHugeint(s) # NoWord
DecimalRead(v, s, safe, hugeint) ==
  IF v # NoWord THEN Read(v)
  ELSE IF hugeint /\ FitsHugeint(s) THEN [kind |-> "error"] ELSE OrFails(safe)
TextToDecimal(s, safe, hugeint) == DecimalRead(DecimalOr(Plain(s), s), s, safe, hugeint)

\* HugeintSource: passes text on, or refuses it; and whether the cast is not NULL.
SourceRefuses(s) == Plain(s) = NoWord /\ DuckDecimal(s) = NoWord /\ FitsHugeint(s)

\* ExactWide: the value a cast read, without the cast's range.
ExactOf(p, s) ==
  CASE p.kind = "value" -> p [] p.kind = "malformed" -> [kind |-> "null"] [] OTHER -> ParseInteger(s, 5)
ExactWide(s, hex) == IF hex THEN ExactOf(Prefixed(s), s) ELSE ParseInteger(s, 5)

NullOr(v) == IF v = NoWord THEN [kind |-> "null"] ELSE Read(v)
ExactHugeint(s) == NullOr(DuckHugeint(s))

\* literal_as: a constant compared with an integer column, cast once.
LiteralAs(s, least, most) ==
  Within(IntIn(Prefixed(s), s), least, IF most < WordMost THEN most ELSE WordMost, [kind |-> "null"])

-----------------------------------------------------------------------------
(* What a text stands for, by the grammar alone: a sign, digits, a         *)
(* fraction, an exponent, rounded half away from zero.                     *)
Far == Limb^5
RECURSIVE Times10(_, _)
Times10(n, k) == IF k = 0 \/ n = 0 \/ n >= Far THEN n ELSE Times10(n * 10, k - 1)

\* The parts a number may be cut into, and the cuts that are grammatical.
Cuts(body) ==
  {[int |-> SubSeq(body, 1, i), frac |-> SubSeq(body, i + 2, j), dot |-> i < j, exp |-> From(body, j + 2)] :
     i \in 0..Len(body), j \in {j \in 0..Len(body) : j = Len(body) \/ body[j + 1] = "e"}}
Grammatical(x, body) ==
  /\ Len(x.int) + Len(x.frac) + Len(x.exp) + (IF x.dot THEN 1 ELSE 0) + (IF x.exp = <<>> THEN 0 ELSE 1) = Len(body)
  /\ x.dot => body[Len(x.int) + 1] = "."
  /\ x.int # <<>> \/ x.frac # <<>>
  /\ Part(x.int) /\ Part(x.frac) /\ Part(Unsigned(x.exp)) /\ (x.exp # <<>> => Unsigned(x.exp) # <<>>)
  /\ Number(DigitsOf(Unsigned(x.exp))) <= MaxExponent

Rounding(m, k) ==
  IF k >= 0 THEN Times10(m, k) ELSE IF -k > 7 THEN 0 ELSE (2 * m + 10^(-k)) \div (2 * 10^(-k))
ValueOfCut(x) ==
  Rounding(FoldLeft(LAMBDA n, d : IF n >= Far THEN n ELSE n * 10 + d, 0, DigitsOf(x.int \o x.frac)),
           Exponent(x.exp) - Len(DigitsOf(x.frac)))

MeantBy(neg, body) ==
  IF ~\E x \in Cuts(body) : Grammatical(x, body) THEN NotANumber
  ELSE LET v == ValueOfCut(CHOOSE x \in Cuts(body) : Grammatical(x, body)) IN
       [kind |-> "number", v |-> IF neg THEN -v ELSE v]
Meaning(s) == LET t == Trimmed(s) IN MeantBy(Negative(t), Unsigned(t))

MeantWithin(m, least, most, safe) ==
  IF m # NotANumber /\ least <= m.v /\ m.v <= most THEN Read(m.v) ELSE OrFails(safe)
ReadsAs(s, m) ==
  /\ \A safe \in BOOLEAN :
       /\ TextToDecimal(s, safe, FALSE) = MeantWithin(m, -DecimalMost, DecimalMost, safe)
       /\ Prefixed(s).kind = "no" => TextToInt(s, -8, 7, safe) = MeantWithin(m, -8, 7, safe)
  /\ FitsHugeint(s) = (m # NotANumber /\ FitsWide(m.v, 2))
  /\ m # NotANumber => ParseInteger(s, 5) = IF FitsWide(m.v, 5) THEN Read(m.v) ELSE [kind |-> "error"]

\* Each cast answers the number the text stands for, where its type holds it, and
\* NULL, or an error, for every other text.
ReadsTheNumber(s) == ReadsAs(s, Meaning(s))

\* A number is read alike wherever it is met: in the casts' fast path, as the
\* exact value a sum reads behind a cast, as the test of a HUGEINT, as a constant.
Alike(s, try, exact, huge, exactHuge) ==
  /\ Plain(s) # NoWord => Plain(s) = DuckDecimal(s)
  /\ try.kind = "value" => exact = try
  /\ try.kind = "null" /\ exact.kind = "value" => exact.v \notin -8..7
  /\ LiteralAs(s, -8, 7) = try
  /\ huge.kind = "value" => exactHuge = huge /\ ~SourceRefuses(s)
  /\ (huge.kind = "error") = SourceRefuses(s)
  /\ (huge.kind = "null") = ~FitsHugeint(s)
  /\ (exactHuge.kind = "null") = (huge.kind = "null")
ReadsAlike(s) ==
  Alike(s, TextToInt(s, -8, 7, TRUE), ExactWide(s, TRUE), TextToDecimal(s, TRUE, TRUE), ExactHugeint(s))
=============================================================================
