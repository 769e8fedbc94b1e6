-------------------------- MODULE FormatFunctions --------------------------
(***************************************************************************)
(* What the documentation of format strings (fmt.ixx, line 13) promises,   *)
(* and tests/fmt.cpp where it says more, or other things: numbers without  *)
(* an alignment go to the right (538), separators are commas (166), floats *)
(* without a type have no point that they do not need (340).  For the      *)
(* parser of fields: a format string is a sequence of pieces; what stands  *)
(* between its braces is divided by the general form                       *)
(*     [[fill]align][sign][#][0][width][.precision][type]                  *)
(* into parts, each as long as it can be.  For the functions which write a *)
(* value: its sign and prefix, what is put between them and the digits,    *)
(* and the padding up to the width.  Where the code does something else,   *)
(* or the documentation and a test contradict each other, the inputs have  *)
(* a name, and nothing is said of what becomes of them.                    *)
(***************************************************************************)
EXTENDS Formatting, Calls

CONSTANTS Families,       \* format strings: how they start, and up to max characters of chars
          ArgumentLists,  \* sequences of arguments
          WrittenNumbers, WrittenStrings, Floats,  \* floats are pairs of n and e
          Paddings,       \* records of Fill, Align and Width
          Precisions, Significands

\* The brace that closes the one at p.
ClosedAt(s, p) ==
    LET depth(q) == Cardinality({i \in p..q : At(s, i) = Open}) - Cardinality({i \in p..q : At(s, i) = Close})
    IN  {q \in p + 1..Len(s) - 1 : depth(q) = 0 /\ \A i \in p..q - 1 : depth(i) > 0}

\* The pieces from p on: characters, fields and styles, and what is none of them.
RECURSIVE Pieces(_, _)
Pieces(s, p) ==
    LET double == p + 1 < Len(s) /\ At(s, p + 1) = At(s, p)
        q == Min(ClosedAt(s, p))
        kind == IF Char(s, p + 1) = 33 THEN "style" ELSE "field"
        from == IF kind = "style" THEN p + 2 ELSE p + 1
        piece(k, text, next) == <<[kind |-> k, text |-> text]>> \o Pieces(s, next)
    IN  IF p >= Len(s) THEN <<>>
        ELSE IF At(s, p) \notin {Open, Close} THEN piece("chr", <<At(s, p)>>, p + 1)
        ELSE IF double THEN piece("chr", <<At(s, p)>>, p + 2)
        ELSE IF At(s, p) = Open /\ ClosedAt(s, p) # {} THEN piece(kind, SubSeq(s, from + 1, q), q + 1)
        ELSE <<[kind |-> "bad", text |-> <<>>]>>

Digit == 48..57
Aligns == {60, 62, 61, 94}
IsNumber(t) == t # <<>> /\ Range(t) \subseteq Digit
IsIndex(t) == Len(t) >= 2 /\ t[1] = Open /\ Last(t) = Close /\ Range(SubSeq(t, 2, Len(t) - 1)) \subseteq Digit

\* The last part takes what is left.
PartNames == <<"id", "colon", "align", "sign", "hash", "zero", "width", "precision", "type">>
IsPart(name, t) ==
    \/ t = <<>>
    \/ CASE name = "id"        -> IsNumber(t)
         [] name = "colon"     -> t = <<Colon>>
         [] name = "align"     -> Len(t) <= 2 /\ Last(t) \in Aligns /\ (Len(t) = 2 => t[1] \notin {Open, Close})
         [] name = "sign"      -> t \in {<<Plus>>, <<Minus>>, <<Space>>}
         [] name = "hash"      -> t = <<35>>
         [] name = "zero"      -> t = <<Zero>>
         [] name = "width"     -> IsNumber(t) \/ IsIndex(t)
         [] name = "precision" -> t[1] = Dot /\ (IsNumber(Tail(t)) \/ IsIndex(Tail(t)))
         [] name = "type"      -> TRUE

Longest(name, t) == Max({n \in 0..Len(t) : IsPart(name, SubSeq(t, 1, n))})
Divide(acc, name) == LET n == Longest(name, acc.rest)
                     IN  [acc EXCEPT ![name] = SubSeq(acc.rest, 1, n), !.rest = SubSeq(acc.rest, n + 1, Len(acc.rest))]
Parts(t) == FoldLeft(Divide, [name \in Range(PartNames) \cup {"rest"} |-> t], PartNames)

\* Nothing but a colon after the id, and a letter at the end.
WellFormed(parts) == /\ parts.colon = <<>> => \A i \in 3..Len(PartNames) : parts[PartNames[i]] = <<>>
                     /\ Len(parts.type) <= 1 /\ Range(parts.type) \cap ({Open, Close} \cup 128..2000) = {}

ValueOf(digits) == FoldLeft(LAMBDA n, d : 10 * n + d - 48, 0, digits)
Inner(t) == SubSeq(t, 2, Len(t) - 1)
Given(part, name) == IF name = "precision" /\ part # <<>> THEN Tail(part) ELSE part
InRange(t) == IsNumber(t) => ValueOf(t) < MaxOf(U32)

\* The indices that a field names, in order; an empty one stands for the next.
IndicesOf(parts) ==
    LET dynamic(name) == LET t == Given(parts[name], name) IN IF IsIndex(t) THEN <<Inner(t)>> ELSE <<>>
    IN  <<parts.id>> \o dynamic("width") \o dynamic("precision")

-----------------------------------------------------------------------------
\* The fields of a list of pieces, and the number of the argument for each index they name.
FieldsOf(pieces) == SelectSeq(pieces, LAMBDA piece : piece.kind = "field")
Indices(pieces) ==
    LET fields == FieldsOf(pieces)
    IN  FlattenSeq([i \in DOMAIN fields |-> IndicesOf(Parts(fields[i].text))])
Numbered(indices, k) == IF indices[k] = <<>> THEN k - 1 ELSE ValueOf(indices[k])
OneNumbering(indices) == (\A k \in DOMAIN indices : indices[k] = <<>>) \/ (\A k \in DOMAIN indices : indices[k] # <<>>)

\* A width or precision: none, a number, or the value of argument n.
Measured(t, n, none, args) ==
    IF t = <<>> THEN none ELSE IF IsIndex(t) THEN args[n + 1].value ELSE ValueOf(t)

SpecsOf(parts, numbers, args) ==
    LET w == parts.width
        p == Given(parts.precision, "precision")
        pIndex == IF IsIndex(w) THEN 3 ELSE 2
        zero == parts.zero # <<>>
    IN  [Fill  |-> IF zero THEN Zero ELSE IF Len(parts.align) = 2 THEN parts.align[1] ELSE Space,
         Align |-> IF zero THEN "numeric"
                   ELSE IF parts.align = <<>> THEN "none" ELSE get_alignment_from_char(Last(parts.align)),
         Sign  |-> IF parts.sign = <<>> THEN 0 ELSE parts.sign[1],
         Hash  |-> parts.hash # <<>>,
         Width          |-> Measured(w, numbers[2], 0, args),
         WidthIndex     |-> IF IsIndex(w) THEN numbers[2] ELSE -1,
         Precision      |-> Measured(p, numbers[pIndex], -1, args),
         PrecisionIndex |-> IF IsIndex(p) THEN numbers[pIndex] ELSE -1,
         Type  |-> IF parts.type = <<>> THEN 0 ELSE parts.type[1]]

\* fmt.ixx, line 74, and tests/fmt.cpp, lines 116 and 176, and what code points cannot have (378).
LettersOf(type) == CASE type = "STRING"  -> {115, 112}
                   [] type = "POINTER" -> {112}
                   [] type = "F64"     -> {101, 69, 102, 70, 103, 71, 37, 97, 65}
                   [] OTHER            -> {98, 66, 99, 100, 111, 120, 88, 110}
Suits(type, parts) ==
    LET numeric == parts.zero # <<>> \/ (parts.align # <<>> /\ Last(parts.align) = 61)
    IN  /\ Range(parts.type) \subseteq LettersOf(type)
        /\ numeric \/ parts.hash # <<>> => type \in Arithmetic
        /\ parts.sign # <<>> => type \in {"S64", "F64"}
        /\ parts.precision # <<>> => type # "POINTER"
        /\ parts.type = <<99>> => ~numeric /\ parts.hash = <<>> /\ parts.sign = <<>>

FieldSuits(parts, numbers, args) ==
    /\ WellFormed(parts)
    /\ \A i \in DOMAIN numbers : numbers[i] < Len(args) /\ (i > 1 => args[numbers[i] + 1].type \in Integral
                                                                        /\ args[numbers[i] + 1].value >= 0)
    /\ InRange(parts.width) /\ InRange(Given(parts.precision, "precision"))
    /\ Suits(args[numbers[1] + 1].type, parts)

-----------------------------------------------------------------------------
\* Styles: a color, then ;BG or a semicolon and emphasis, or emphasis alone.
Emphases == {66, 73, 85, 83}
IsChannel(t) == IsNumber(t)
ChannelOf(t) == IF t[1] = Zero THEN FoldLeft(LAMBDA n, d : 8 * n + d - 48, 0, t) ELSE ValueOf(t)

\* The parts between semicolons.
RECURSIVE Split(_)
Split(t) == LET at == {i \in DOMAIN t : t[i] = Semicolon}
            IN  IF at = {} THEN <<t>> ELSE <<SubSeq(t, 1, Min(at) - 1)>> \o Split(SubSeq(t, Min(at) + 1, Len(t)))

\* The color at the start of a list of parts, and how many of them it takes.
ColorOf(list) ==
    CASE list[1] \in Colors -> [color |-> <<"rgb", list[1]>>, parts |-> 1]
      [] list[1] # <<>> /\ list[1][1] = 116 /\ Tail(list[1]) \in TerminalColors ->
             [color |-> <<"terminal", Tail(list[1])>>, parts |-> 1]
      [] Len(list) >= 3 /\ \A i \in 1..3 : IsChannel(list[i]) /\ ChannelOf(list[i]) <= MaxOf(U32) ->
             [color |-> [i \in 1..3 |-> ChannelOf(list[i])], parts |-> 3]
      [] OTHER -> [color |-> <<>>, parts |-> IF list[1] = <<>> THEN 1 ELSE 0]

\* No style of the documentation is the empty set of them.
StylesOf(t) ==
    LET list == Split(t)
        color == ColorOf(list)
        rest == SubSeq(list, color.parts + 1, Len(list))
        style == [NoStyle EXCEPT !.color = color.color]
    IN  IF rest = <<>> THEN {style}
        ELSE IF Len(rest) > 1 THEN {}
        ELSE IF rest[1] = <<66, 71>> /\ color.color # <<>> THEN {[style EXCEPT !.Background = TRUE]}
        ELSE IF Range(rest[1]) \subseteq Emphases THEN {[style EXCEPT !.Emphasis = Range(rest[1])]}
        ELSE {}

-----------------------------------------------------------------------------
\* The numbers of the arguments of the field that is the piece i.
NumbersOf(pieces, i) ==
    LET before == Len(Indices(SubSeq(pieces, 1, i - 1)))
        indices == Indices(pieces)
    IN  [k \in 1..Len(IndicesOf(Parts(pieces[i].text))) |-> Numbered(indices, before + k)]

Documented(pieces, args) ==
    /\ OneNumbering(Indices(pieces))
    /\ \A i \in DOMAIN pieces :
           CASE pieces[i].kind = "chr"   -> TRUE
             [] pieces[i].kind = "bad"   -> FALSE
             [] pieces[i].kind = "style" -> StylesOf(pieces[i].text) # {}
             [] pieces[i].kind = "field" -> FieldSuits(Parts(pieces[i].text), NumbersOf(pieces, i), args)

Meaning(pieces, args) ==
    [i \in DOMAIN pieces |->
        CASE pieces[i].kind = "chr"   -> [chr |-> pieces[i].text[1]]
          [] pieces[i].kind = "style" -> CHOOSE style \in StylesOf(pieces[i].text) : TRUE
          [] pieces[i].kind = "field" ->
                 LET numbers == NumbersOf(pieces, i)
                 IN  [arg |-> numbers[1], specs |-> SpecsOf(Parts(pieces[i].text), numbers \o <<0, 0>>, args)]]

\* What goes for an alignment although it is the fill, or has only its lowest byte.
Misread(piece) ==
    LET parts == Parts(piece.text)
        spec == SubSeq(piece.text, Len(parts.id) + Len(parts.colon) + 1, Len(piece.text))
    IN  /\ piece.kind = "field" /\ parts.colon # <<>> /\ spec # <<>>
        /\ spec[1] % 256 \in Aligns
        /\ spec[1] > 127 \/ (Len(spec) > 1 /\ spec[2] \in Aligns)

\* A t before what names no color: left out of emphasis, or with what follows taken for a name.
Nameless(piece) == /\ piece.kind = "style" /\ piece.text # <<>> /\ piece.text[1] = 116
                   /\ Tail(Split(piece.text)[1]) \notin TerminalColors

\* The documentation (fmt.ixx, line 68) ignores the precision of an integer, and a test
\* (tests/fmt.cpp, line 602) has an error.
PrecisionOfInteger(pieces, i, args) ==
    /\ pieces[i].kind = "field" /\ Parts(pieces[i].text).precision # <<>>
    /\ LET n == NumbersOf(pieces, i)[1] IN n < Len(args) /\ args[n + 1].type \in Integral

Format(family, args) ==
    \E n \in 0..family.max : \E t \in [1..n -> family.chars] :
        LET s == family.start \o t
        IN  Call("format", [s |-> s, args |-> args], fmt_parse_and_format(s, args))

(***************************************************************************)
(* fmt.ixx, line 13: the format strings that the documentation describes,  *)
(* with arguments that suit their fields, and no others are written        *)
(* without an error, and as what it says.  Nothing is said of a fill that  *)
(* is itself an alignment or looks like one, of a t that no name of a      *)
(* color follows, and of the precision of an integer.                      *)
(***************************************************************************)
FormatsAsDocumented ==
    call.of = "format" =>
        LET f == call.out
            pieces == Pieces(call.in.s, 0)
            accepted == ~f.error /\ f.end = ""
        IN  \/ \E i \in DOMAIN pieces : \/ Misread(pieces[i]) \/ Nameless(pieces[i])
                                         \/ PrecisionOfInteger(pieces, i, call.in.args)
            \/ /\ accepted <=> Documented(pieces, call.in.args)
               /\ accepted => f.out = Meaning(pieces, call.in.args)

-----------------------------------------------------------------------------
Spread(padding, sign, hash, precision, type) ==
    [Plain EXCEPT !.Fill = padding.Fill, !.Align = padding.Align, !.Width = padding.Width,
                  !.Sign = sign, !.Hash = hash, !.Precision = precision, !.Type = type]

WriteNumber == \E n \in WrittenNumbers, padding \in Paddings, sign \in {0, Plus, Minus, Space}, hash \in BOOLEAN,
                  type \in {0, 66, 88, 98, 99, 100, 110, 111, 120} :
    LET specs == Spread(padding, sign, hash, -1, type)
    IN  /\ type = CodePoint => n >= 0 /\ CodePointSpecs(specs)
        /\ Call("number", [n |-> n, specs |-> specs], WriteInteger(n, specs))
WriteText == \E s \in WrittenStrings, padding \in Paddings, precision \in Precisions, type \in {0, 112, 115} :
    LET specs == Spread(padding, 0, FALSE, precision, type)
    IN  /\ padding.Align # "numeric"
        /\ Call("text", [s |-> s, specs |-> specs], write_helper(s, 171, specs))
WriteFlag == \E b \in BOOLEAN, padding \in Paddings, type \in {0, 100, 120} :
    LET specs == Spread(padding, 0, FALSE, -1, type)
    IN  /\ (padding.Align = "numeric" => type # 0)
        /\ Call("flag", [b |-> b, specs |-> specs], WriteBool(b, specs))
WriteFloat == \E f \in Floats, negative \in BOOLEAN, kind \in {"finite", "infinite"}, padding \in Paddings,
                 sign \in {0, Plus}, precision \in Precisions, type \in {0, 37, 69, 101, 102, 103}, scale \in -8..10 :
    LET v == [kind |-> kind, negative |-> negative, n |-> f[1], e |-> f[2]]
        specs == Spread(padding, sign, FALSE, precision, type)
        e == IF type = Percent THEN v.e + 2 ELSE v.e
    IN  /\ IF kind = "infinite" \/ v.n = 0 THEN scale = 0
           ELSE Len(DigitsOf(v.n, 10)) + e - scale \in 1..2
        /\ Call("float", [v |-> v, scale |-> scale, specs |-> specs], write_float(v, scale, specs))
Generate == \E significand \in Significands, precision \in 0..3, fixed \in BOOLEAN, exp10 \in {-3, 0, 2} :
    Call("grisu", [significand |-> significand, precision |-> precision, fixed |-> fixed, exp10 |-> exp10],
         grisu_to_decimal(significand, exp10, precision, fixed, TRUE))

-----------------------------------------------------------------------------
\* The width is the least number of characters there are.
Shown(specs, default, prefix, body) ==
    LET padding == Above0(specs.Width - Len(prefix) - Len(body))
        fill(n) == Times(n, specs.Fill)
        align == IF specs.Align = "none" THEN default ELSE specs.Align
        left == CASE align = "left" -> 0 [] align = "center" -> padding \div 2 [] OTHER -> padding
    IN  IF align = "numeric" THEN prefix \o fill(padding) \o body
        ELSE fill(left) \o prefix \o body \o fill(padding - left)

\* A comma before each three digits from the right that others precede.
Grouped(digits) ==
    LET n == Len(digits)
    IN  FlattenSeq([i \in 1..n |-> IF i > 1 /\ (n - i + 1) % 3 = 0 THEN <<Comma, digits[i]>> ELSE <<digits[i]>>])
Figures(n, base, upper) ==
    LET digits == DigitsOf(Magnitude(n), base) IN [i \in DOMAIN digits |-> DigitChar(digits[i], upper)]

SignOf(negative, specs) ==
    IF negative THEN <<Minus>> ELSE IF specs.Sign \in {0, Minus} THEN <<>> ELSE <<specs.Sign>>
NumberText(n, specs) ==
    LET type == specs.Type
        base == BaseOf(type)
        body == Figures(n, base, type = 88)
        mark == IF ~specs.Hash \/ base = 10 THEN <<>> ELSE <<Zero, type>>
    IN  IF type = CodePoint THEN Shown(specs, "left", <<>>, <<n>>)
        ELSE Shown(specs, "right", SignOf(n < 0, specs) \o mark, IF type = 110 THEN Grouped(body) ELSE body)

\* Of zero no digit is counted (fmt.context.ixx, line 464), with numeric alignment the separators
\* are not (508), and of a code point each of its bytes is (481), where tests/fmt.cpp, line 570, has
\* one; the documentation (fmt.ixx, line 58) and a test (482) disagree on the prefix 0o.
ZeroUncounted(n, specs) == n = 0 /\ BaseOf(specs.Type) = 10 /\ specs.Type # CodePoint
SeparatorsUncounted(n, specs) == specs.Type = 110 /\ specs.Align = "numeric"
                                 /\ (Magnitude(n) > 999 \/ specs.Width > BUFFER_SIZE)
BytesCounted(n, specs) == specs.Type = CodePoint /\ n > 127
OctalPrefix(specs) == specs.Hash /\ BaseOf(specs.Type) = 8

NumberAgrees(n, specs, out) ==
    \/ ZeroUncounted(n, specs) \/ SeparatorsUncounted(n, specs) \/ BytesCounted(n, specs) \/ OctalPrefix(specs)
    \/ out = Written(NumberText(n, specs))

\* A precision beyond the string reads behind it (fmt.context.ixx, line 413).
BehindString(s, specs) == specs.Precision > Len(s)
TextAgrees(s, specs, out) ==
    LET pointer == Figures(171, 16, FALSE)
    IN  CASE specs.Type = 112         -> out = Written(Shown(specs, "right", <<Zero, 120>>, pointer))
          [] specs.Precision = -1     -> out = Written(Shown(specs, "left", <<>>, s))
          [] BehindString(s, specs)   -> TRUE
          [] OTHER -> out = Written(Shown(specs, "left", <<>>, SubSeq(s, 1, specs.Precision)))

-----------------------------------------------------------------------------
\* n * 10^e as a multiple of 10^unit, to the nearest; ties never get here.
Nearest(n, e, unit) ==
    IF e >= unit THEN n * 10^(e - unit)
    ELSE IF unit - e > 9 THEN 0 ELSE (n + 10^(unit - e) \div 2) \div 10^(unit - e)

\* digits * 10^e with a point where one is needed, or with one behind the first digit.
PointText(digits, e) ==
    LET front == Times(Above0(1 - e - Len(digits)), Zero) \o digits
        n == Len(front)
    IN  IF e >= 0 THEN digits \o Times(e, Zero) ELSE SubSeq(front, 1, n + e) \o <<Dot>> \o SubSeq(front, n + e + 1, n)
ExpText(digits, e, letter) ==
    LET x == e + Len(digits) - 1
    IN  <<digits[1]>> \o (IF Len(digits) > 1 THEN <<Dot>> \o Tail(digits) ELSE <<>>)
        \o <<letter, IF x < 0 THEN Minus ELSE Plus>> \o TwoDigits(Magnitude(x))

\* The unit of so many significant digits of a number, which may be more when it is rounded up.
UnitFor(n, e, count) == LET unit == Len(DigitsOf(n, 10)) + e - count
                        IN  IF Nearest(n, e, unit) = 10^count THEN unit + 1 ELSE unit
Trimmed(n, unit) == Shortest(Nearest(n[1], n[2], unit), unit)

FloatBody(n, e, type, precision) ==
    LET asked == IF precision < 0 /\ type # 0 THEN 6 ELSE precision
        unit == CASE type \in {69, 101} -> UnitFor(n, e, asked + 1) [] type \in {37, 102} -> -asked
                  [] OTHER -> IF asked = -1 THEN e ELSE UnitFor(n, e, IF asked = 0 THEN 1 ELSE asked)
        short == Trimmed(<<n, e>>, unit)
        x == short.exp + Len(short.digits) - 1
        all == Figures(Nearest(n, e, unit), 10, FALSE)
    IN  IF type \in {37, 102} THEN PointText(all, -asked)
        ELSE IF type \in {69, 101} /\ n = 0 THEN ExpText(Times(asked + 1, Zero), -asked, type)
        ELSE IF type \in {69, 101} THEN ExpText(all, unit, type)
        ELSE IF n = 0 THEN <<Zero>>
        ELSE IF x < -4 \/ x >= (IF asked > 0 THEN asked ELSE 16)
             THEN ExpText(CharsOf(short.digits), short.exp, 101)
        ELSE PointText(CharsOf(short.digits), short.exp)

\* Infinities are not put to the right as other floats are, nor is their padding put behind the sign
\* (fmt.context.ixx, line 768).
InfinityAligned(v, specs) == v.kind = "infinite" /\ specs.Align \in {"none", "numeric"} /\ specs.Width > 3
\* Grisu cannot decide the digits, and nothing takes over: a run of its own, against tests/fmt.cpp, line 171.
Undecided(v, e, scale, specs) ==
    LET asked == IF specs.Precision < 0 /\ specs.Type # 0 THEN 6 ELSE specs.Precision
        format == fmt_parse_float_specs(specs)
        precision == IF format.Format = "exp" THEN asked + 1 ELSE asked
    IN  fmt_format_non_negative_float([v EXCEPT !.e = e], scale, precision, format).result = "ERROR"
FloatAgrees(v, scale, specs, out) ==
    LET sign == SignOf(v.negative, specs)
        tail == IF specs.Type = Percent THEN <<Percent>> ELSE <<>>
        e == IF specs.Type = Percent THEN v.e + 2 ELSE v.e
        inf == IF specs.Type = 69 THEN <<73, 78, 70>> ELSE <<105, 110, 102>>
    IN  IF v.kind = "infinite"
        THEN InfinityAligned(v, specs) \/ out = Written(Shown(specs, "right", sign, inf \o tail))
        ELSE \/ Undecided(v, e, scale, specs)
             \/ out = Written(Shown(specs, "right", sign, FloatBody(v.n, e, specs.Type, specs.Precision) \o tail))

\* No value in the region of the error is nearer to another number of as many digits.
NearestInRegion(in, out) ==
    LET e == (IF in.fixed THEN -in.precision ELSE out.exp) - in.exp10
        n == NumberOf(out.digits)
        twice(x) == IF e >= 0 THEN 2 * x ELSE 2 * x * 10^(-e)
        unit == IF e >= 0 THEN One * 10^e ELSE One
    IN  /\ in.fixed /\ out.digits # <<>> => out.exp = -in.precision
        /\ \A x \in {in.significand - 1, in.significand + 1} : Magnitude(twice(x) - 2 * n * unit) <= unit

(***************************************************************************)
(* fmt.context.ixx: a number, string or float is written as the            *)
(* documentation of its specifiers says, in as many characters as its      *)
(* width; and the digits of a float are those nearest to it, whatever the  *)
(* error of its significand.  Nothing is said of the inputs named above.   *)
(***************************************************************************)
ValuesWritten ==
    LET in == call.in
        out == call.out
    IN  CASE call.of = "number" -> NumberAgrees(in.n, in.specs, out)
          [] call.of = "text"   -> TextAgrees(in.s, in.specs, out)
          [] call.of = "flag"   -> IF in.specs.Type = 0 THEN TextAgrees(IF in.b THEN true ELSE false, in.specs, out)
                                   ELSE NumberAgrees(IF in.b THEN 1 ELSE 0, in.specs, out)
          [] call.of = "float"  -> FloatAgrees(in.v, in.scale, in.specs, out)
          [] call.of = "grisu"  -> out.result = "DONE" => NearestInRegion(in, out)
          [] OTHER -> TRUE

\* tests/fmt.cpp, line 171: 392.5 is written as 392.500000.  Of a number that is not below one at
\* least one digit that is not zero is there.
DigitsAreWritten ==
    LET in == call.in
    IN  /\ call.of = "float"
        /\ in.v.kind = "finite" /\ in.specs.Type = 102 /\ Len(DigitsOf(in.v.n, 10)) + in.v.e > 0 /\ in.v.n # 0
        => \E i \in DOMAIN call.out.text : call.out.text[i] \in 49..57

-----------------------------------------------------------------------------
Write == WriteNumber \/ WriteText \/ WriteFlag \/ WriteFloat \/ Generate
Next == Ready /\ (Write \/ \E family \in Families, args \in ArgumentLists : Format(family, args))
Spec == Init /\ [][Next]_call
============================================================================
