----------------------------- MODULE Formatting -----------------------------
(***************************************************************************)
(* Format strings (lstd/fmt): fmt.ixx goes over the text and its fields,   *)
(* fmt.parse_context.ixx parses specifiers and text styles.  A format      *)
(* string is a sequence of code points with a zero behind it; what is      *)
(* written is a sequence of characters, of arguments with their specifiers *)
(* and of styles.  An argument has a type and a value.  The handler of     *)
(* errors returns, as that of the tests.                                   *)
(***************************************************************************)
EXTENDS Parse

CONSTANTS Colors, TerminalColors,   \* their names
          NumberBits,               \* the size of the integers in format strings
          FractionBits              \* bits of a significand behind the point, at most 64 in the code

Open == 123
Close == 125
Colon == 58
Dot == 46
Semicolon == 59
Space == 32

U32 == [bits |-> NumberBits, signed |-> FALSE]

Integral == {"S64", "U64", "BOOL"}
Arithmetic == Integral \cup {"F64"}

Plain == [Fill |-> Space, Align |-> "none", Sign |-> 0, Hash |-> FALSE, Width |-> 0,
          WidthIndex |-> -1, Precision |-> -1, PrecisionIndex |-> -1, Type |-> 0]
NoStyle == [color |-> <<>>, Background |-> FALSE, Emphasis |-> {}]

\* A parse: how far it is, whether an error was reported, how it ended; value is the last number.
Start == [it |-> 0, NextArgID |-> 0, error |-> FALSE, end |-> "", out |-> <<>>, specs |-> Plain,
          style |-> NoStyle, value |-> -1]

Char(s, p) == IF p < Len(s) THEN At(s, p) ELSE 0
Here(s, f) == Char(s, f.it)
Going(s, f) == f.end = "" /\ f.it < Len(s)
Skip(f, n) == [f EXCEPT !.it = @ + n]
Stopped(f, how) == [f EXCEPT !.end = how]
on_error(f) == [f EXCEPT !.error = TRUE]
Fails(f) == Stopped(on_error(f), "error")
\* What follows unless the parse has ended.
Then(f, Rest(_)) == IF f.end # "" THEN f ELSE Rest(f)
Text(seq) == [i \in DOMAIN seq |-> [chr |-> seq[i]]]

-----------------------------------------------------------------------------
\* After an error there is an index nevertheless.
next_arg_id(f) == IF f.NextArgID >= 0 THEN [f EXCEPT !.value = f.NextArgID, !.NextArgID = @ + 1]
                  ELSE [on_error(f) EXCEPT !.value = 0]
check_arg_id(f, id) == IF f.NextArgID > 0 THEN [on_error(f) EXCEPT !.value = id]
                       ELSE [f EXCEPT !.NextArgID = -1, !.value = id]

Number(s, f) == parse_int(s, f.it, 10, [Options EXCEPT !.ParseSign = FALSE], U32)

fmt_parse_arg_id(s, f) ==
    LET number == Number(s, f)
    IN  IF Here(s, f) \in {Close, Colon} THEN next_arg_id(f)
        ELSE IF ~is_digit(Here(s, f)) THEN Fails(f)
        ELSE IF number.Status = "TOO_MANY_DIGITS" \/ Char(s, number.Rest) \notin {Close, Colon} THEN Fails(f)
        ELSE check_arg_id([f EXCEPT !.it = number.Rest], number.Value)

\* A number, or the index of an argument in braces.  The greatest number ends without an error.
Constant(s, f) ==
    LET number == Number(s, f)
    IN  IF number.Status = "TOO_MANY_DIGITS" THEN Fails(f)
        ELSE IF number.Value = MaxOf(U32) THEN Stopped(f, "silent")
        ELSE [f EXCEPT !.it = number.Rest, !.value = number.Value]
Dynamic(s, f) ==
    Then(IF f.it + 1 < Len(s) THEN fmt_parse_arg_id(s, Skip(f, 1)) ELSE Skip(f, 1),
         LAMBDA g : IF Here(s, g) # Close THEN Fails(g) ELSE Skip(g, 1))

get_alignment_from_char(ch) ==
    CASE ch = 60 -> "left" [] ch = 62 -> "right" [] ch = 61 -> "numeric" [] ch = 94 -> "center" [] OTHER -> "none"

\* Errors of types are reported, and the parse goes on.
Require(f, argType, types) == IF argType \in types THEN f ELSE on_error(f)

Aligned(f, fill, align, argType) ==
    Require([f EXCEPT !.specs.Fill = fill, !.specs.Align = align], argType,
            IF align = "numeric" THEN Arithmetic ELSE {argType})

\* The first code point is taken for an alignment by its lowest byte.
parse_fill_and_align(s, f, argType) ==
    LET fill == Here(s, f)
        first == get_alignment_from_char(fill % 256)
        second == get_alignment_from_char(Char(s, f.it + 1))
    IN  IF f.it = Len(s) THEN Stopped(f, "assert")
        ELSE IF first # "none" THEN Aligned(Skip(f, 1), Space, first, argType)
        ELSE IF second = "none" THEN f
        ELSE IF fill \in {Open, Close} THEN Fails(f)
        ELSE Aligned(Skip(f, 2), fill, second, argType)

parse_sign(s, f, argType) ==
    IF Going(s, f) /\ Here(s, f) \in {Plus, Minus, Space}
    THEN Require([Skip(f, 1) EXCEPT !.specs.Sign = Here(s, f)], argType, {"S64", "F64"}) ELSE f
parse_hash(s, f, argType) ==
    IF Going(s, f) /\ Here(s, f) = 35
    THEN Require([Skip(f, 1) EXCEPT !.specs.Hash = TRUE], argType, Arithmetic) ELSE f
parse_zero(s, f, argType) ==
    IF Going(s, f) /\ Here(s, f) = Zero THEN Aligned(Skip(f, 1), Zero, "numeric", argType) ELSE f

parse_width(s, f) ==
    IF ~Going(s, f) THEN f
    ELSE IF is_digit(Here(s, f)) THEN Then(Constant(s, f), LAMBDA n : [n EXCEPT !.specs.Width = n.value])
    ELSE IF Here(s, f) = Open THEN Then(Dynamic(s, f), LAMBDA d : [d EXCEPT !.specs.WidthIndex = d.value])
    ELSE f

parse_precision(s, f, argType) ==
    LET after == Skip(f, 1)
        allowed == {"F64", "STRING"}
    IN  IF ~Going(s, f) \/ Here(s, f) # Dot THEN f
        ELSE IF is_digit(Here(s, after))
             THEN Then(Constant(s, after),
                       LAMBDA n : Require([n EXCEPT !.specs.Precision = n.value], argType, allowed))
        ELSE IF Here(s, after) = Open
             THEN Then(Dynamic(s, after),
                       LAMBDA d : Require([d EXCEPT !.specs.PrecisionIndex = d.value], argType, allowed))
        ELSE Fails(f)

\* Of a longer code point one byte is passed, and no brace follows.
parse_type(s, f) ==
    IF ~Going(s, f) \/ Here(s, f) = Close THEN f
    ELSE IF Here(s, f) > 127 THEN Fails(f)
    ELSE [Skip(f, 1) EXCEPT !.specs.Type = Here(s, f)]

fmt_parse_specs(s, f, argType) ==
    LET signed == parse_sign(s, parse_fill_and_align(s, f, argType), argType)
        zero == parse_zero(s, parse_hash(s, signed, argType), argType)
    IN  IF Here(s, f) = Close THEN f ELSE parse_type(s, parse_precision(s, parse_width(s, zero), argType))

-----------------------------------------------------------------------------
\* Text styles.
handle_emphasis(s, f) ==
    LET end == Min({Len(s)} \cup {p \in f.it..Len(s) - 1 : ~is_alpha(At(s, p))})
        style == {At(s, p) : p \in f.it..end - 1}
    IN  IF style \subseteq {66, 73, 85, 83} THEN [f EXCEPT !.it = end, !.style.Emphasis = style] ELSE Fails(f)

parse_rgb_channel(s, f, last) ==
    LET r == parse_int(s, f.it, 10, [Options EXCEPT !.ParseSign = FALSE, !.LookForBasePrefix = TRUE], U32)
        next == Char(s, r.Rest)
        follows == IF last THEN next \in {Close, Semicolon} ELSE next = Semicolon /\ is_digit(Char(s, r.Rest + 1))
    IN  IF f.end # "" THEN f
        ELSE IF r.Status \in {"INVALID", "TOO_MANY_DIGITS"} THEN Fails(f)
        ELSE IF r.Status = "EXHAUSTED" \/ r.Rest = Len(s) THEN Stopped(f, "silent")
        ELSE IF ~follows THEN Fails(f)
        ELSE [f EXCEPT !.it = IF last THEN r.Rest ELSE r.Rest + 1, !.style.color = Append(@, r.Value)]

\* The name is at least one character, whatever it is; a t at the end is followed by what lies behind.
Named(s, f) ==
    LET terminal == Here(s, f) = 116
        from == IF terminal THEN f.it + 1 ELSE f.it
        end == Min({Len(s)} \cup {p \in from + 1..Len(s) - 1 : ~is_identifier_start(At(s, p))})
        name == SubSeq(s, from + 1, end)
    IN  IF from = Len(s) THEN Stopped(f, "behind")
        ELSE IF end = Len(s) THEN [f EXCEPT !.it = from, !.end = "styled"]
        ELSE IF At(s, end) \notin {Semicolon, Close} THEN Fails(f)
        ELSE IF name \in (IF terminal THEN TerminalColors ELSE Colors)
        THEN [f EXCEPT !.it = end, !.style.color = <<IF terminal THEN "terminal" ELSE "rgb", name>>]
        ELSE Then(handle_emphasis(s, [f EXCEPT !.it = from]), LAMBDA g : Stopped(g, "styled"))

Modified(s, f) ==
    LET after == Skip(f, 1)
    IN  IF f.end # "" \/ Here(s, f) # Semicolon THEN f
        ELSE IF after.it + 2 < Len(s) /\ At(s, after.it) = 66 /\ At(s, after.it + 1) = 71
        THEN IF f.style.color = <<>> THEN Fails(f) ELSE [Skip(after, 2) EXCEPT !.style.Background = TRUE]
        ELSE handle_emphasis(s, after)

fmt_parse_text_style(s, f) ==
    LET ch == Here(s, f)
        rgb == parse_rgb_channel(s, parse_rgb_channel(s, parse_rgb_channel(s, f, FALSE), FALSE), TRUE)
    IN  CASE is_alpha(ch) -> Modified(s, Named(s, f))
          [] is_digit(ch) -> Modified(s, rgb)
          [] ch = 35      -> Stopped(f, "assert")
          [] OTHER        -> Modified(s, f)

-----------------------------------------------------------------------------
(***************************************************************************)
(* fmt_parse_and_format.                                                   *)
(***************************************************************************)
\* The characters up to e: after an unmatched brace nothing is written, and the parse goes on.
RECURSIVE write_until(_, _, _)
write_until(s, f, e) ==
    LET closes == {p \in f.it..e - 1 : At(s, p) = Close}
        b == Min(closes)
        upto(p) == [f EXCEPT !.out = @ \o Text(SubSeq(s, f.it + 1, p))]
    IN  IF closes = {} THEN upto(e)
        ELSE IF Char(s, b + 1) # Close THEN on_error(f)
        ELSE write_until(s, [upto(b + 1) EXCEPT !.it = b + 2], e)

CodePointSpecs(specs) == specs.Align # "numeric" /\ specs.Sign = 0 /\ ~specs.Hash

\* The letters that the functions writing a value of a type accept; 0 is none.
Accepts(type, specs) ==
    CASE type = "STRING"  -> specs.Type \in {0, 112, 115}
      [] type = "POINTER" -> specs.Type \in {0, 112}
      [] type = "F64"     -> specs.Type \in {0, 37, 65, 69, 70, 71, 97, 101, 102, 103}
      [] OTHER            -> \/ specs.Type \in {0, 66, 88, 98, 100, 110, 111, 120}
                             \/ specs.Type = 99 /\ CodePointSpecs(specs)

\* A float of another type is written nevertheless.
Visit(f, args, index) ==
    LET item == [arg |-> index, specs |-> f.specs]
        type == args[index + 1].type
        g == IF Accepts(type, f.specs) THEN f ELSE on_error(f)
    IN  IF Accepts(type, f.specs) \/ type = "F64" THEN [g EXCEPT !.out = Append(@, item)] ELSE g

Known(f, args, index) == IF index < Len(args) THEN f ELSE Fails(f)

\* An index that is too large is reported, and a width or precision not there is 0 or none;
\* so is a precision that is not a number from 0 on.
fmt_handle_dynamic_specs(f, args) ==
    LET arg(index) == args[index + 1]
        number(index) == arg(index).type \in Integral /\ arg(index).value >= 0
        w == f.specs.WidthIndex
        p == f.specs.PrecisionIndex
        g == IF w = -1 THEN f
             ELSE IF w >= Len(args) THEN on_error(f)
             ELSE IF number(w) THEN [f EXCEPT !.specs.Width = arg(w).value]
             ELSE Fails(f)
    IN  IF g.end # "" \/ p = -1 THEN g
        ELSE IF p >= Len(args) THEN on_error(g)
        ELSE IF number(p) THEN [g EXCEPT !.specs.Precision = arg(p).value]
        ELSE [on_error(g) EXCEPT !.specs.Precision = -1]

\* After the colon; the specifiers hold for this field only.
Specified(s, f, args, id) ==
    Then(fmt_parse_specs(s, f, args[id + 1].type),
         LAMBDA g : IF Here(s, g) # Close THEN Fails(g)
                    ELSE Then(fmt_handle_dynamic_specs(g, args),
                              LAMBDA h : [Visit(h, args, id) EXCEPT !.specs = Plain]))

Field(s, f, args) ==
    Then(Then(fmt_parse_arg_id(s, f), LAMBDA g : Known(g, args, g.value)),
         LAMBDA g : IF Here(s, g) = Close THEN Visit(g, args, g.value)
                    ELSE Specified(s, Skip(g, 1), args, g.value))

\* The style that was parsed last.
Styled(s, f) ==
    LET goesOn(g) == [g EXCEPT !.end = IF @ = "styled" THEN "" ELSE @]
    IN  Then(goesOn(fmt_parse_text_style(s, [f EXCEPT !.style = NoStyle])),
             LAMBDA g : IF Here(s, g) # Close THEN Fails(g) ELSE [g EXCEPT !.out = Append(@, g.style)])

\* After an opening brace.
Braces(s, f, args) ==
    LET next == next_arg_id(f)
    IN  CASE Here(s, f) = Close -> Then(Known(next, args, next.value), LAMBDA g : Visit(g, args, g.value))
          [] Here(s, f) = Open  -> [f EXCEPT !.out = @ \o Text(<<Open>>)]
          [] Here(s, f) = 33    -> Styled(s, Skip(f, 1))
          [] OTHER              -> Field(s, f, args)

RECURSIVE Formatted(_, _, _)
Formatted(s, f, args) ==
    LET opens == {p \in f.it..Len(s) - 1 : At(s, p) = Open}
        g == [write_until(s, f, Min(opens)) EXCEPT !.it = Min(opens) + 1]
    IN  IF f.it >= Len(s) THEN f
        ELSE IF opens = {} THEN write_until(s, f, Len(s))
        ELSE IF g.it = Len(s) THEN Fails(g)
        ELSE Then(Braces(s, g, args), LAMBDA h : Formatted(s, Skip(h, 1), args))

fmt_parse_and_format(s, args) == Formatted(s, Start, args)

-----------------------------------------------------------------------------
(***************************************************************************)
(* fmt.context.ixx: how a value is written with its specifiers.  What is   *)
(* written is a sequence of code points; a result also says when memory    *)
(* outside of the buffer of digits or behind a string was accessed.        *)
(***************************************************************************)
BUFFER_SIZE == 65

\* Letters of types and characters.
CodePoint == 99
Percent == 37
Written(text) == [text |-> text, ends |-> "inside"]
Times(n, ch) == [i \in 1..n |-> ch]
Above0(n) == IF n < 0 THEN 0 ELSE n

\* The size is that of the text, or what its author takes for it.
Padded(specs, text, size) ==
    LET padding == Above0(specs.Width - size)
        left == padding \div 2
    IN  CASE specs.Align = "right"  -> Times(padding, specs.Fill) \o text
          [] specs.Align = "center" -> Times(left, specs.Fill) \o text \o Times(padding - left, specs.Fill)
          [] OTHER                  -> text \o Times(padding, specs.Fill)
OrRight(specs) == IF specs.Align = "none" THEN [specs EXCEPT !.Align = "right"] ELSE specs

-----------------------------------------------------------------------------
RECURSIVE DigitsOf(_, _)
DigitsOf(n, base) == IF n < base THEN <<n>> ELSE Append(DigitsOf(n \div base, base), n % base)

\* Of zero no digit is counted, but it is written.
count_digits(n) == IF n = 0 THEN 0 ELSE Len(DigitsOf(n, 10))

DigitChar(d, upper) == IF d < 10 THEN 48 + d ELSE IF upper THEN 55 + d ELSE 87 + d

\* A faulty count, of the digits before this one.
SeparatorFirst(count, sep) == IF (count - 1) % 3 = 0 THEN sep ELSE <<>>
\* Two digits at a time; count is how many there are already, and after three comes a separator.
Separator(count, sep) == IF count % 3 = 0 THEN sep ELSE <<>>
RECURSIVE format_uint_decimal(_, _, _)
format_uint_decimal(value, count, sep) ==
    LET two == value % 100
        pair == <<48 + (two \div 10)>> \o Separator(count + 1, sep) \o <<48 + (two % 10)>>
    IN  IF value >= 100 THEN format_uint_decimal(value \div 100, count + 2, sep) \o Separator(count + 2, sep) \o pair
        ELSE IF value < 10 THEN <<48 + value>> ELSE pair
format_uint_base(value, base, upper) ==
    LET digits == DigitsOf(value, base) IN [i \in DOMAIN digits |-> DigitChar(digits[i], upper)]

BaseOf(type) == CASE to_lower(type) = 98 -> 2 [] type = 111 -> 8 [] to_lower(type) = 120 -> 16 [] OTHER -> 10

PrefixOf(negative, type, specs) ==
    (IF negative THEN <<Minus>> ELSE IF specs.Sign \in {Plus, Space} THEN <<specs.Sign>> ELSE <<>>)
    \o (IF specs.Hash /\ BaseOf(type) \in {2, 16} THEN <<Zero, type>>
        ELSE IF specs.Hash /\ BaseOf(type) = 8 THEN <<Zero>> ELSE <<>>)

\* A precision is not allowed.  A number with separators is written at its size from the start
\* of the buffer on, any other at its number of digits.
write_u64(value, negative, specs) ==
    LET type == IF specs.Type = 0 THEN 100 ELSE specs.Type
        separated == type = 110
        numDigits == IF BaseOf(type) = 10 THEN count_digits(value) ELSE Len(DigitsOf(value, BaseOf(type)))
        prefix == PrefixOf(negative, type, specs)
        inner == IF specs.Align = "numeric" THEN Above0(specs.Width - Len(prefix) - numDigits) ELSE 0
        size == Len(prefix) + numDigits + inner + (IF separated THEN Above0(numDigits - 1) \div 3 ELSE 0)
        digits == IF BaseOf(type) = 10
                  THEN format_uint_decimal(value, 0, IF separated THEN <<Comma>> ELSE <<>>)
                  ELSE format_uint_base(value, BaseOf(type), is_upper(type))
        from == (IF separated THEN size ELSE numDigits) - Len(digits)
    IN  IF type = CodePoint THEN Written(Padded(specs, <<value>>, SizeOf(value)))
        ELSE [text |-> Padded(OrRight(specs), prefix \o Times(inner, specs.Fill) \o digits, size),
              ends |-> IF from < 0 \/ from + Len(digits) > BUFFER_SIZE THEN "outside" ELSE "inside"]

WriteInteger(n, specs) == write_u64(IF n < 0 THEN -n ELSE n, n < 0, specs)

WritePointer(value, specs) ==
    LET digits == format_uint_base(value, 16, FALSE)
    IN  Written(Padded(OrRight(specs), <<Zero, 120>> \o digits, Len(digits) + 2))

\* A string, which lies at an address.  A precision is its length, however many code points there are.
write_helper(s, address, specs) ==
    LET cut == specs.Precision # -1
        text == IF cut THEN SubSeq(s, 1, Min({specs.Precision, Len(s)})) ELSE s
        length == IF cut THEN specs.Precision ELSE Len(s)
    IN  IF specs.Type = 112 THEN WritePointer(address, specs)
        ELSE [text |-> Padded(specs, text, length), ends |-> IF length > Len(s) THEN "outside" ELSE "inside"]

WriteBool(b, specs) == IF specs.Type = 0 THEN write_helper(IF b THEN true ELSE false, 0, specs)
                       ELSE WriteInteger(IF b THEN 1 ELSE 0, specs)

-----------------------------------------------------------------------------
(***************************************************************************)
(* fmt.format_float.grisu.ixx: the digits of a float for a precision.  The *)
(* float is a significand with FractionBits bits behind the point, times a *)
(* power of ten; it is off by less than one, the error.  The fallback for  *)
(* the values Grisu cannot decide does not exist.                          *)
(***************************************************************************)
One == 2^FractionBits

NumberOf(digits) == FoldLeft(LAMBDA n, d : 10 * n + d, 0, digits)

\* Both ends of the region are on one side of the middle, or not.
RoundsDown(divisor, remainder, error) ==
    remainder <= divisor - remainder /\ error * 2 <= divisor - remainder * 2
RoundsUp(divisor, remainder, error) ==
    remainder >= error /\ remainder - error >= divisor - (remainder - error)
get_round_direction(divisor, remainder, error) ==
    IF RoundsDown(divisor, remainder, error) THEN "DOWN"
    ELSE IF RoundsUp(divisor, remainder, error) THEN "UP" ELSE "UNKNOWN"

\* A state has the digits, exp10, and the precision; result is how the generation ended.
Ended(state, result) == [state EXCEPT !.result = result]

\* A fixed precision is relative to the point.
gen_digits_on_start(state, divisor, remainder, error) ==
    LET precision == state.Precision + state.exp + state.Exp10
        dir == get_round_direction(divisor, remainder, error)
        started == [state EXCEPT !.Precision = precision]
    IN  IF ~state.Fixed THEN state
        ELSE IF precision > 0 THEN started
        ELSE IF precision < 0 THEN Ended(started, "DONE")
        ELSE IF dir = "UNKNOWN" THEN Ended(started, "ERROR")
        ELSE Ended([started EXCEPT !.Buffer = <<IF dir = "UP" THEN 1 ELSE 0>>], "DONE")

\* One is added to the last digit, and a first of ten becomes a one, and a zero behind a fixed number.
RoundedUp(state) ==
    LET digits == state.Buffer
        n == Len(digits)
        nines == {i \in 1..n : \A j \in i..n : digits[j] = 9}
        all == 1 \in nines
        last == IF nines = {} THEN n ELSE CHOOSE i \in 0..n - 1 : i + 1 \in nines /\ i \notin nines
        up == [i \in 1..n |-> IF i \in nines THEN 0 ELSE IF i = last THEN digits[i] + 1 ELSE digits[i]]
    IN  IF ~all THEN [state EXCEPT !.Buffer = up]
        ELSE IF state.Fixed THEN [state EXCEPT !.Buffer = Append([up EXCEPT ![1] = 1], 0)]
        ELSE [state EXCEPT !.Buffer = [up EXCEPT ![1] = 1], !.Exp10 = @ + 1]

on_digit(state, digit, divisor, remainder, error, integral) ==
    LET more == [state EXCEPT !.Buffer = Append(@, digit)]
        dir == get_round_direction(divisor, remainder, error)
    IN  IF ~integral /\ error >= remainder THEN Ended(more, "ERROR")
        ELSE IF Len(more.Buffer) < state.Precision THEN more
        ELSE IF ~integral /\ (error >= divisor \/ error >= divisor - error) THEN Ended(more, "ERROR")
        ELSE IF dir = "UNKNOWN" THEN Ended(more, "ERROR")
        ELSE Ended(IF dir = "UP" THEN RoundedUp(more) ELSE more, "DONE")

\* The digits of the integral part, then those of the fraction, whose error grows.
RECURSIVE IntegralDigits(_, _, _)
IntegralDigits(state, integral, fraction) ==
    LET divisor == 10^(state.exp - 1)
        rest == integral % divisor
        next == on_digit([state EXCEPT !.exp = @ - 1], integral \div divisor, divisor * One,
                         rest * One + fraction, 1, TRUE)
    IN  IF state.result # "MORE" \/ state.exp = 0 THEN state ELSE IntegralDigits(next, rest, fraction)
RECURSIVE FractionDigits(_, _, _)
FractionDigits(state, fraction, error) ==
    LET shifted == fraction * 10
        next == on_digit([state EXCEPT !.exp = @ - 1], shifted \div One, One, shifted % One, error * 10, FALSE)
    IN  IF state.result # "MORE" THEN state ELSE FractionDigits(next, shifted % One, error * 10)

gen_digits(state, significand) ==
    LET integral == significand \div One
        begun == [state EXCEPT !.exp = Len(DigitsOf(integral, 10))]
        started == gen_digits_on_start(begun, 10^(begun.exp - 1) * One, significand \div 10, 10)
        fraction == significand % One
    IN  FractionDigits(IntegralDigits(started, integral, fraction), fraction, 1)

\* After an error there are no digits, and the exponent is what it was when it happened.
Decimal(state, showPoint) ==
    LET digits == IF state.result = "ERROR" THEN <<>> ELSE state.Buffer
        exp == IF state.result = "ERROR" THEN state.exp ELSE state.exp + state.Exp10
        kept == {0} \cup {i \in DOMAIN digits : digits[i] # 0}
        size == IF state.Fixed \/ showPoint THEN Len(digits) ELSE CHOOSE i \in kept : \A j \in kept : j <= i
    IN  [digits |-> SubSeq(digits, 1, size), exp |-> exp + Len(digits) - size, result |-> state.result]

grisu_to_decimal(significand, exp10, precision, fixed, showPoint) ==
    Decimal(gen_digits([Buffer |-> <<>>, exp |-> 0, Fixed |-> fixed, Exp10 |-> exp10,
                        Precision |-> precision, result |-> "MORE"], significand), showPoint)

-----------------------------------------------------------------------------
(***************************************************************************)
(* Floats.  A value is finite, or not; a finite one is n * 10^e.           *)
(***************************************************************************)
fmt_parse_float_specs(specs) ==
    LET type == to_lower(specs.Type)
    IN  [Format |-> CASE specs.Type \in {0, 103, 71} -> "general" [] type = 101 -> "exp"
                      [] type \in {102, Percent} -> "fixed" [] type = 97 -> "hex",
         ShowPoint |-> specs.Hash \/ (type \in {101, 102, Percent} /\ specs.Precision # 0),
         Upper |-> is_upper(specs.Type)]

\* The shortest digits, for which Dragonbox is used.
RECURSIVE Shortest(_, _)
Shortest(n, e) == IF n % 10 = 0 THEN Shortest(n \div 10, e + 1)
                  ELSE [digits |-> DigitsOf(n, 10), exp |-> e, result |-> "DONE"]

\* The normalized significand times the cached power of ten.
ScaledBy(n, k) == IF k >= 0 THEN n * 10^k * One ELSE (n * One) \div 10^(-k)

\* scale is the exponent of ten that the cached power leaves.
fmt_format_non_negative_float(v, scale, precision, floatSpecs) ==
    LET fixed == floatSpecs.Format = "fixed"
        zeros == fixed /\ precision > 0
    IN  IF v.n = 0 THEN [digits |-> Times(IF zeros THEN precision ELSE 1, 0),
                         exp |-> IF zeros THEN -precision ELSE 0, result |-> "DONE"]
        ELSE IF precision < 0 THEN Shortest(v.n, v.e)
        ELSE grisu_to_decimal(ScaledBy(v.n, v.e - scale), scale, precision, fixed, floatSpecs.ShowPoint)

TwoDigits(n) == <<48 + ((n \div 10) % 10), 48 + (n % 10)>>
write_exponent(exp) ==
    LET n == Magnitude(exp)
    IN  <<IF exp < 0 THEN Minus ELSE Plus>>
        \o (CASE n >= 1000 -> TwoDigits(n \div 100) [] n \in 100..999 -> <<48 + (n \div 100)>> [] OTHER -> <<>>)
        \o TwoDigits(n % 100)

\* The digits with a point behind the first of them.
write_significand(digits, integral, point) ==
    IF digits = <<>> THEN <<>>
    ELSE SubSeq(digits, 1, integral) \o (IF point THEN <<Dot>> \o SubSeq(digits, integral + 1, Len(digits)) ELSE <<>>)

CharsOf(digits) == [i \in DOMAIN digits |-> 48 + digits[i]]

write_float_exp(digits, decimalExp, sign, specs, floatSpecs) ==
    LET numZeros == IF floatSpecs.ShowPoint THEN Above0(specs.Precision - Len(digits)) ELSE 0
        point == floatSpecs.ShowPoint \/ Len(digits) # 1
        exp == decimalExp + Len(digits) - 1
        expDigits == CASE Magnitude(exp) >= 1000 -> 4 [] Magnitude(exp) \in 100..999 -> 3 [] OTHER -> 2
        size == Len(sign) + Len(digits) + numZeros + (IF point THEN 1 ELSE 0) + 2 + expDigits
    IN  Padded(specs, sign \o write_significand(digits, 1, point) \o Times(numZeros, Zero)
                          \o <<IF floatSpecs.Upper THEN 69 ELSE 101>> \o write_exponent(exp), size)

\* 1234e5, 1234e-2 and 1234e-6; the tail is the sign of percentages.
write_float_fixed(digits, exp, sign, specs, floatSpecs, tail) ==
    LET n == Len(digits)
        abs == Magnitude(exp)
        size == Len(sign) + Len(tail) + n
        after == specs.Precision - exp
        whole == IF after <= 0 /\ floatSpecs.Format # "fixed" THEN 1 ELSE after
        behind == IF floatSpecs.ShowPoint THEN Above0(specs.Precision - abs) ELSE 0
        front == IF digits = <<>> /\ specs.Precision \in 0..abs - n - 1 THEN specs.Precision ELSE abs - n
        pointy == front > 0 \/ digits # <<>> \/ floatSpecs.ShowPoint
    IN  IF exp >= 0
        THEN Padded(specs, sign \o digits \o Times(exp, Zero)
                               \o (IF floatSpecs.ShowPoint THEN <<Dot>> \o Times(whole, Zero) ELSE <<>>) \o tail,
                    size + exp + (IF floatSpecs.ShowPoint /\ whole > 0 THEN whole + 1 ELSE 0))
        ELSE IF abs < n
        THEN Padded(specs, sign \o write_significand(digits, n - abs, TRUE) \o Times(behind, Zero) \o tail,
                    size + 1 + behind)
        ELSE Padded(specs, sign \o <<Zero>> \o (IF pointy THEN <<Dot>> \o Times(front, Zero) \o digits ELSE <<>>) \o tail,
                    size + 1 + (IF pointy THEN 1 ELSE 0) + front)

\* An exponent is written where asked for, or where the number is too small or too great.
write_decimal(decimal, sign, specs, floatSpecs, tail) ==
    LET digits == CharsOf(decimal.digits)
        outputExp == decimal.exp + Len(digits) - 1
        useExp == \/ floatSpecs.Format = "exp"
                  \/ /\ floatSpecs.Format = "general"
                     /\ outputExp < -4 \/ outputExp >= IF specs.Precision > 0 THEN specs.Precision ELSE 16
    IN  IF useExp THEN write_float_exp(digits, decimal.exp, sign, specs, floatSpecs)
        ELSE write_float_fixed(digits, decimal.exp, sign, specs, floatSpecs, tail)

\* With numeric alignment the sign is in front of the padding.
write_float(v, scale, given) ==
    LET floatSpecs == fmt_parse_float_specs(given)
        sign == IF v.negative THEN <<Minus>> ELSE IF given.Sign \in {Plus, Space} THEN <<given.Sign>> ELSE <<>>
        tail == IF given.Type = Percent THEN <<Percent>> ELSE <<>>
        value == IF given.Type = Percent THEN [v EXCEPT !.e = @ + 2] ELSE v
        asked == IF given.Precision < 0 /\ given.Type # 0 THEN 6 ELSE given.Precision
        precision == IF floatSpecs.Format = "exp" THEN asked + 1 ELSE asked
        first == given.Align = "numeric" /\ sign # <<>>
        specs == [OrRight(given) EXCEPT !.Precision = precision,
                                        !.Align = IF given.Align = "numeric" THEN "right" ELSE @,
                                        !.Width = IF first THEN Above0(@ - 1) ELSE @]
    IN  CASE v.kind = "infinite" -> Written(Padded(given, sign \o (IF floatSpecs.Upper THEN <<73, 78, 70>> ELSE <<105, 110, 102>>) \o tail,
                                                   3 + Len(sign) + Len(tail)))
          [] v.kind = "finite" /\ floatSpecs.Format = "hex" -> Written(<<>>)
          [] OTHER -> Written((IF first THEN sign ELSE <<>>)
                              \o write_decimal(fmt_format_non_negative_float(value, scale, precision, floatSpecs),
                                               IF first THEN <<>> ELSE sign, specs, floatSpecs, tail))
=============================================================================
