-------------------------------- MODULE Parse --------------------------------
(***************************************************************************)
(* lstd/parse.h.  A buffer is a sequence of bytes; what a function leaves  *)
(* of it is the offset of its rest, which lies one behind the end where    *)
(* the code lets Count become -1.  The widths of integers are scaled down: *)
(* int and unsigned have IntBits bits, narrow and wide types have less and *)
(* more, and signed overflow wraps.                                        *)
(***************************************************************************)
EXTENDS Utf8

CONSTANT IntBits

BYTE_NOT_VALID == 255
IGNORE_THIS_BYTE == 127

\* The statuses, and two ends that no caller sees: an assert fails, a loop goes on forever.
Statuses == {"SUCCESS", "EXHAUSTED", "INVALID", "TOO_MANY_DIGITS", "ASSERT", "NEVER"}
Result(value, status, rest) == [Value |-> value, Status |-> status, Rest |-> rest]

At(b, p) == b[p + 1]
Exhausted(b, p) == p = Len(b)

-----------------------------------------------------------------------------
(***************************************************************************)
(* parse_int.  o has the options, T the type: its bits and whether it is   *)
(* signed.                                                                 *)
(***************************************************************************)
byte_to_digit(byte, o) ==
    CASE is_digit(byte)                              -> byte - \h30
      [] "lower" \in o.cases /\ Between(byte, 97, 122) -> byte - 97 + 10
      [] "upper" \in o.cases /\ Between(byte, 65, 90)  -> byte - 65 + 10
      [] byte \in o.ignored                          -> IGNORE_THIS_BYTE
      [] OTHER                                       -> BYTE_NOT_VALID

Converted(x, T) == LET u == x % 2^T.bits
                   IN  IF T.signed /\ u >= 2^(T.bits - 1) THEN u - 2^T.bits ELSE u
MaxOf(T) == IF T.signed THEN 2^(T.bits - 1) - 1 ELSE 2^T.bits - 1
MinOf(T) == IF T.signed THEN -2^(T.bits - 1) ELSE 0

\* What the operands of value and base, which is unsigned, are converted to, and
\* division, which rounds to zero.
Mixed(T) == IF T.bits <= IntBits THEN [bits |-> IntBits, signed |-> FALSE] ELSE T
Magnitude(x) == IF x < 0 THEN -x ELSE x
Quotient(x, n) == IF x < 0 THEN -(Magnitude(x) \div n) ELSE x \div n
Remainder(x, n) == x - n * Quotient(x, n)

handle_negative(value, negative, T) == IF negative THEN Converted(-value, T) ELSE value

\* The last value that may take another digit, and the last digit it may take.
Limits(T, base, negative) ==
    LET maxValue == IF T.signed /\ negative THEN Converted(-MinOf(T), T) ELSE MaxOf(T)
        cutOff == Converted(Quotient(Converted(maxValue, Mixed(T)), base), T)
    IN  [maxValue |-> maxValue,
         cutOff |-> IF T.signed THEN Converted(Magnitude(cutOff), T) ELSE cutOff,
         cutLim |-> Remainder(maxValue, Converted(base, T))]

\* A faulty limit lets the last value take any digit.
TooLargeLate(value, digit, limits) == value > limits.cutOff
TooLarge(value, digit, limits) ==
    value > limits.cutOff \/ (value = limits.cutOff /\ digit > limits.cutLim)

\* The digits from p on: left of them may be looked at (-1: all), and first says
\* whether none was found yet.
RECURSIVE Digits(_, _, _, _, _, _, _, _)
Digits(b, p, value, left, first, o, T, env) ==
    LET digit == IF Exhausted(b, p) THEN BYTE_NOT_VALID ELSE byte_to_digit(At(b, p), o)
        next == Converted(value * env.base + digit, T)
    IN  CASE left = 0 -> Result(handle_negative(value, env.negative, T), "SUCCESS", p)
          [] left # 0 /\ digit = IGNORE_THIS_BYTE ->
                 Digits(b, p + 1, value, left - 1, first, o, T, env)
          [] left # 0 /\ digit # IGNORE_THIS_BYTE /\ digit >= env.base ->
                 CASE ~first -> Result(handle_negative(value, env.negative, T), "SUCCESS", p)
                   [] first /\ o.LookForBasePrefix ->
                          Result(0, IF env.base = 8 THEN "SUCCESS" ELSE "INVALID", p)
                   [] OTHER -> Result(0, "INVALID", p + 1)
          [] left # 0 /\ Between(digit, 0, env.base - 1) ->
                 IF o.Bail /\ TooLarge(value, digit, env.limits)
                 THEN Result(handle_negative(IF o.ReturnLimit THEN env.limits.maxValue ELSE value,
                                             env.negative, T),
                             "TOO_MANY_DIGITS", p + 1)
                 ELSE Digits(b, p + 1, next, left - 1, FALSE, o, T, env)

Plus == \h2b
Minus == \h2d
Zero == \h30
Xs == {\h78, \h58}

\* After the sign: the base prefix, and the digits.
AfterSign(b, p, negative, base, o, T) ==
    LET zero == o.LookForBasePrefix /\ At(b, p) = Zero
        hex == zero /\ p + 1 < Len(b) /\ At(b, p + 1) \in Xs
        from == CASE hex -> p + 2 [] zero /\ ~hex -> p + 1 [] OTHER -> p
        of == CASE hex -> 16 [] zero /\ ~hex -> 8 [] OTHER -> base
    IN  IF Exhausted(b, from) THEN Result(0, "EXHAUSTED", 0)
        ELSE Digits(b, from, 0, o.MaxDigits, TRUE, o, T,
                    [base |-> of, negative |-> negative, limits |-> Limits(T, of, negative)])

\* The buffer from the offset p0 on; EXHAUSTED leaves it all, which offset 0 stands for.
parse_int(b, p0, base, o, T) ==
    LET sign == IF p0 >= Len(b) \/ ~o.ParseSign THEN 0 ELSE At(b, p0)
        p == IF sign \in {Plus, Minus} THEN p0 + 1 ELSE p0
    IN  IF p0 > Len(b) THEN Result(0, "ASSERT", p0)
        ELSE IF Exhausted(b, p0) THEN Result(0, "EXHAUSTED", 0)
        ELSE IF sign = Plus /\ ~o.AllowPlusSign THEN Result(0, "INVALID", p)
        ELSE IF Exhausted(b, p) THEN Result(0, "EXHAUSTED", 0)
        ELSE AfterSign(b, p, sign = Minus, base, o, T)

Options == [ParseSign |-> TRUE, AllowPlusSign |-> TRUE, LookForBasePrefix |-> FALSE, Bail |-> TRUE,
            ReturnLimit |-> TRUE, MaxDigits |-> -1, cases |-> {"lower", "upper"}, ignored |-> {}]

-----------------------------------------------------------------------------
\* expect_byte and expect_sequence from p on; a sequence is in lower case if the case is ignored.
Expect(b, p, sequence, ignoreCase) ==
    LET same(i) == LET ch == At(b, p + i - 1)
                   IN  (IF ignoreCase THEN to_lower(ch) ELSE ch) = sequence[i]
        fails == {i \in DOMAIN sequence : p + i > Len(b) \/ ~same(i)}
        first == Min(fails)
    IN  IF p > Len(b) THEN Result(0, "ASSERT", p)
        ELSE IF fails = {} THEN Result(0, "SUCCESS", p + Len(sequence))
        ELSE Result(0, IF p + first > Len(b) THEN "EXHAUSTED" ELSE "INVALID", p + first - 1)

true == <<116, 114, 117, 101>>
false == <<102, 97, 108, 115, 101>>

\* A word begins in lower case, whatever IgnoreCase says.
parse_bool(b, o) ==
    LET word == IF b[1] = true[1] THEN true ELSE false
        found == Expect(b, 0, word, o.IgnoreCase)
    IN  CASE b = <<>> -> Result(FALSE, "EXHAUSTED", 0)
          [] b # <<>> /\ o.ParseNumbers /\ b[1] \in {Zero, Zero + 1} ->
                 Result(b[1] = Zero + 1, "SUCCESS", 1)
          [] b # <<>> /\ o.ParseWords /\ b[1] \in {true[1], false[1]} ->
                 Result(word = true /\ found.Status = "SUCCESS", found.Status,
                        IF found.Status = "EXHAUSTED" THEN 0 ELSE found.Rest)
          [] OTHER -> Result(FALSE, "INVALID", 0)

-----------------------------------------------------------------------------
(***************************************************************************)
(* parse_guid.                                                             *)
(***************************************************************************)
\* Always two bytes are passed, also when the second is no digit or not there.
eat_hex_byte(b, p) ==
    LET r == parse_int(b, p, 16, [Options EXCEPT !.ParseSign = FALSE, !.ReturnLimit = FALSE, !.MaxDigits = 2],
                       [bits |-> 8, signed |-> FALSE])
    IN  IF r.Status = "SUCCESS" THEN [r EXCEPT !.Rest = p + 2] ELSE [r EXCEPT !.Rest = p]

\* A failure leaves the place of the fault, or the whole buffer where it ended.
Failed(r) == Result(<<>>, r.Status, IF r.Status = "EXHAUSTED" THEN 0 ELSE r.Rest)

\* One after the other what is expected: a sequence in lower case, or hex bytes.
RECURSIVE Eaten(_, _, _, _)
Eaten(b, p, expected, value) ==
    IF expected = <<>> THEN Result(value, "SUCCESS", p)
    ELSE LET hex == Head(expected) = <<>>
             r == IF hex THEN eat_hex_byte(b, p) ELSE Expect(b, p, Head(expected), TRUE)
         IN  IF r.Status # "SUCCESS" THEN Failed(r)
             ELSE Eaten(b, r.Rest, Tail(expected), IF hex THEN Append(value, r.Value) ELSE value)

HexByte == <<>>
Comma == \h2c
HexPrefix == <<Zero, \h78>>
Curly == <<\h7b, \h7d>>
Round == <<\h28, \h29>>

Nested ==
    LET bytes(n) == [i \in 1..n |-> HexByte]
        more == <<<<Comma>> \o HexPrefix>>
        last == FlattenSeq([i \in 1..7 |-> bytes(1) \o more]) \o bytes(1)
    IN  <<HexPrefix>> \o bytes(4) \o more \o bytes(2) \o more \o bytes(2)
        \o <<<<Comma, Curly[1]>> \o HexPrefix>> \o last \o <<<<Curly[2], Curly[2]>>>>

\* The sixteen bytes with or without hyphens; the byte at p is read also when there is none.
RECURSIVE Hyphenated(_, _, _, _, _)
Hyphenated(b, p, value, hyphens, relax) ==
    LET counter == Len(value)
        looks == relax \/ counter = 4 \/ (hyphens /\ counter \in {6, 8, 10})
        here == looks /\ p < Len(b) /\ At(b, p) = Minus
        from == IF here THEN p + 1 ELSE p
        r == eat_hex_byte(b, from)
    IN  CASE counter = 16 -> Result(value, "SUCCESS", p)
          [] counter < 16 /\ looks /\ p >= Len(b) -> Result(<<>>, "ASSERT", p)
          [] counter < 16 /\ here /\ Exhausted(b, from) -> Result(<<>>, "EXHAUSTED", 0)
          [] counter \in {6, 8, 10} /\ hyphens /\ p < Len(b) /\ ~here -> Result(<<>>, "INVALID", p)
          [] OTHER -> IF r.Status # "SUCCESS" THEN Failed(r)
                      ELSE Hyphenated(b, r.Rest, Append(value, r.Value),
                                      ~relax /\ (hyphens \/ here), relax)

parse_guid(b, relax) ==
    LET open == b # <<>> /\ b[1] \in {Curly[1], Round[1]}
        close == IF b[1] = Curly[1] THEN Curly[2] ELSE Round[2]
        p == IF open THEN 1 ELSE 0
        nested == p + 1 < Len(b) /\ At(b, p) = Zero /\ At(b, p + 1) \in Xs
        r == Hyphenated(b, p, <<>>, FALSE, relax)
        closed == Expect(b, r.Rest, <<close>>, FALSE)
    IN  CASE Exhausted(b, p) -> Result(<<>>, "EXHAUSTED", 0)
          [] ~Exhausted(b, p) /\ nested ->
                 IF open /\ b[1] = Curly[1] THEN Eaten(b, p, Nested, <<>>) ELSE Result(<<>>, "INVALID", 0)
          [] OTHER -> IF r.Status = "SUCCESS" /\ open
                      THEN IF closed.Status = "SUCCESS" THEN [r EXCEPT !.Rest = closed.Rest]
                           ELSE Failed(closed)
                      ELSE r

-----------------------------------------------------------------------------
(***************************************************************************)
(* The functions that pass over bytes look at four at a time first.  The   *)
(* test for a byte between the least and the greatest of a set leaves out  *)
(* both, and its fast version takes the greatest for one of them when a    *)
(* byte before it borrows.                                                 *)
(***************************************************************************)
Block(b, p) == SubSeq(b, p + 1, p + 4)
HasBetween(block, m, n) == \E i \in 1..4 : m < block[i] /\ block[i] < n
Borrows(block, i, n) == \E j \in 1..i - 1 : block[j] < n /\ \A k \in j + 1..i - 1 : block[k] = n
LikelyBetween(block, m, n) ==
    HasBetween(block, m, n) \/ \E i \in 1..4 : m < n /\ block[i] = n /\ Borrows(block, i, n)

\* The bytes before the first that Stops; blocks are passed over while Skips.
EatBytes(b, Stops(_), Skips(_)) ==
    LET blocks == 0..Len(b) \div 4
        kept == {k \in blocks : 4 * k + 4 > Len(b) \/ ~Skips(Block(b, 4 * k))}
        stops == {p \in 4 * Min(kept)..Len(b) - 1 : Stops(At(b, p))}
    IN  IF stops = {} THEN Result(-1, "EXHAUSTED", 0) ELSE Result(Min(stops), "SUCCESS", Min(stops))

eat_bytes_until(b, delim) ==
    LET stops(byte) == byte = delim
        skips(block) == delim \notin Range(block)
    IN  EatBytes(b, stops, skips)

eat_bytes_until_any_of(b, delims) ==
    LET stops(byte) == byte \in delims
        skips(block) == ~HasBetween(block, Min(delims), Max(delims))
    IN  EatBytes(b, stops, skips)

\* A block is passed over when one of its bytes is to be eaten.
eat_bytes_while(b, eats) ==
    LET stops(byte) == byte # eats
        skips(block) == eats \in Range(block)
    IN  EatBytes(b, stops, skips)

eat_bytes_while_any_of(b, eats) ==
    LET stops(byte) == byte \notin eats
        skips(block) == LikelyBetween(block, Min(eats), Max(eats))
    IN  EatBytes(b, stops, skips)

\* A continuation byte is a code point of no bytes, which is 0 and valid.
eat_code_point(b, p) ==
    LET size == SizeAt(At(b, p))
        data == [i \in 1..4 |-> IF i <= size THEN At(b, p + i - 1) ELSE 0]
    IN  CASE p >= Len(b) -> Result(0, "EXHAUSTED", p)
          [] p < Len(b) /\ p + size > Len(b) -> Result(0, "EXHAUSTED", p)
          [] OTHER -> IF is_valid_utf8(data) THEN Result(decode_cp(data, 0), "SUCCESS", p + size)
                      ELSE Result(0, "INVALID", p + size + 1)

\* The first code point that is among a set, or that is not; Value is the number of
\* bytes read.  A code point of no bytes is read again and again.
RECURSIVE EatCodePoints(_, _, _, _)
EatCodePoints(b, p, among, wanted) ==
    LET r == eat_code_point(b, p)
    IN  CASE r.Status = "EXHAUSTED" -> Result(0, "EXHAUSTED", 0)
          [] r.Status = "INVALID"   -> Result(p + 2, "INVALID", p + 1)
          [] r.Status = "SUCCESS"   -> IF (r.Value \in among) = wanted THEN Result(p, "SUCCESS", p)
                                       ELSE IF r.Rest = p THEN Result(0, "NEVER", p)
                                       ELSE EatCodePoints(b, r.Rest, among, wanted)

eat_code_points_until_any_of(b, delims) == EatCodePoints(b, 0, delims, TRUE)
eat_code_points_while_any_of(b, eats) == EatCodePoints(b, 0, eats, FALSE)
eat_white_space(b) == EatCodePoints(b, 0, {cp \in 0..32 : is_space(cp)}, FALSE)
=============================================================================
