--------------------------- MODULE TextFunctions ---------------------------
(***************************************************************************)
(* What the functions of Utf8 promise each other, and what those of Parse  *)
(* return for texts written by a reference: an integer in digits, a word,  *)
(* a guid in the formats of the tests, and buffers to pass over.           *)
(***************************************************************************)
EXTENDS Parse, Calls

CONSTANTS CodePoints, Boundaries, LeadBytes, TailBytes, Letters,
          Types,        \* the integer types
          NumberBytes, MaxNumber,   \* buffers that may hold a number
          PlainBytes, MaxPlain,     \* buffers of bytes, and of code points
          UnitBytes, MaxUnits

Words == {<<>>} \cup {<<c>> : c \in Letters} \cup {<<c, d>> : c, d \in Letters}

Encode == \E cp \in CodePoints : Call("encode_cp", cp, encode_cp(cp))
Validate == \E lead \in LeadBytes, i, j, k \in TailBytes :
               LET d == <<lead, i, j, k>> IN Call("is_valid_utf8", d, is_valid_utf8(d))
ChangeCase == \E cp \in CodePoints : Call("to_upper", cp, <<to_upper(cp), to_lower(cp)>>)
Widen == \E c, d \in Boundaries : LET s == encode_cp(c) \o encode_cp(d)
                                  IN  Call("utf8_to_utf16", <<c, d>>, utf8_to_utf16(s, utf8_length(s)))
Compare == \E a, b \in Words :
    Call("compare_c_string", <<a, b>>,
         [index |-> compare_c_string(a, b), sign |-> compare_c_string_lexicographically(a, b),
          back |-> compare_c_string_lexicographically(b, a),
          indexIgnoring |-> compare_c_string_ignore_case(a, b),
          signIgnoring |-> compare_c_string_lexicographically_ignore_case(a, b)])

ParseInt == \E b \in BoundedSeq(NumberBytes, MaxNumber), T \in Types, base \in {8, 10, 16},
              prefix, plus \in BOOLEAN :
    LET o == [Options EXCEPT !.LookForBasePrefix = prefix, !.AllowPlusSign = plus]
    IN  Call("parse_int", [b |-> b, T |-> T, base |-> base, o |-> o], parse_int(b, 0, base, o, T))

\* The words, with a byte changed, cut off and with a byte behind.
Altered(s, i, byte) == [s EXCEPT ![i] = byte]
ParseBool == \E word \in {true, false}, ignore \in BOOLEAN :
             \E i \in DOMAIN word, cut \in 0..Len(word) : \E byte \in {word[i], word[i] - 32, 120} :
    LET b == SubSeq(Altered(word, i, byte), 1, cut) \o IF cut = Len(word) THEN <<120>> ELSE <<>>
    IN  Call("parse_bool", [b |-> b, word |-> word, i |-> i, byte |-> byte, ignore |-> ignore],
             parse_bool(b, [ParseNumbers |-> TRUE, ParseWords |-> TRUE, IgnoreCase |-> ignore]))

\* A guid in the formats n, d, b, p and x.
Guid == [i \in 1..16 |-> (37 * i) % 256]
HexDigit(n) == IF n < 10 THEN n + \h30 ELSE n - 10 + 97
Hex(i) == <<HexDigit(Guid[i] \div 16), HexDigit(Guid[i] % 16)>>
RECURSIVE Written(_, _)
Written(expected, i) ==
    IF expected = <<>> THEN <<>>
    ELSE IF Head(expected) = HexByte THEN Hex(i) \o Written(Tail(expected), i + 1)
    ELSE Head(expected) \o Written(Tail(expected), i)
Dashed == [i \in 1..20 |-> IF i \in {5, 8, 11, 14} THEN <<Minus>> ELSE HexByte]
Formats == [n |-> [i \in 1..16 |-> HexByte], d |-> Dashed,
            b |-> <<<<Curly[1]>>>> \o Dashed \o <<<<Curly[2]>>>>,
            p |-> <<<<Round[1]>>>> \o Dashed \o <<<<Round[2]>>>>,
            x |-> <<<<Curly[1]>>>> \o Nested]

ParseGuid == \E f \in DOMAIN Formats : \E i \in 0..Len(Written(Formats[f], 1)), cut \in BOOLEAN, relax \in BOOLEAN :
    LET s == Written(Formats[f], 1)
        b == CASE i = 0 -> s \o <<120>> [] i > 0 /\ cut -> SubSeq(s, 1, i - 1)
               [] OTHER -> Altered(s, i, 103)
    IN  Call("parse_guid", [format |-> f, i |-> i, cut |-> cut, length |-> Len(s)], parse_guid(b, relax))

PassBytes == \E b \in BoundedSeq(PlainBytes, MaxPlain), set \in SUBSET PlainBytes \ {{}} :
    Call("eat_bytes", [b |-> b, set |-> set],
         [until |-> eat_bytes_until(b, Min(set)), untilAny |-> eat_bytes_until_any_of(b, set),
          while |-> eat_bytes_while(b, Min(set)), whileAny |-> eat_bytes_while_any_of(b, set)])

PassCodePoints == \E b \in BoundedSeq(UnitBytes, MaxUnits) :
    Call("eat_code_points", b, [until |-> eat_code_points_until_any_of(b, {32}),
                                while |-> eat_code_points_while_any_of(b, {97, \he9}),
                                space |-> eat_white_space(b)])

Next == Ready /\ (Encode \/ Validate \/ ChangeCase \/ Widen \/ Compare
                  \/ ParseInt \/ ParseBool \/ ParseGuid \/ PassBytes \/ PassCodePoints)

Spec == Init /\ [][Next]_call

-----------------------------------------------------------------------------
Surrogate(cp) == Between(cp, \hd800, \hdfff)
Pair(cp) == cp > \hffff

\* The bytes are those of one code point that is no surrogate.
EncodesScalar(d) ==
    LET size == SizeAt(d[1])
        cp == decode_cp(d, 0)
    IN  size > 0 /\ Between(cp, 0, \h10ffff) /\ ~Surrogate(cp) /\ encode_cp(cp) = SubSeq(d, 1, size)

\* The comment at string_utils.h 400 restricts the last of four bytes like the third; the code
\* looks at the third alone.
LastByteUnread(d) == SizeAt(d[1]) = 4 /\ ~IsContinuation(d[4])

\* string_utils.h: what is encoded is valid and decodes to itself; valid bytes are the encoding of
\* one scalar value, but for a bad last byte of four; both cases of a letter
\* have the same upper and the same lower case; UTF-16 gives back the code points below 0x10000,
\* and pairs are a lead and a trail; comparing finds equality and the order of the first
\* difference.
ConversionsAgree ==
    LET in == call.in
        out == call.out
    IN  CASE call.of = "encode_cp" -> /\ decode_cp(out, 0) = in /\ Len(out) = SizeOf(in)
                                      /\ SizeAt(out[1]) = Len(out) /\ utf8_length(out) = 1
                                      /\ is_valid_utf8(out \o <<0, 0, 0>>) = ~Surrogate(in)
          [] call.of = "is_valid_utf8" -> LastByteUnread(in) \/ out = EncodesScalar(in)
          [] call.of = "to_upper" -> /\ to_lower(out[1]) = out[2] /\ to_upper(out[2]) = out[1]
          [] call.of = "utf8_to_utf16" ->
                 LET pairs == Len(SelectSeq(in, Pair))
                 IN  /\ Len(out) = 2 + pairs /\ \A i \in DOMAIN out : out[i] < 2^16
                     /\ pairs = 0 /\ (\A i \in DOMAIN in : ~Surrogate(in[i])) =>
                            utf16_to_utf8(out) = utf32_to_utf8(in)
          [] call.of = "compare_c_string" ->
                 /\ (out.index = -1) = (in[1] = in[2]) /\ (out.sign = 0) = (in[1] = in[2])
                 /\ out.sign = -out.back
                 /\ (out.indexIgnoring = -1) = (Lowered(in[1]) = Lowered(in[2]))
                 /\ out.index >= 0 /\ out.indexIgnoring >= 0 => out.index <= out.indexIgnoring
          [] OTHER -> TRUE

-----------------------------------------------------------------------------
RECURSIVE Number(_, _)
Number(digits, base) == IF digits = <<>> THEN 0
                        ELSE Number(Front(digits), base) * base + byte_to_digit(Last(digits), Options)

\* The greatest magnitude of a number of the type; what is below zero of an unsigned type wraps.
Largest(T, negative) == IF negative /\ T.signed THEN -MinOf(T) ELSE MaxOf(T)

\* The digits from the offset p on, and those that make the number too large.
Run(b, p, base) == {n \in 1..Len(b) - p : \A i \in p..p + n - 1 : Between(byte_to_digit(At(b, i), Options), 0, base - 1)}
Beyond(b, p, base, largest) == {n \in Run(b, p, base) : Number(SubSeq(b, p + 1, p + n), base) > largest}

\* Where the code does otherwise than parse.h's comment at 183-207 says: it takes no last digit of the
\* numbers of signed types next to the least (206), whose division fails for types below int.
NearTheLeast(b, from, base, T) ==
    \E n \in Run(b, from, base) : LET v == Number(SubSeq(b, from + 1, from + n), base)
                                  IN  v \div base = -MinOf(T) \div base /\ v <= -MinOf(T)
LeastUnread(b, from, base, T) == T.signed /\ (T.bits < IntBits \/ NearTheLeast(b, from, base, T))

\* parse.h, lines 180-207: the sign, the prefix, then the digits; a number that fits its type is
\* read whole; one that does not ends with the digit that is too many and gives the limit of the
\* type, where the code gives 1 for the least number of an unsigned one.  After the prefix of base 8
\* no digit need follow (251); without the prefix the code takes none in base 8 either.
IntIsRead(b, T, base, o, r) ==
    LET negative == b # <<>> /\ b[1] = Minus
        signed == b # <<>> /\ b[1] \in {Plus, Minus}
        p == IF signed THEN 1 ELSE 0
        zero == o.LookForBasePrefix /\ p < Len(b) /\ At(b, p) = Zero
        hex == zero /\ p + 1 < Len(b) /\ At(b, p + 1) \in Xs
        from == p + (IF hex THEN 2 ELSE IF zero THEN 1 ELSE 0)
        of == IF hex THEN 16 ELSE IF zero THEN 8 ELSE base
        digits == IF from > Len(b) THEN {} ELSE Run(b, from, of)
        beyond == Beyond(b, from, of, Largest(T, negative))
        value(n) == LET v == Number(SubSeq(b, from + 1, from + n), of) IN IF negative THEN -v ELSE v
        noDigitOfBase8 == o.LookForBasePrefix /\ ~zero /\ base = 8 /\ digits = {}
    IN  CASE signed /\ ~negative /\ ~o.AllowPlusSign -> r = Result(0, "INVALID", 1)
          [] from >= Len(b) -> r = Result(0, "EXHAUSTED", 0)
          [] digits = {} -> noDigitOfBase8 \/
                            (r.Value = 0 /\ r.Status = IF zero /\ ~hex THEN "SUCCESS" ELSE "INVALID")
          [] negative /\ LeastUnread(b, from, of, T) -> TRUE
          [] beyond = {} -> r = Result(Converted(value(Max(digits)), T), "SUCCESS", from + Max(digits))
          [] OTHER -> /\ r.Status = "TOO_MANY_DIGITS" /\ r.Rest = from + Min(beyond)
                      /\ (negative /\ ~T.signed) \/ r.Value = IF negative THEN MinOf(T) ELSE MaxOf(T)

\* parse.h, lines 370-385: a word in the case asked for is read, and nothing else; what only begins
\* one is exhausted.  The code takes no first letter in the other case (403, 411).
OtherFirstLetter(in) == in.ignore /\ in.i = 1 /\ in.byte = in.word[1] - 32
BoolIsRead(in, r) ==
    LET same == in.byte = in.word[in.i] \/ (in.ignore /\ in.byte = in.word[in.i] - 32)
        whole == Len(in.b) > Len(in.word)
        status == CASE whole /\ same -> "SUCCESS"
                    [] ~whole /\ (same \/ Len(in.b) < in.i) -> "EXHAUSTED"
                    [] OTHER -> "INVALID"
    IN  OtherFirstLetter(in) \/ /\ r.Status = status
                                /\ status = "SUCCESS" => r.Value = (in.word = true) /\ r.Rest = Len(in.word)
                                /\ status = "EXHAUSTED" => r.Rest = 0

\* parse.h, lines 455-465: a guid is read from all its formats.  What was cut off or altered is
\* not taken for one, unless the second digit of a byte is what is missing.
Second(in) == LET s == Written(Formats[in.format], 1)
              IN  in.i > 1 /\ is_hex_digit(s[in.i]) /\ is_hex_digit(s[in.i - 1])
GuidIsRead(in, r) ==
    IF in.i = 0 THEN r = Result(Guid, "SUCCESS", in.length)
    ELSE r.Status = "SUCCESS" => Second(in) /\ r.Rest = in.length

\* The bytes before the first that stops.  One that stops within a whole block of four may be Hidden
\* from the code, which then goes on behind its block.
Stop(b, Stops(_)) == LET stops == {p \in 0..Len(b) - 1 : Stops(At(b, p))}
                     IN  IF stops = {} THEN Result(-1, "EXHAUSTED", 0)
                         ELSE Result(Min(stops), "SUCCESS", Min(stops))
Passes(b, r, Stops(_), Hidden(_, _)) ==
    LET exact == Stop(b, Stops)
        start == (exact.Value \div 4) * 4
    IN  \/ r = exact
        \/ /\ exact.Status = "SUCCESS" /\ start + 4 <= Len(b) /\ Hidden(At(b, exact.Value), Block(b, start))
           /\ r.Status = "SUCCESS" => r.Value >= start + 4 /\ Stops(At(b, r.Value))

\* parse.h, lines 597-672: the test between the least and the greatest of a set leaves out both, and
\* a block is passed over when one of its bytes is to be eaten.
BytesArePassed(in, out) ==
    /\ out.until = Stop(in.b, LAMBDA byte : byte = Min(in.set))
    /\ Passes(in.b, out.untilAny, LAMBDA byte : byte \in in.set,
              LAMBDA byte, block : ~\E x \in Range(block) : Min(in.set) < x /\ x < Max(in.set))
    /\ Passes(in.b, out.while, LAMBDA byte : byte # Min(in.set), LAMBDA byte, block : Min(in.set) \in Range(block))
    /\ Passes(in.b, out.whileAny, LAMBDA byte : byte \notin in.set,
              LAMBDA byte, block : \E x \in Range(block) : Min(in.set) < x /\ x <= Max(in.set))

RECURSIVE Whole(_)
Whole(b) == \/ b = <<>>
            \/ LET size == SizeAt(b[1])
               IN  Between(size, 1, Len(b)) /\ EncodesScalar(b) /\ Whole(SubSeq(b, size + 1, Len(b)))
CodePointsOf(b) == Range(utf8_to_utf32(b, utf8_length(b)))

\* parse.h, lines 710-723: the longest beginning of valid code points that go is passed over; a code
\* point that does not go stops it, and so does the first byte of what is none.  The code never
\* ends at a continuation byte (693).
CodePointsArePassed(b, r, Goes(_)) ==
    LET n == Max({m \in 0..Len(b) : Whole(SubSeq(b, 1, m)) /\ \A cp \in CodePointsOf(SubSeq(b, 1, m)) : Goes(cp)})
        rest == SubSeq(b, n + 1, Len(b))
    IN  CASE rest = <<>> -> r.Status = "EXHAUSTED"
          [] rest # <<>> /\ IsContinuation(rest[1]) -> TRUE
          [] rest # <<>> /\ SizeAt(rest[1]) > Len(rest) -> r.Status = "EXHAUSTED"
          [] OTHER -> IF EncodesScalar(rest) THEN r = Result(n, "SUCCESS", n)
                      ELSE r.Status = "INVALID" /\ r.Rest = n + 1

\* parse.h: every function returns what the reference reads, but for the inputs named above.
ParsedAsWritten ==
    LET in == call.in
        out == call.out
    IN  CASE call.of = "parse_int" -> IntIsRead(in.b, in.T, in.base, in.o, out)
          [] call.of = "parse_bool" -> BoolIsRead(in, out)
          [] call.of = "parse_guid" -> GuidIsRead(in, out)
          [] call.of = "eat_bytes" -> BytesArePassed(in, out)
          [] call.of = "eat_code_points" ->
                 /\ CodePointsArePassed(in, out.until, LAMBDA cp : cp # 32)
                 /\ CodePointsArePassed(in, out.while, LAMBDA cp : cp \in {97, \he9})
                 /\ CodePointsArePassed(in, out.space, is_space)
          [] OTHER -> TRUE
============================================================================
