------------------------------ MODULE Strings ------------------------------
(***************************************************************************)
(* string (lstd/memory/string.h and string.cpp): an array of bytes with    *)
(* the number of its code points kept beside it.  What the array does with *)
(* its memory is module Array's: here its bytes are a sequence.  User code *)
(* gives indices that the asserts of translate_index accept, and strings   *)
(* that are valid UTF-8.                                                   *)
(***************************************************************************)
EXTENDS Utf8

CONSTANTS CodePoints,   \* what strings are made of
          Words,        \* the sequences of them that user code inserts and searches
          Blanks,       \* the code points that trim removes
          MaxText       \* bound: the length of a string

VARIABLES str,    \* its bytes, and Length
          text    \* history: the code points it should have

vars == <<str, text>>

OfBytes(bytes) == [bytes |-> bytes, Length |-> utf8_length(bytes)]
Encoded(word) == utf32_to_utf8(word)

TranslateIndex(index, length) == IF index < 0 THEN length + index ELSE index
OffsetOf(s, index) == get_cp_at_index(s.bytes, TranslateIndex(index, s.Length))

Spliced(bytes, from, to, by) == SubSeq(bytes, 1, from) \o by \o SubSeq(bytes, to + 1, Len(bytes))

Init == str = OfBytes(<<>>) /\ text = <<>>

-----------------------------------------------------------------------------
(***************************************************************************)
(* The operations that change a string.                                    *)
(***************************************************************************)
Repeated(cp, n) ==
    [bytes |-> FlattenSeq([i \in 1..n |-> encode_cp(cp)]), Length |-> n]

InsertedCodePoint(s, index, cp) ==
    LET at == OffsetOf(s, index)
    IN  [bytes |-> Spliced(s.bytes, at, at, encode_cp(cp)), Length |-> s.Length + 1]

InsertedBytes(s, index, bytes) ==
    LET at == OffsetOf(s, index)
    IN  [bytes |-> Spliced(s.bytes, at, at, bytes), Length |-> s.Length + utf8_length(bytes)]

\* A faulty assignment takes the new code point for as long as the old one.
OverwrittenAt(s, index, cp) ==
    LET at == OffsetOf(s, index)
    IN  [s EXCEPT !.bytes = Spliced(@, at, at + SizeOf(cp), encode_cp(cp))]

SetAt(s, index, cp) ==
    LET at == OffsetOf(s, index)
    IN  [s EXCEPT !.bytes = Spliced(@, at, at + SizeAt(@[at + 1]), encode_cp(cp))]

RemovedAt(s, index) ==
    LET at == OffsetOf(s, index)
    IN  [bytes |-> Spliced(s.bytes, at, at + SizeAt(s.bytes[at + 1]), <<>>),
         Length |-> s.Length - 1]

RemovedRange(s, begin, end) ==
    [bytes |-> Spliced(s.bytes, OffsetOf(s, begin), OffsetOf(s, end), <<>>),
     Length |-> s.Length - (TranslateIndex(end, s.Length) - TranslateIndex(begin, s.Length))]

OccursAt(s, word, p) == p + Len(word) <= Len(s) /\ SubSeq(s, p + 1, p + Len(word)) = word

\* array_replace_all: from left to right, not into what was put in.
WithReplaced(s, word, by) ==
    LET from[p \in 0..Len(s)] ==
            LET at == FirstOf({q \in p..Len(s) - Len(word) : OccursAt(s, word, q)})
            IN  IF at = -1 THEN SubSeq(s, p + 1, Len(s))
                ELSE SubSeq(s, p + 1, at) \o by \o from[at + Len(word)]
    IN  from[0]

ReplacedAll(s, old, new) == OfBytes(WithReplaced(s.bytes, Encoded(old), Encoded(new)))

-----------------------------------------------------------------------------
(***************************************************************************)
(* The searches work on bytes and give the index of a code point.  A start *)
(* outside the string finds nothing, and so does -Length.  The loops that  *)
(* go over four bytes at a time pass only bytes that do not begin a match. *)
(***************************************************************************)
OutOfRange(s, start) == start >= s.Length \/ start <= -s.Length
\* A faulty search gives the offset.
OffsetFound(s, p) == p
IndexAt(s, p) == IF p = -1 THEN -1 ELSE utf8_length(SubSeq(s.bytes, 1, p))
Offsets(s, from) == from..Len(s.bytes) - 1

find_substring(s, needle, start) ==
    LET hits == {p \in Offsets(s, OffsetOf(s, start)) : OccursAt(s.bytes, needle, p)}
    IN  IF OutOfRange(s, start) THEN -1 ELSE IndexAt(s, FirstOf(hits))

\* Every byte of it differs from the byte of eat it stands against.
DiffersAt(bytes, eat, p) == /\ p + Len(eat) <= Len(bytes)
                            /\ \A i \in DOMAIN eat : bytes[p + i] # eat[i]

find_substring_not(s, eat, start) ==
    LET hits == {p \in Offsets(s, OffsetOf(s, start)) : DiffersAt(s.bytes, eat, p)}
    IN  IF OutOfRange(s, start) THEN -1 ELSE IndexAt(s, FirstOf(hits))

\* The last code point before start; 0 stands for the end.
LastBefore(s, start) ==
    TranslateIndex(IF start = 0 THEN s.Length ELSE start, s.Length) - 1

\* The loop back from an offset ends before it looks at 0, unless it goes there
\* from a byte further on that cannot begin a match.
LookedAt(from, MayBegin(_)) == 1..from \cup (IF from > 0 /\ ~MayBegin(1) THEN {0} ELSE {})

find_substring_reverse(s, needle, start) ==
    LET from == get_cp_at_index(s.bytes, LastBefore(s, start))
        begins(p) == s.bytes[p + 1] = needle[1]
    IN  IF OutOfRange(s, start) THEN -1
        ELSE IndexAt(s, LastOf({p \in LookedAt(from, begins) : OccursAt(s.bytes, needle, p)}))

find_substring_reverse_not(s, eat, start) ==
    LET from == get_cp_at_index(s.bytes, LastBefore(s, start))
        begins(p) == s.bytes[p + 1] # eat[1]
    IN  IF OutOfRange(s, start) THEN -1
        ELSE IndexAt(s, LastOf({p \in LookedAt(from, begins) : DiffersAt(s.bytes, eat, p)}))

find_cp(s, cp, start) == find_substring(s, encode_cp(cp), start)
has(s, cp) == find_cp(s, cp, 0) # -1

\* find_any_of if wanted, find_not_any_of if not.
find_if_any_of(s, anyOfThese, start, wanted) ==
    LET hits == {i \in TranslateIndex(start, s.Length)..s.Length - 1 :
                    has(anyOfThese, decode_cp(s.bytes, OffsetOf(s, i))) = wanted}
    IN  IF OutOfRange(s, start) THEN -1 ELSE FirstOf(hits)

\* The loop back steps by the size of the code point it leaves, not of the one it
\* goes to.  BeforeStart: it reads in front of the string.
BeforeStart == -2
LookBack(s, anyOfThese, p, i, wanted) ==
    LET from[q \in Int, j \in Int] ==
            IF j < 0 THEN -1
            ELSE IF q < 0 THEN BeforeStart
            ELSE IF has(anyOfThese, decode_cp(s.bytes, q)) = wanted THEN IndexAt(s, q)
            ELSE from[q - SizeAt(s.bytes[q + 1]), j - 1]
    IN  from[p, i]

find_reverse_if_any_of(s, anyOfThese, start, wanted) ==
    IF OutOfRange(s, start) THEN -1
    ELSE LookBack(s, anyOfThese, get_cp_at_index(s.bytes, LastBefore(s, start)),
                  LastBefore(s, start), wanted)

count(s, needle) ==
    Cardinality({i \in 0..s.Length - 1 : find_substring(s, needle, i) = i})

-----------------------------------------------------------------------------
\* compare and its versions, over code points.
Units(s) == utf8_to_utf32(s.bytes, s.Length)
compare(s, other) == Compared(Units(s), Units(other))
compare_ignore_case(s, other) == Compared(Lowered(Units(s)), Lowered(Units(other)))

OrderOf(a, b) == IF Compared(a, b) = -1 THEN 0
                 ELSE IF IsPrefix(a, b) THEN -1
                 ELSE IF IsPrefix(b, a) THEN 1
                 ELSE LET i == Compared(a, b) + 1 IN Sign(a[i] - b[i])
compare_lexicographically(a, b) == OrderOf(Units(a), Units(b))
compare_lexicographically_ignore_case(a, b) == OrderOf(Lowered(Units(a)), Lowered(Units(b)))

substring(s, begin, end) ==
    IF begin = end THEN OfBytes(<<>>)
    ELSE OfBytes(SubSeq(s.bytes, OffsetOf(s, begin) + 1, OffsetOf(s, end)))

match_beginning(s, word) == Len(word) <= Len(s.bytes) /\ OccursAt(s.bytes, word, 0)
match_end(s, word) == /\ Len(word) <= Len(s.bytes)
                      /\ OccursAt(s.bytes, word, Len(s.bytes) - Len(word))

trim_start(s) == substring(s, find_if_any_of(s, OfBytes(Blanks), 0, FALSE), s.Length)
trim_end(s) == substring(s, 0, find_reverse_if_any_of(s, OfBytes(Blanks), 0, FALSE) + 1)

-----------------------------------------------------------------------------
Becomes(s, t) == Len(t) <= MaxText /\ str' = s /\ text' = t

At(index) == TranslateIndex(index, Len(text))
Indices(n) == -Len(text)..n
Inserted(index, word) == Spliced(text, At(index), At(index), word)

Construct == \E cp \in CodePoints, n \in 0..2 : Becomes(Repeated(cp, n), [i \in 1..n |-> cp])
Clone == \E word \in Words :
            Becomes(InsertedBytes(OfBytes(<<>>), 0, Encoded(word)), word)
InsertCodePoint == \E index \in Indices(Len(text)), cp \in CodePoints :
    Becomes(InsertedCodePoint(str, index, cp), Inserted(index, <<cp>>))
InsertWord == \E index \in Indices(Len(text)), word \in Words :
    Becomes(InsertedBytes(str, index, Encoded(word)), Inserted(index, word))
Set == \E index \in Indices(Len(text) - 1), cp \in CodePoints :
    Becomes(SetAt(str, index, cp), Spliced(text, At(index), At(index) + 1, <<cp>>))
RemoveAt1 == \E index \in Indices(Len(text) - 1) :
    Becomes(RemovedAt(str, index), Spliced(text, At(index), At(index) + 1, <<>>))
RemoveRange == \E begin \in Indices(Len(text) - 1), end \in Indices(Len(text)) :
    /\ At(begin) <= At(end)
    /\ Becomes(RemovedRange(str, begin, end), Spliced(text, At(begin), At(end), <<>>))
ReplaceAllWords == \E old, new \in Words :
    old # <<>> /\ Becomes(ReplacedAll(str, old, new), WithReplaced(text, old, new))

Next == Construct \/ Clone \/ InsertCodePoint \/ InsertWord \/ Set \/ RemoveAt1 \/ RemoveRange
        \/ ReplaceAllWords

Spec == Init /\ [][Next]_vars

-----------------------------------------------------------------------------
TypeOK == /\ str.bytes \in Seq(0..255) /\ str.Length \in 0..MaxText
          /\ text \in Seq(CodePoints)

\* string.h, lines 13-19: the bytes are those of the code points the operations should have
\* left, and the cached Length is their number.
StringIsValue == str = [bytes |-> Encoded(text), Length |-> Len(text)]

Starts == 1 - Len(text)..Len(text) - 1
Found(word) == {i \in 0..Len(text) - Len(word) : OccursAt(text, word, i)}
Where(Holds(_)) == {i \in 0..Len(text) - 1 : Holds(text[i + 1])}
From(hits, start) == FirstOf({i \in hits : i >= At(start)})
Until(hits, start) == LastOf({i \in hits : i <= LastBefore(str, start)})

Ascii(word) == \A cp \in Range(word) : SizeOf(cp) = 1
OneSize == \A c, d \in Range(text) : SizeOf(c) = SizeOf(d)
\* The result, which may miss what lies at the very start.
OrMissed(hits, start) == {Until(hits, start)} \cup (IF Until(hits, start) = 0 THEN {-1} ELSE {})

\* string.h, lines 341-370 and 523-620: the first occurrence of a word from a start on, the first
\* code point that is or is not in a set, and how often a word occurs.
ForwardAgrees == \A word \in Words \ {<<>>}, start \in Starts :
    LET among(cp) == cp \in Range(word)
        others(cp) == cp # word[1]
    IN  /\ find_substring(str, Encoded(word), start) = From(Found(word), start)
        /\ count(str, Encoded(word)) = Cardinality(Found(word))
        /\ find_if_any_of(str, OfBytes(Encoded(word)), start, TRUE) = From(Where(among), start)
        /\ Len(word) = 1 /\ Ascii(word)
              => find_substring_not(str, Encoded(word), start) = From(Where(others), start)

\* string.h, lines 385-415 and 478-560: the last one before a start, except that an occurrence at
\* the start of the string may be missed; in a set, or not in it, when the code points of the
\* string have one size.
ReverseAgrees == \A word \in Words \ {<<>>}, start \in Starts :
    LET among(cp) == cp \in Range(word)
        others(cp) == cp # word[1]
    IN  /\ find_substring_reverse(str, Encoded(word), start) \in OrMissed(Found(word), start)
        /\ OneSize => find_reverse_if_any_of(str, OfBytes(Encoded(word)), start, TRUE)
                          = Until(Where(among), start)
        /\ Ascii(text) /\ Ascii(word) /\ Len(word) = 1
              => find_substring_reverse_not(str, Encoded(word), start)
                     \in OrMissed(Where(others), start)

\* string.h, lines 251-335: -1 for equal strings only; else the place of the first difference,
\* unless one string is the start of the other; the lexicographical order; substrings and ends.
ComparesAgree == \A word \in Words :
    LET other == OfBytes(Encoded(word))
        prefix == IsPrefix(word, text) \/ IsPrefix(text, word)
    IN  /\ (compare(str, other) = -1) = (text = word)
        /\ ~prefix => compare(str, other) = Len(LongestCommonPrefix({text, word}))
        /\ compare_lexicographically(str, other) = -compare_lexicographically(other, str)
        /\ (compare_lexicographically_ignore_case(str, other) = 0) = (Lowered(text) = Lowered(word))
        /\ (compare_ignore_case(str, other) = -1) = (Lowered(text) = Lowered(word))
        /\ match_beginning(str, Encoded(word)) = IsPrefix(word, text)
        /\ match_end(str, Encoded(word)) = IsSuffix(word, text)

\* string.h: all searches and comparisons agree with the sequence of code points.
SearchesAgree == text # <<>> => ForwardAgrees /\ ReverseAgrees /\ ComparesAgree

\* string.h, line 662: "Returns a substring with white space removed at the end."
TrimEndTrims == text # <<>> => LET t == trim_end(str)
                IN  t.Length = 0 \/ Units(t)[t.Length] \notin Range(Blanks)
=============================================================================
