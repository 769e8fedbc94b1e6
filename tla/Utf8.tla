-------------------------------- MODULE Utf8 --------------------------------
(***************************************************************************)
(* lstd/memory/string_utils.h: code points, their encodings and the        *)
(* comparison of strings that end with a zero.  A string is a sequence of  *)
(* units: bytes 0..255 (char is signed in the build, which shows only when *)
(* a continuation byte is taken for a code point), 16 bit units or code    *)
(* points.  Offsets and indices count from 0, as in the code.              *)
(***************************************************************************)
EXTENDS Integers, SequencesExt

\* The first of a set of offsets, and the last; -1 is the code's "not found".
FirstOf(offsets) == IF offsets = {} THEN -1 ELSE Min(offsets)
LastOf(offsets) == IF offsets = {} THEN -1 ELSE Max(offsets)

Between(x, m, n) == m <= x /\ x <= n

is_digit(c) == Between(c, \h30, \h39)
is_hex_digit(c) == is_digit(c) \/ Between(c, \h61, \h66) \/ Between(c, \h41, \h46)
is_space(c) == Between(c, 9, 13) \/ c = 32
is_alpha(c) == Between(c, 65, 90) \/ Between(c, 97, 122)
is_identifier_start(c) == is_alpha(c) \/ c = \h5f

-----------------------------------------------------------------------------
(***************************************************************************)
(* Upper and lower case.  In some ranges they lie 32 apart, in others they *)
(* are neighbours and the upper one is even, or odd; the rest are pairs.   *)
(***************************************************************************)
InSome(ranges, cp) == \E r \in ranges : Between(cp, r[1], r[2])

EvenUppers == {<<\h0100, \h012f>>, <<\h0132, \h0137>>, <<\h014a, \h0177>>, <<\h0182, \h0185>>,
               <<\h01a0, \h01a5>>, <<\h01de, \h01ef>>, <<\h01f8, \h021f>>, <<\h0222, \h0233>>,
               <<\h0246, \h024f>>, <<\h03d8, \h03ef>>}
OddUppers == {<<\h0139, \h0148>>, <<\h0179, \h017e>>, <<\h01af, \h01b0>>, <<\h01b3, \h01b6>>,
              <<\h01cd, \h01dc>>}

\* The single cases of to_upper, each with its upper case.
Uppers == {<<\h00ff, \h0178>>, <<\h0180, \h0243>>, <<\h01dd, \h018e>>, <<\h019a, \h023d>>, <<\h019e, \h0220>>,
           <<\h0292, \h01b7>>, <<\h01c6, \h01c4>>, <<\h01c9, \h01c7>>, <<\h01cc, \h01ca>>, <<\h01f3, \h01f1>>,
           <<\h01bf, \h01f7>>, <<\h0188, \h0187>>, <<\h018c, \h018b>>, <<\h0192, \h0191>>, <<\h0199, \h0198>>,
           <<\h01a8, \h01a7>>, <<\h01ad, \h01ac>>, <<\h01b0, \h01af>>, <<\h01b9, \h01b8>>, <<\h01bd, \h01bc>>,
           <<\h01f5, \h01f4>>, <<\h023c, \h023b>>, <<\h0242, \h0241>>, <<\h037b, \h03fd>>, <<\h037c, \h03fe>>,
           <<\h037d, \h03ff>>, <<\h03f3, \h037f>>, <<\h03ac, \h0386>>, <<\h03ad, \h0388>>, <<\h03ae, \h0389>>,
           <<\h03af, \h038a>>, <<\h03cc, \h038c>>, <<\h03cd, \h038e>>, <<\h03ce, \h038f>>, <<\h0371, \h0370>>,
           <<\h0373, \h0372>>, <<\h0377, \h0376>>, <<\h03d1, \h03f4>>, <<\h03d7, \h03cf>>, <<\h03f2, \h03f9>>,
           <<\h03f8, \h03f7>>, <<\h03fb, \h03fa>>}

\* The single cases of to_lower, each with its lower case.
Lowers == {<<\h0178, \h00ff>>, <<\h0243, \h0180>>, <<\h018e, \h01dd>>, <<\h023d, \h019a>>, <<\h0220, \h019e>>,
           <<\h01b7, \h0292>>, <<\h01c4, \h01c6>>, <<\h01c7, \h01c9>>, <<\h01ca, \h01cc>>, <<\h01f1, \h01f3>>,
           <<\h01f7, \h01bf>>, <<\h0187, \h0188>>, <<\h018b, \h018c>>, <<\h0191, \h0192>>, <<\h0198, \h0199>>,
           <<\h01a7, \h01a8>>, <<\h01ac, \h01ad>>, <<\h01af, \h01b0>>, <<\h01b8, \h01b9>>, <<\h01bc, \h01bd>>,
           <<\h01f4, \h01f5>>, <<\h023b, \h023c>>, <<\h0241, \h0242>>, <<\h03fd, \h037b>>, <<\h03fe, \h037c>>,
           <<\h03ff, \h037d>>, <<\h037f, \h03f3>>, <<\h0386, \h03ac>>, <<\h0388, \h03ad>>, <<\h0389, \h03ae>>,
           <<\h038a, \h03af>>, <<\h038c, \h03cc>>, <<\h038e, \h03cd>>, <<\h038f, \h03ce>>, <<\h0370, \h0371>>,
           <<\h0372, \h0373>>, <<\h0376, \h0377>>, <<\h03f4, \h03d1>>, <<\h03cf, \h03d7>>, <<\h03f9, \h03f2>>,
           <<\h03f7, \h03f8>>, <<\h03fa, \h03fb>>}

Mapped(pairs, cp) == IF \E p \in pairs : p[1] = cp
                     THEN (CHOOSE p \in pairs : p[1] = cp)[2] ELSE cp

to_upper(cp) ==
    CASE InSome({<<\h61, \h7a>>, <<\he0, \hf6>>, <<\hf8, \hfe>>, <<\h03b1, \h03c1>>, <<\h03c3, \h03cb>>}, cp)
                               -> cp - 32
      [] InSome(EvenUppers, cp) -> cp - (cp % 2)
      [] InSome(OddUppers, cp)  -> cp - 1 + (cp % 2)
      [] OTHER                 -> Mapped(Uppers, cp)

to_lower(cp) ==
    CASE InSome({<<\h41, \h5a>>, <<\hc0, \hd6>>, <<\hd8, \hde>>, <<\h0391, \h03a1>>, <<\h03a3, \h03ab>>}, cp)
                               -> cp + 32
      [] InSome(EvenUppers, cp) -> cp + 1 - (cp % 2)
      [] InSome(OddUppers, cp)  -> cp + (cp % 2)
      [] OTHER                 -> Mapped(Lowers, cp)

is_upper(cp) == cp # to_lower(cp)
is_lower(cp) == cp # to_upper(cp)

-----------------------------------------------------------------------------
IsContinuation(b) == b \div 64 = 2

\* get_size_of_cp of a pointer, and of a code point.
SizeAt(b) == CASE IsContinuation(b) -> 0
               [] b \div 8 = 30     -> 4
               [] b \div 16 = 14    -> 3
               [] b \div 32 = 6     -> 2
               [] OTHER             -> 1

SizeOf(cp) == CASE cp < \h80 -> 1 [] cp < \h800 -> 2 [] cp < \h10000 -> 3 [] OTHER -> 4

Continuation(x) == \h80 + (x % 64)

encode_cp(cp) ==
    CASE SizeOf(cp) = 1 -> <<cp>>
      [] SizeOf(cp) = 2 -> <<\hc0 + (cp \div 2^6), Continuation(cp)>>
      [] SizeOf(cp) = 3 -> <<\he0 + (cp \div 2^12), Continuation(cp \div 2^6), Continuation(cp)>>
      [] SizeOf(cp) = 4 -> <<\hf0 + (cp \div 2^18), Continuation(cp \div 2^12),
                             Continuation(cp \div 2^6), Continuation(cp)>>

\* The code point at the offset p.  A continuation byte is a negative char, whose
\* value as a code point is beyond all others.
NoCodePoint(b) == -(256 - b)
decode_cp(s, p) ==
    LET bits(i) == s[p + i + 1] % 64
        b == s[p + 1]
    IN  CASE SizeAt(b) = 4 -> (b % 8) * 2^18 + bits(1) * 2^12 + bits(2) * 2^6 + bits(3)
          [] SizeAt(b) = 3 -> (b % 16) * 2^12 + bits(1) * 2^6 + bits(2)
          [] SizeAt(b) = 2 -> (b % 32) * 2^6 + bits(1)
          [] OTHER         -> IF b < \h80 THEN b ELSE NoCodePoint(b)

\* A faulty check knows no surrogates.
is_valid_or_surrogate(d) ==
    LET tail(i) == Between(d[i], \h80, \hbf)
    IN  SizeAt(d[1]) # 0 /\ \A i \in 2..SizeAt(d[1]) : tail(i)

\* d has four bytes, of which those of one code point matter.  The fourth is not looked at.
is_valid_utf8(d) ==
    LET tail(i) == Between(d[i], \h80, \hbf)
    IN  CASE SizeAt(d[1]) = 1 -> d[1] < \h80
          [] SizeAt(d[1]) = 2 -> Between(d[1], \hc2, \hdf) /\ tail(2)
          [] SizeAt(d[1]) = 3 -> /\ CASE d[1] = \he0 -> Between(d[2], \ha0, \hbf)
                                      [] d[1] = \hed -> Between(d[2], \h80, \h9f)
                                      [] OTHER       -> tail(2)
                                 /\ tail(3)
          [] SizeAt(d[1]) = 4 -> /\ CASE d[1] = \hf0 -> Between(d[2], \h90, \hbf)
                                      [] d[1] = \hf4 -> Between(d[2], \h80, \h8f)
                                      [] OTHER       -> Between(d[1], \hf1, \hf3) /\ tail(2)
                                 /\ tail(3)
          [] OTHER            -> FALSE

utf8_length(s) == Len(SelectSeq(s, LAMBDA b : ~IsContinuation(b)))

\* The offset of the index-th code point, and all code points.
get_cp_at_index(s, index) ==
    LET offset[i \in 0..index] == IF i = 0 THEN 0 ELSE LET p == offset[i - 1] IN p + SizeAt(s[p + 1])
    IN  offset[index]

utf8_to_utf32(s, length) == [i \in 1..length |-> decode_cp(s, get_cp_at_index(s, i - 1))]

utf32_to_utf8(u) == FlattenSeq([i \in DOMAIN u |-> encode_cp(u[i])])

utf8_to_utf16(s, length) ==
    FlattenSeq([i \in 1..length |->
        LET cp == utf8_to_utf32(s, length)[i]
        IN  IF cp > \hffff THEN <<(cp \div 2^10) + \hd800 - (\h10000 \div 2^10), (cp % 2^10) + \hdc00>>
            ELSE <<cp>>])

\* The trail of a pair is read into cp as well, and so the lead is lost.
PairFrom(lead, trail) == LET cp == trail IN (cp - \hd800) * 2^10 + (trail - \hdc00) + \h10000

utf16_to_utf8(u) ==
    LET from[i \in Nat] ==
            IF i > Len(u) THEN <<>>
            ELSE IF Between(u[i], \hd800, \hdbff) THEN encode_cp(PairFrom(u[i], u[i + 1])) \o from[i + 2]
            ELSE encode_cp(u[i]) \o from[i + 1]
    IN  from[1]

-----------------------------------------------------------------------------
(***************************************************************************)
(* The loop that compare_c_string, compare and their versions that ignore  *)
(* the case share: where one string goes on and the other ends, the index  *)
(* is that of the last unit they have in common.                           *)
(***************************************************************************)
Common(a, b) == 1..Min({Len(a), Len(b)})

Compared(a, b) ==
    IF a = b THEN -1
    ELSE IF \E i \in Common(a, b) : a[i] # b[i]
         THEN Min({i \in Common(a, b) : a[i] # b[i]}) - 1
         ELSE Max({Min({Len(a), Len(b)}) - 1, 0})

Sign(x) == CASE x < 0 -> -1 [] x = 0 -> 0 [] x > 0 -> 1

\* The units where two strings first differ by their classes; the final zero counts.
Unit(s, i) == IF i <= Len(s) THEN s[i] ELSE 0
OrderAt(a, b, differ) == IF differ = {} THEN 0 ELSE Sign(Unit(a, Min(differ)) - Unit(b, Min(differ)))
Reaches(a, b) == 1..Max({Len(a), Len(b)})

Lowered(s) == [i \in DOMAIN s |-> to_lower(s[i])]

compare_c_string(a, b) == Compared(a, b)
compare_c_string_ignore_case(a, b) == Compared(Lowered(a), Lowered(b))

compare_c_string_lexicographically(a, b) ==
    OrderAt(a, b, {i \in Reaches(a, b) : Unit(a, i) # Unit(b, i)})
\* The units themselves are compared where their lower cases differ.
compare_c_string_lexicographically_ignore_case(a, b) ==
    OrderAt(a, b, {i \in Reaches(a, b) : to_lower(Unit(a, i)) # to_lower(Unit(b, i))})
=============================================================================
