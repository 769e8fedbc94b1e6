----------------------------- MODULE Arithmetic -----------------------------
(***************************************************************************)
(* lstd/internal/common.h: positions of bits, numbers of digits, tests of  *)
(* the bytes of a word and ranges of integers.  lstd/types/u128.h:         *)
(* integers made of two words; u128 and s128 differ in how the upper word  *)
(* is read.                                                                *)
(***************************************************************************)
EXTENDS Calls, Integers, SequencesExt, Bitwise

CONSTANTS Half,        \* the bits of a word, 64 in the code
          WordBytes,   \* the values of the bytes of a word that is tested
          Margins,     \* the bytes they are compared with
          Numbers, MaxEnd, Steps

Word == 2^Half
Wide(hi, lo) == [hi |-> hi % Word, lo |-> lo % Word]
Wides == [hi : 0..(Word - 1), lo : 0..(Word - 1)]
Zero == Wide(0, 0)
One == Wide(0, 1)

SignedWord(x) == IF x < Word \div 2 THEN x ELSE x - Word
IsNegative(w) == SignedWord(w.hi) < 0

-----------------------------------------------------------------------------
SetBits(x) == {i \in 0..30 : (x \div 2^i) % 2 = 1}

\* _BitScanReverse and _BitScanForward, of a word and of two halves.
msb(x) == IF x = 0 THEN -1 ELSE Max(SetBits(x))
lsb(x) == IF x = 0 THEN -1 ELSE Min(SetBits(x))
WideMsb(w) == IF w.hi # 0 THEN Half + msb(w.hi) ELSE msb(w.lo)
WideLsb(w) == IF w.lo = 0 THEN Half + lsb(w.hi) ELSE lsb(w.lo)

-----------------------------------------------------------------------------
\* A faulty table starts a power too late.
LatePowers(i) == IF i = 0 THEN 0 ELSE 10^(i - 1)
POWERS_OF_10_64(i) == 10^i

Or1(n) == IF n % 2 = 1 THEN n ELSE n + 1
count_digits_base_2(n) == msb(Or1(n)) + 1

\* 1233 / 4096 is about 1 / log2(10).
Digits10(n, Powers(_)) ==
    LET t == ((msb(Or1(n)) + 1) * 1233) \div 4096
    IN  t - (IF n < Powers(t) THEN 1 ELSE 0) + 1
count_digits(n) == Digits10(n, POWERS_OF_10_64)

DigitsByBits[bits \in Nat, n \in Nat] ==
    1 + IF n \div 2^bits = 0 THEN 0 ELSE DigitsByBits[bits, n \div 2^bits]

-----------------------------------------------------------------------------
(***************************************************************************)
(* The tests of all bytes of a word at once; two bytes here.               *)
(***************************************************************************)
Full == 2^16
Each(n) == 257 * n
Flip(x) == Full - 1 - x
Sub(x, y) == (x - y) % Full
Add(x, y) == (x + y) % Full
Tops == Each(128)
Lows(x) == x & Each(127)

U32_HAS_ZERO_BYTE(v) == (Sub(v, Each(1)) & Flip(v)) & Tops
U32_HAS_BYTE(x, n) == U32_HAS_ZERO_BYTE(x ^^ Each(n))
U32_HAS_BYTE_LESS_THAN(x, n) == (Sub(x, Each(n)) & Flip(x)) & Tops
U32_COUNT_BYTES_LESS_THAN(x, n) ==
    (((Sub(Each(127 + n), Lows(x)) & Flip(x)) & Tops) \div 128) % 255
U32_HAS_BYTE_GREATER_THAN(x, n) == (Add(x, Each(127 - n)) | x) & Tops
U32_COUNT_BYTES_GREATER_THAN(x, n) == (((Add(Lows(x), Each(127 - n)) | x) & Tops) \div 128) % 255
U32_LIKELY_HAS_BYTE_BETWEEN(x, m, n) ==
    ((Sub(x, Each(n)) & Flip(x)) & Add(Lows(x), Each(127 - m))) & Tops
U32_HAS_BYTE_BETWEEN(x, m, n) ==
    ((Sub(Each(127 + n), Lows(x)) & Flip(x)) & Add(Lows(x), Each(127 - m))) & Tops
U32_COUNT_BYTES_BETWEEN(x, m, n) == (U32_HAS_BYTE_BETWEEN(x, m, n) \div 128) % 255

-----------------------------------------------------------------------------
\* The iterators of a range differ while the end was not reached or passed.
Before(i, end, step) == IF step < 0 THEN i > end ELSE i < end
RECURSIVE Iterated(_, _, _)
Iterated(i, end, step) ==
    IF Before(i, end, step) THEN <<i>> \o Iterated(i + step, end, step) ELSE <<>>

Has(start, stop, step, value) ==
    /\ IF step > 0 THEN value >= start /\ value < stop ELSE value > stop /\ value <= start
    /\ (value - start) % (IF step > 0 THEN step ELSE -step) = 0

-----------------------------------------------------------------------------
(***************************************************************************)
(* Integers of two words.                                                  *)
(***************************************************************************)
\* From a signed word, whose sign is extended.
OfSigned(v) == Wide(IF v < 0 THEN Word - 1 ELSE 0, v)

Less(l, r) == IF l.hi = r.hi THEN l.lo < r.lo ELSE l.hi < r.hi
SignedLess(l, r) == IF l.hi = r.hi THEN l.lo < r.lo ELSE SignedWord(l.hi) < SignedWord(r.hi)

Plus(l, r) == LET lo == (l.lo + r.lo) % Word
              IN  Wide(l.hi + r.hi + IF lo < l.lo THEN 1 ELSE 0, lo)
\* A faulty sum asks whether the low word became zero.
PlusIfZero(l, r) == LET lo == (l.lo + r.lo) % Word
                    IN  Wide(l.hi + r.hi + IF lo = 0 THEN 1 ELSE 0, lo)
Sum(l, r) == Plus(l, r)
Difference(l, r) == Wide(l.hi - r.hi - IF l.lo < r.lo THEN 1 ELSE 0, l.lo - r.lo)

Complement(w) == Wide(-1 - w.hi, -1 - w.lo)
\* The complement, of which u128 looks whether its low word is zero without adding one.
Negated(w) == LET c == Complement(w) IN Wide(c.hi + IF c.lo = 0 THEN 1 ELSE 0, c.lo)
SignedNegated(w) == LET lo == (Complement(w).lo + 1) % Word
                    IN  Wide(Complement(w).hi + IF lo = 0 THEN 1 ELSE 0, lo)

\* Shifts by less than two words; within a word they take both words along.
ShiftLeft(w, amount) ==
    CASE amount >= Half        -> Wide(w.lo * 2^(amount - Half), 0)
      [] amount \in 1..Half - 1 -> Wide(w.hi * 2^amount + (w.lo \div 2^(Half - amount)), w.lo * 2^amount)
      [] amount = 0            -> w
ShiftRight(w, amount) ==
    CASE amount >= Half        -> Wide(0, w.hi \div 2^(amount - Half))
      [] amount \in 1..Half - 1 -> Wide(w.hi \div 2^amount, (w.lo \div 2^amount) + w.hi * 2^(Half - amount))
      [] amount = 0            -> w
\* The upper word of a negative number is zero after a shift by a word or more.
SignedShiftRight(w, amount) ==
    CASE amount >= Half        -> Wide(0, SignedWord(w.hi) \div 2^(amount - Half))
      [] amount \in 1..Half - 1 -> Wide(SignedWord(w.hi) \div 2^amount,
                                       (w.lo \div 2^amount) + w.hi * 2^(Half - amount))
      [] amount = 0            -> w

\* The low words are multiplied by halves.
Product(l, r) ==
    LET h == 2^(Half \div 2)
        a32 == l.lo \div h
        a00 == l.lo % h
        b32 == r.lo \div h
        b00 == r.lo % h
    IN  Sum(Sum(Wide(l.hi * r.lo + l.lo * r.hi + a32 * b32, a00 * b00),
                ShiftLeft(Wide(0, a32 * b00), Half \div 2)),
            ShiftLeft(Wide(0, a00 * b32), Half \div 2))

-----------------------------------------------------------------------------
\* One turn of the loop of div_mod.
Subtract(d) ==
    LET q == ShiftLeft(d.quotient, 1)
        fits == ~Less(d.dividend, d.denominator)
    IN  [dividend |-> IF fits THEN Difference(d.dividend, d.denominator) ELSE d.dividend,
         quotient |-> IF fits THEN [q EXCEPT !.lo = @ + 1] ELSE q,
         denominator |-> ShiftRight(d.denominator, 1)]

LongDivision(dividend, divisor) ==
    LET shift == WideMsb(dividend) - WideMsb(divisor)
        start == [dividend |-> dividend, quotient |-> Zero, denominator |-> ShiftLeft(divisor, shift)]
        end == FoldLeft(LAMBDA d, i : Subtract(d), start, [i \in 1..shift + 1 |-> i])
    IN  CASE Less(dividend, divisor) -> [quotient |-> Zero, remainder |-> dividend]
          [] dividend = divisor      -> [quotient |-> One, remainder |-> Zero]
          [] Less(divisor, dividend) -> [quotient |-> end.quotient, remainder |-> end.dividend]

\* The test of the divisor against zero is an assignment.
div_mod(dividend, divisor) == LongDivision(dividend, Zero)

AbsoluteValue(w) == IF IsNegative(w) THEN Negated(w) ELSE w
SignedQuotient(l, r) ==
    LET quotient == div_mod(AbsoluteValue(l), AbsoluteValue(r)).quotient
    IN  IF IsNegative(l) # IsNegative(r) THEN Negated(quotient) ELSE quotient
SignedRemainder(l, r) ==
    LET remainder == div_mod(AbsoluteValue(l), AbsoluteValue(r)).remainder
    IN  IF IsNegative(l) THEN Negated(remainder) ELSE remainder

-----------------------------------------------------------------------------
FindBits == \E w \in Wides : Call("msb", w, [first |-> WideMsb(w), last |-> WideLsb(w)])
CountDigits == \E n \in Numbers :
    Call("count_digits", n, [ten |-> count_digits(n), two |-> count_digits_base_2(n),
                             shifts |-> [bits \in {1, 3, 4} |-> DigitsByBits[bits, n]]])
TestBytes == \E bytes \in WordBytes \X WordBytes, m, n \in Margins :
    LET x == 256 * bytes[1] + bytes[2]
    IN  Call("U32_HAS_BYTE", [bytes |-> bytes, m |-> m, n |-> n],
             [equal |-> U32_HAS_BYTE(x, n), less |-> U32_HAS_BYTE_LESS_THAN(x, n),
              greater |-> U32_HAS_BYTE_GREATER_THAN(x, m), likely |-> U32_LIKELY_HAS_BYTE_BETWEEN(x, m, n),
              lesser |-> U32_COUNT_BYTES_LESS_THAN(x, n), greaters |-> U32_COUNT_BYTES_GREATER_THAN(x, m),
              between |-> U32_COUNT_BYTES_BETWEEN(x, m, n)])
Iterate == \E start, stop \in 0..MaxEnd, step \in Steps, value \in 0..MaxEnd :
    Call("range", [value |-> value, start |-> start],
         [loop |-> Iterated(start, stop, step), has |-> Has(start, stop, step, value)])

Combine == \E l, r \in Wides :
    Call("plus", <<l, r>>,
         [sum |-> Sum(l, r), difference |-> Difference(l, r), product |-> Product(l, r),
          less |-> Less(l, r), signedLess |-> SignedLess(l, r)])
Convert == \E v \in -(Word \div 2)..(Word - 1) : Call("u128", v, OfSigned(v))
Negate == \E w \in Wides : Call("minus", w, [wide |-> Negated(w), signed |-> SignedNegated(w)])
Shift == \E w \in Wides, amount \in 0..(2 * Half - 1) :
    Call("shift", <<w, amount>>,
         [left |-> ShiftLeft(w, amount), right |-> ShiftRight(w, amount),
          signed |-> SignedShiftRight(w, amount)])
Divide == \E l, r \in Wides :
    Call("divide", <<l, r>>,
         [long |-> IF r = Zero THEN [quotient |-> Zero, remainder |-> l] ELSE LongDivision(l, r),
          wide |-> div_mod(l, r),
          signed |-> [quotient |-> SignedQuotient(l, r), remainder |-> SignedRemainder(l, r)]])

Next == Ready /\ (FindBits \/ CountDigits \/ TestBytes \/ Iterate \/ Combine \/ Convert \/ Negate \/ Shift \/ Divide)

Spec == Init /\ [][Next]_call

-----------------------------------------------------------------------------
HowMany(bytes, Test(_)) == Cardinality({i \in 1..2 : Test(bytes[i])})

\* common.h: the bits found are the outermost ones, except for the least bit of a wide zero; a
\* number has as many digits as it takes, but zero has none in base 10; every test of a word
\* agrees with that of its bytes, and the pretest of the bytes between two others misses none;
\* a range has what its loop goes through.
BitsAgree ==
    LET in == call.in
        out == call.out
    IN  CASE call.of = "msb" ->
               LET bits == SetBits(in.lo) \cup {Half + i : i \in SetBits(in.hi)}
               IN  IF bits = {} THEN out.first = -1 ELSE out.first = Max(bits) /\ out.last = Min(bits)
          [] call.of = "count_digits" ->
               /\ in > 0 => 10^(out.ten - 1) <= in /\ (out.ten < 10 => in < 10^out.ten)
               /\ out.two = out.shifts[1]
               /\ \A bits \in {3, 4} : bits * (out.shifts[bits] - 1) < out.two /\ out.two <= bits * out.shifts[bits]
          [] call.of = "U32_HAS_BYTE" ->
               LET between == HowMany(in.bytes, LAMBDA b : in.m < b /\ b < in.n)
                   less == HowMany(in.bytes, LAMBDA b : b < in.n)
                   greater == HowMany(in.bytes, LAMBDA b : b > in.m)
               IN  /\ (out.equal # 0) = (\E i \in 1..2 : in.bytes[i] = in.n)
                   /\ (out.less # 0) = (less > 0) /\ out.lesser = less
                   /\ (out.greater # 0) = (greater > 0) /\ out.greaters = greater
                   /\ out.between = between /\ (between > 0 => out.likely # 0)
          [] call.of = "range" -> out.has = (in.value \in ToSet(out.loop))
          [] OTHER -> TRUE

Value(w) == w.hi * Word + w.lo
SignedValue(w) == SignedWord(w.hi) * Word + w.lo
Modulus == Word * Word

IsDivision(l, r, d) == Value(l) = Value(d.quotient) * Value(r) + Value(d.remainder) /\ Less(d.remainder, r)

\* u128.h: sums, differences and products are those of integers modulo 2^128; comparisons are
\* those of the values; shifts multiply and divide, but for negative numbers only up to a word
\* (498); negation of s128 is that of two's complement; the division algorithm divides by what it
\* is given.  Nothing is said of the negation of u128, which lacks the one (295), and of what
\* div_mod returns, which assigns the divisor where it means to test it (530).
WideAgrees ==
    LET in == call.in
        out == call.out
    IN  CASE call.of = "plus" ->
               LET l == in[1]
                   r == in[2]
               IN  /\ Value(out.sum) = (Value(l) + Value(r)) % Modulus
                   /\ Value(out.difference) = (Value(l) - Value(r)) % Modulus
                   /\ Value(out.product) = (Value(l) * Value(r)) % Modulus
                   /\ out.less = (Value(l) < Value(r)) /\ out.signedLess = (SignedValue(l) < SignedValue(r))
          [] call.of = "u128" -> SignedValue(out) = in
          [] call.of = "minus" -> Value(out.signed) = (-Value(in)) % Modulus
          [] call.of = "shift" ->
               LET n == in[2]
               IN  /\ Value(out.left) = (Value(in[1]) * 2^n) % Modulus
                   /\ Value(out.right) = Value(in[1]) \div 2^n
                   /\ n < Half \/ ~IsNegative(in[1]) => SignedValue(out.signed) = SignedValue(in[1]) \div 2^n
          [] call.of = "divide" -> in[2] # Zero => IsDivision(in[1], in[2], out.long)
          [] OTHER -> TRUE
=============================================================================
