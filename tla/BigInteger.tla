----------------------------- MODULE BigInteger -----------------------------
(***************************************************************************)
(* Integers of many digits (lstd/fmt/big_integer.ixx): the digits in base  *)
(* 2^SHIFT, lowest first, and Size, their number, below zero for integers  *)
(* below zero.  The result is Asserts where an assert of the code fails.   *)
(***************************************************************************)
EXTENDS Calls, Integers, SequencesExt

CONSTANTS SHIFT,      \* bits of a digit; a machine word has two more
          Capacity,   \* the digits of an integer on the stack
          KARATSUBA_CUTOFF,
          Integrals,  \* values of the operands
          Signed,     \* sizes of signed types, in bits
          Factors     \* operands of products

BASE == 2^SHIFT
S64_MAX == 2^15       \* larger than every size
Asserts == [asserts |-> TRUE]

Digits(f) == [i \in 0..Capacity - 1 |-> IF i \in DOMAIN f THEN f[i] ELSE 0]
NAN == [Size |-> S64_MAX, Bigits |-> Digits(<<>>)]

Abs(n) == IF n < 0 THEN -n ELSE n
Length(x) == Abs(x.Size)
Digit(x, i) == IF i < Length(x) THEN x.Bigits[i] ELSE 0
ensure_bigits(n) == n <= Capacity
Signs(x, negative) == [x EXCEPT !.Size = IF negative THEN -@ ELSE @]

\* Leading zeros are dropped.
Normal(digits, n, sign) ==
    [Size |-> sign * Max({0} \cup {i \in 1..n : digits[i - 1] # 0}), Bigits |-> Digits(digits)]
Value(x) == (IF x.Size < 0 THEN -1 ELSE 1)
            * FoldFunction(+, 0, [i \in 0..Length(x) - 1 |-> x.Bigits[i] * BASE^i])

\* The least value of a signed type stays below zero when its sign is changed: shifting it never
\* ends, and runs out of digits.
RECURSIVE DigitsOf(_)
DigitsOf(n) == IF n = 0 THEN <<>> ELSE <<n % BASE>> \o DigitsOf(n \div BASE)
assign(value, isLeast) ==
    LET digits == DigitsOf(Abs(value))
    IN  IF isLeast THEN Asserts
        ELSE Normal([i \in 0..Len(digits) - 1 |-> digits[i + 1]], Len(digits), IF value < 0 THEN -1 ELSE 1)
Big(value) == assign(value, FALSE)

\* operator==, which compares no digits of integers below zero.
Equal(a, b) == a.Size = b.Size /\ \A i \in 0..a.Size - 1 : a.Bigits[i] = b.Bigits[i]
\* The highest digit where two of the same length differ, or -1.
Differ(a, b) == Max({-1} \cup {i \in 0..Length(a) - 1 : a.Bigits[i] # b.Bigits[i]})

\* operator<, which compares the digits and not the signs; those of equal integers are compared
\* at index -1, which is the last.
DigitFrom(x, i) == x.Bigits[IF i < 0 THEN Capacity + i ELSE i]
Less(a, b) == IF Length(a) # Length(b) THEN Length(a) < Length(b)
              ELSE DigitFrom(a, Differ(a, b)) < DigitFrom(b, Differ(a, b))

-----------------------------------------------------------------------------
\* Digits of column sums, some below zero, with the carries of the ones before.
RECURSIVE CarryInto(_, _)
CarryInto(column, i) == IF i = 0 THEN 0 ELSE (column[i - 1] + CarryInto(column, i - 1)) \div BASE
Carried(column) == [i \in DOMAIN column |-> (column[i] + CarryInto(column, i)) % BASE]

x_add(a, b) ==
    LET n == Max({Length(a), Length(b)}) + 1
        sums == Carried([i \in 0..n - 1 |-> Digit(a, i) + Digit(b, i)])
    IN  IF ensure_bigits(n) THEN Normal(sums, n, 1) ELSE NAN

\* Faulty: of two of the same length the first counts as the larger.
SmallerByLength(a, b) == Length(a) < Length(b)
Smaller(a, b) == \/ Length(a) < Length(b)
                 \/ /\ Length(a) = Length(b) /\ Differ(a, b) # -1
                    /\ a.Bigits[Differ(a, b)] < b.Bigits[Differ(a, b)]

x_sub(a, b) ==
    LET larger == IF Smaller(a, b) THEN b ELSE a
        smaller == IF Smaller(a, b) THEN a ELSE b
        n == IF Length(a) = Length(b) THEN Differ(a, b) + 1 ELSE Length(larger)
    IN  Normal(Carried([i \in 0..n - 1 |-> larger.Bigits[i] - Digit(smaller, i)]), n,
               IF Smaller(a, b) THEN -1 ELSE 1)

plus(a, b) ==
    IF (a.Size < 0) = (b.Size < 0) THEN Signs(x_add(a, b), a.Size < 0)
    ELSE IF a.Size < 0 THEN x_sub(b, a) ELSE x_sub(a, b)
minus(a, b) ==
    IF (a.Size < 0) # (b.Size < 0) THEN Signs(x_add(a, b), a.Size < 0)
    ELSE IF a.Size < 0 THEN x_sub(b, a) ELSE x_sub(a, b)

-----------------------------------------------------------------------------
\* A row of products is added to digits, with its carries; the last is added to one more digit.
AddRow(digits, from, row) ==
    LET step(s, j) == LET sum == s.carry + s.digits[from + j - 1] + row[j]
                      IN  [digits |-> [s.digits EXCEPT ![from + j - 1] = sum % BASE], carry |-> sum \div BASE]
        end == FoldLeftDomain(step, [digits |-> digits, carry |-> 0], row)
    IN  [end.digits EXCEPT ![from + Len(row)] = @ + (end.carry % BASE)]

\* The products of two different digits of a square come twice.
SquareRow(a, i) == LET f == a.Bigits[i]
                   IN  <<f * f>> \o [j \in 1..Length(a) - 1 - i |-> 2 * f * a.Bigits[i + j]] \o <<0>>
Row(a, b, i) == [j \in 1..Length(b) |-> a.Bigits[i] * b.Bigits[j - 1]]

RECURSIVE Rows(_, _, _, _)
Rows(a, b, i, digits) ==
    IF i = Length(a) THEN digits
    ELSE Rows(a, b, i + 1, IF Equal(a, b) THEN AddRow(digits, 2 * i, SquareRow(a, i))
                                          ELSE AddRow(digits, i, Row(a, b, i)))

x_mul(a, b) ==
    LET n == Length(a) + Length(b)
    IN  IF ensure_bigits(n) THEN Normal(Rows(a, b, 0, [i \in 0..n |-> 0]), n, 1) ELSE NAN

\* Digits of b that are multiplied at a time, as many as a has.
Slice(b, from, n) == [Size |-> n, Bigits |-> Digits([i \in 0..n - 1 |-> b.Bigits[from + i]])]

\* Karatsuba's method ends with the assert that the higher half has digits: kmul_split copies them
\* and leaves the size of both halves zero.
RECURSIVE k_mul(_, _), Lopsided(_, _, _, _)
k_mul(x, y) ==
    LET a == IF Length(x) > Length(y) THEN y ELSE x
        b == IF Length(x) > Length(y) THEN x ELSE y
        cutoff == IF Equal(a, b) THEN 2 * KARATSUBA_CUTOFF ELSE KARATSUBA_CUTOFF
    IN  IF Length(a) = 0 THEN Big(0)
        ELSE IF Length(a) <= cutoff THEN x_mul(a, b)
        ELSE IF 2 * Length(a) > Length(b) THEN Asserts
        ELSE IF ensure_bigits(Length(a) + Length(b))
             THEN Lopsided(a, b, 0, [i \in 0..Length(a) + Length(b) |-> 0])
        ELSE NAN
Lopsided(a, b, done, digits) ==
    LET n == Min({Length(b) - done, Length(a)})
        product == k_mul(a, Slice(b, done, n))
    IN  IF done = Length(b) THEN Normal(digits, Length(a) + Length(b), 1)
        ELSE IF product = Asserts THEN Asserts
        ELSE Lopsided(a, b, done + n,
                      AddRow(digits, done, [j \in 1..Length(product) |-> Digit(product, j - 1)]))

times(a, b) == LET result == k_mul(a, b)
               IN  IF result = Asserts THEN Asserts ELSE Signs(result, (a.Size < 0) # (b.Size < 0))

-----------------------------------------------------------------------------
\* Division by one digit: the remainders go down from the highest digit.
RECURSIVE RemainderAbove(_, _, _)
RemainderAbove(a, n, i) == IF i = Length(a) THEN 0 ELSE (RemainderAbove(a, n, i + 1) * BASE + a.Bigits[i]) % n
divrem1(a, n) ==
    [Div |-> Normal([i \in 0..Length(a) - 1 |-> (RemainderAbove(a, n, i + 1) * BASE + a.Bigits[i]) \div n], Length(a), 1),
     Rem |-> Big(RemainderAbove(a, n, 0))]

Shifted(x, n, d) == Carried([i \in 0..n |-> IF i < n THEN x.Bigits[i] * 2^d ELSE 0])

\* What is left of z in a machine word with a sign.
Word == 4 * BASE
Truncated(z) == LET low == z % Word IN IF low >= Word \div 2 THEN low - Word ELSE low

RECURSIVE Estimated(_, _, _, _, _)
Estimated(q, r, w1, w2, next) ==
    IF w2 * q > r * BASE + next
    THEN IF r + w1 >= BASE THEN q - 1 ELSE Estimated(q - 1, r + w1, w1, w2, next)
    ELSE q

\* One digit of the quotient of v by w, which has n: what is left of v, if no assert fails.
RECURSIVE Subtracted(_, _, _, _, _, _)
Subtracted(v, w, q, k, i, zhi) ==
    LET z == Truncated(v[k + i] + zhi - q * w[i])
    IN  IF i = Cardinality(DOMAIN w) - 1 THEN [v |-> v, zhi |-> zhi]
        ELSE Subtracted([v EXCEPT ![k + i] = z % BASE], w, q, k, i + 1, z \div BASE)

AddedBack(v, w, n, k) ==
    LET sums == Carried([i \in 0..n - 1 |-> v[k + i] + w[i]])
    IN  [j \in DOMAIN v |-> IF j - k \in 0..n - 1 THEN sums[j - k] ELSE v[j]]

RECURSIVE DivisionAsserts(_, _, _, _)
DivisionAsserts(v, w, n, k) ==
    LET vtop == v[k + n]
        vv == vtop * BASE + v[k + n - 1]
        q == Estimated(vv \div w[n - 1], vv % w[n - 1], w[n - 1], w[n - 2], v[k + n - 2])
        s == Subtracted(v, w, q, k, 0, 0)
        digit == IF vtop + s.zhi < 0 THEN q - 1 ELSE q
    IN  IF k < 0 THEN FALSE
        ELSE IF vtop > w[n - 1] \/ q > BASE \/ vtop + s.zhi \notin {-1, 0} \/ digit >= BASE THEN TRUE
        ELSE DivisionAsserts(IF vtop + s.zhi < 0 THEN AddedBack(s.v, w, n, k) ELSE s.v, w, n, k - 1)

\* Knuth's algorithm D.  The operands are shifted by one bit less than they should be, and not at
\* all if there is none; the sizes of the results are never set.
Bits(digit) == Max({b \in 1..SHIFT : digit >= 2^(b - 1)})
LongDivision(a, b) ==
    LET n == Length(b)
        m == Length(a)
        d == SHIFT - (Bits(b.Bigits[n - 1]) + 1)
        v == Shifted(a, m, d)
        w == Shifted(b, n, d)
        k == IF v[m] > 0 \/ v[m - 1] >= w[n - 1] THEN m - n ELSE m - n - 1
    IN  IF d < 0 \/ ~ensure_bigits(m + 1) \/ DivisionAsserts(v, w, n, k) THEN Asserts
        ELSE [Div |-> Big(0), Rem |-> Big(0)]

divrem(a, b) ==
    LET n == Length(b)
        m == Length(a)
        result == IF m < n \/ (m = n /\ a.Bigits[m - 1] < b.Bigits[n - 1])
                  THEN [Div |-> Big(0), Rem |-> a]
                  ELSE IF n = 1 THEN divrem1(a, b.Bigits[0]) ELSE LongDivision(a, b)
    IN  IF n = 0 THEN Asserts
        ELSE IF result = Asserts THEN Asserts
        ELSE [Div |-> Signs(result.Div, (a.Size < 0) # (b.Size < 0)), Rem |-> Signs(result.Rem, a.Size < 0)]

divmod(a, b) ==
    LET it == divrem(a, b)
    IN  IF it = Asserts THEN Asserts
        ELSE IF (it.Rem.Size < 0 /\ b.Size > 0) \/ (it.Rem.Size > 0 /\ b.Size < 0)
        THEN [Div |-> minus(it.Div, Big(1)), Mod |-> plus(it.Rem, b)]
        ELSE [Div |-> it.Div, Mod |-> it.Rem]

-----------------------------------------------------------------------------
Assign == \E bits \in Signed : \E value \in {v \in Integrals : -2^(bits - 1) <= v /\ v < 2^(bits - 1)} :
    Call("assign", <<bits, value>>, assign(value, value = -2^(bits - 1)))
AddOrSubtract == \E a, b \in Integrals :
    Call("add", <<a, b>>, [sum |-> plus(Big(a), Big(b)), difference |-> minus(Big(a), Big(b)),
                            less |-> Less(Big(a), Big(b)), equal |-> Equal(Big(a), Big(b))])
Multiply == \E a, b \in Factors : Call("multiply", <<a, b>>, times(Big(a), Big(b)))
Divide == \E a, b \in Integrals : Call("divmod", <<a, b>>, divmod(Big(a), Big(b)))

Next == Ready /\ (Assign \/ AddOrSubtract \/ Multiply \/ Divide)

-----------------------------------------------------------------------------
\* Out is the integer of a value, without leading zeros.
IsBig(out, value) == /\ out # Asserts /\ Length(out) < S64_MAX
                     /\ Value(out) = value
                     /\ out.Size # 0 => out.Bigits[Length(out) - 1] # 0
\* What does not fit the capacity is NAN.
FitsOrNAN(out, value, digits) == IF digits > Capacity THEN out # Asserts /\ Length(out) = S64_MAX ELSE IsBig(out, value)
Floor(a, b) == IF b < 0 THEN (-a) \div (-b) ELSE a \div b

\* Where the code does otherwise than its comments (591, 770-777, 920, 938-944) and the values say: of
\* two integers below zero it compares the lengths alone (971); it orders by the absolute value (980);
\* Karatsuba's method meets its own assert (591); changing the sign of the least value never ends; the
\* remainder of a dividend below zero that is less than its divisor loses its sign (925); and
\* divisors of several digits never give a result (811-914).
SameForEqual(a, b) == a # b /\ a < 0 /\ b < 0 /\ Length(Big(a)) = Length(Big(b))
BeyondCutoff(a, b) == Min({Length(Big(a)), Length(Big(b))}) > (IF a = b THEN 2 ELSE 1) * KARATSUBA_CUTOFF
IsRest(a, b) == \/ Length(a) < Length(b)
                \/ Length(a) = Length(b) /\ a.Bigits[Length(a) - 1] < b.Bigits[Length(a) - 1]
LosesResult(a, b) == IF IsRest(Big(a), Big(b)) THEN a < 0 ELSE Length(Big(b)) > 1

\* Arithmetic on integers of many digits is that on their values, a sum taking a digit more than the
\* longer operand, but for the operands named above.
BigIntegersAgree ==
    /\ call.of = "assign" =>
           LET bits == call.in[1] value == call.in[2]
           IN  value = -2^(bits - 1) \/ IsBig(call.out, value)
    /\ call.of = "add" =>
           LET a == call.in[1] b == call.in[2]
               longer == Max({Length(Big(a)), Length(Big(b))})
           IN  /\ FitsOrNAN(call.out.sum, a + b, IF (a < 0) = (b < 0) THEN longer + 1 ELSE longer)
               /\ FitsOrNAN(call.out.difference, a - b, IF (a < 0) # (b < 0) THEN longer + 1 ELSE longer)
               /\ a < 0 \/ b < 0 \/ call.out.less = (a < b)
               /\ SameForEqual(a, b) \/ call.out.equal = (a = b)
    /\ call.of = "multiply" =>
           LET a == call.in[1] b == call.in[2]
               digits == IF a * b = 0 THEN 0 ELSE Length(Big(a)) + Length(Big(b))
           IN  BeyondCutoff(a, b) \/ SameForEqual(a, b) \/ FitsOrNAN(call.out, a * b, digits)
    /\ call.of = "divmod" =>
           LET a == call.in[1] b == call.in[2]
               isBelow == (a < 0) # (b < 0) /\ a # b * Floor(a, b)
           IN  IF b = 0 THEN call.out = Asserts
               ELSE LosesResult(a, b) \/
                    /\ FitsOrNAN(call.out.Div, Floor(a, b), IF isBelow THEN Length(Big(Floor(a, b) + 1)) + 1 ELSE 0)
                    /\ IsBig(call.out.Mod, a - b * Floor(a, b))

Spec == Init /\ [][Next]_call
=============================================================================
