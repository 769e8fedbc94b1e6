------------------------------- MODULE Array -------------------------------
(***************************************************************************)
(* array (lstd/memory/array.h): a pointer, a count and the number of       *)
(* allocated elements, which is 0 for a view of memory it does not own.    *)
(* An array that owns a block can be viewed by others; user code does not  *)
(* modify or free it while they have elements, and does not hand an array  *)
(* elements of itself.  Elements are scalars.  Offsets count from 0, the   *)
(* cells of a block from 1.                                                *)
(***************************************************************************)
EXTENDS Integers, SequencesExt

CONSTANTS Arrays, Element, Nobody,
          Fresh,              \* what fresh memory holds: it equals no element
          MinimumAllocated,   \* 8 in the code
          Inputs,             \* what user code inserts and replaces by
          Needles,            \* what it searches for
          MaxLength,          \* bound: elements of an array
          MaxPower            \* the powers of 2 that are considered

\* Powers of 2 reach every size that is reserved.
ASSUME ArrayAssumption ==
    /\ MaxLength \in Nat /\ MinimumAllocated \in Nat
    /\ Inputs \subseteq Seq(Element) /\ Needles \subseteq Seq(Element) \ {<<>>}
    /\ \A e \in 0..MaxPower : 2^e \in Nat
    /\ \A s \in Inputs \cup Needles : \E e \in 0..MaxPower : 2 * MaxLength + Len(s) < 2^e
    /\ \E e \in 0..MaxPower : 2 * MaxLength < 2^e

VARIABLES block,    \* the cells each array owns
          arr,      \* of: whose block Data points into, first: where
          value     \* history: the elements each array should have

vars == <<block, arr, value>>

NoData == [of |-> Nobody, first |-> 0, Count |-> 0, Allocated |-> 0]

Init == /\ block = [x \in Arrays |-> <<>>]
        /\ arr = [x \in Arrays |-> NoData]
        /\ value = [x \in Arrays |-> <<>>]

-----------------------------------------------------------------------------
(***************************************************************************)
(* The operations work on the memory m, a record of blocks and arrays.     *)
(***************************************************************************)
Memory == [block |-> block, arr |-> arr]

Cell(m, x, offset) == m.block[m.arr[x].of][m.arr[x].first + offset + 1]

Elements(m, x, offset, n) == [i \in 1..n |-> Cell(m, x, offset + i - 1)]

Contents(m, x) == Elements(m, x, 0, m.arr[x].Count)

Put(m, x, offset, s) ==
    LET index(c) == c - m.arr[x].first - offset
    IN  [m EXCEPT !.block[m.arr[x].of] =
            [c \in DOMAIN @ |-> IF index(c) \in DOMAIN s THEN s[index(c)] ELSE @[c]]]

\* copy_memory inside a block: the two ranges may overlap.
Move(m, x, to, from, n) == Put(m, x, to, Elements(m, x, from, n))

AddToCount(m, x, d) == [m EXCEPT !.arr[x].Count = @ + d]

CeilPowOf2(n) == LET Powers == {2^e : e \in 0..MaxPower}
                 IN  Min({p \in Powers : n <= p})

Fits(a, n) == a.Count + n < a.Allocated

\* array_reserve, for n new elements.  A view gets a block of its own.
Reserve(m, x, n) ==
    LET a == m.arr[x]
        target == Max({CeilPowOf2(n + a.Count + 1), MinimumAllocated})
        kept == IF a.Allocated # 0 THEN m.block[x] ELSE Contents(m, x)
    IN  IF Fits(a, n) THEN m
        ELSE [block |-> [m.block EXCEPT ![x] = [c \in 1..target |->
                            IF c <= Len(kept) THEN kept[c] ELSE Fresh]],
              arr |-> [m.arr EXCEPT ![x] = [of |-> x, first |-> 0, Count |-> a.Count,
                                            Allocated |-> target]]]

\* A faulty removal does not ask whose elements they are.
OwnedOrNot(m, x) == m

\* "If the array is a view, we don't want to modify the original!"
Owned(m, x) == IF m.arr[x].Allocated = 0 THEN Reserve(m, x, 0) ELSE m

TranslateIndex(index, length) == IF index < 0 THEN length + index ELSE index

InsertedAt(m, x, index, s) ==
    LET r == Reserve(m, x, Len(s))
        count == r.arr[x].Count
        offset == TranslateIndex(index, count)
        moved == Move(r, x, offset + Len(s), offset, count - offset)
    IN  AddToCount(Put(moved, x, offset, s), x, Len(s))

RemovedRange(m, x, begin, end) ==
    LET r == Owned(m, x)
        count == r.arr[x].Count
        first == TranslateIndex(begin, count)
        last == TranslateIndex(end, count)
    IN  AddToCount(Move(r, x, first, last, count - last), x, first - last)

RemovedAt(m, x, index) ==
    LET r == Owned(m, x)
        count == r.arr[x].Count
        offset == TranslateIndex(index, count)
    IN  AddToCount(Move(r, x, offset, offset + 1, count - offset - 1), x, -1)

RemovedUnordered(m, x, index) ==
    LET r == Owned(m, x)
        count == r.arr[x].Count
    IN  AddToCount(Move(r, x, TranslateIndex(index, count), count - 1, 1), x, -1)

WithoutElements(m, x) == [m EXCEPT !.arr[x].Count = 0]

-----------------------------------------------------------------------------
(***************************************************************************)
(* find for a subarray compares at every offset below Count, also where    *)
(* the subarray would end behind it.                                       *)
(***************************************************************************)
MatchesAt(m, x, needle, offset) ==
    \A i \in DOMAIN needle : Cell(m, x, offset + i - 1) = needle[i]

Find(m, x, needle, start) ==
    LET hits == {o \in start..m.arr[x].Count - 1 : MatchesAt(m, x, needle, o)}
    IN  IF hits = {} \/ needle = <<>> THEN -1 ELSE Min(hits)

EndsInside(m, x, needle, offset) == offset + Len(needle) <= m.arr[x].Count

\* One turn of the loop of array_replace_all, which goes on at offset i.  What
\* it does to a match that ends behind Count is undefined.
ReplaceNext(s, x, needle, by) ==
    LET at == Find(s.m, x, needle, s.i)
        r == Reserve(s.m, x, Max({Len(by) - Len(needle), Len(needle) - Len(by)}))
        behind == at + Len(needle)
        moved == Move(r, x, at + Len(by), behind, r.arr[x].Count - behind)
    IN  IF at = -1 \/ s.undefined THEN s
        ELSE IF ~EndsInside(s.m, x, needle, at) THEN [s EXCEPT !.undefined = TRUE]
        ELSE [m |-> AddToCount(Put(moved, x, at, by), x, Len(by) - Len(needle)),
              i |-> at + Len(by), undefined |-> FALSE]

\* Every turn uses up an element of the array.
ReplacedAll(m, x, needle, by) ==
    LET after[turn \in 0..m.arr[x].Count] ==
            IF turn = 0 THEN [m |-> m, i |-> 0, undefined |-> FALSE]
            ELSE ReplaceNext(after[turn - 1], x, needle, by)
    IN  after[m.arr[x].Count]

-----------------------------------------------------------------------------
(***************************************************************************)
(* The operations of user code, each with what it should do to the value.  *)
(***************************************************************************)
Store(m) == block' = m.block /\ arr' = m.arr

\* No other array has elements in the block of x.
Unviewed(x) == \A y \in Arrays \ {x} : arr[y].of = x => arr[y].Count = 0

Should(x, s) == value' = [value EXCEPT ![x] = s]

Indices(x) == -Len(value[x])..Len(value[x])-1
EndIndices(x) == -Len(value[x])..Len(value[x])

ArrayInsertAt(x, index, s) ==
    LET i == TranslateIndex(index, Len(value[x]))
    IN  /\ Unviewed(x) /\ Len(value[x]) + Len(s) <= MaxLength
        /\ Store(InsertedAt(Memory, x, index, s))
        /\ Should(x, SubSeq(value[x], 1, i) \o s \o SubSeq(value[x], i + 1, Len(value[x])))

ArrayRemoveAt(x, index) ==
    /\ Unviewed(x)
    /\ Store(RemovedAt(Memory, x, index))
    /\ Should(x, RemoveAt(value[x], TranslateIndex(index, Len(value[x])) + 1))

ArrayRemoveUnordered(x, index) ==
    LET i == TranslateIndex(index, Len(value[x])) + 1
    IN  /\ Unviewed(x)
        /\ Store(RemovedUnordered(Memory, x, index))
        /\ Should(x, Front(ReplaceAt(value[x], i, Last(value[x]))))

ArrayRemoveRange(x, begin, end) ==
    LET first == TranslateIndex(begin, Len(value[x]))
        last == TranslateIndex(end, Len(value[x]))
    IN  /\ Unviewed(x) /\ first <= last
        /\ Store(RemovedRange(Memory, x, begin, end))
        /\ Should(x, SubSeq(value[x], 1, first) \o SubSeq(value[x], last + 1, Len(value[x])))

\* array_set and operator[] write through a view.
ArraySet(x, index, e) ==
    LET offset == TranslateIndex(index, Len(value[x]))
        same(y) == arr[x].first + offset + 1 - arr[y].first
    IN  /\ Store(Put(Memory, x, offset, <<e>>))
        /\ value' = [y \in Arrays |->
                        IF arr[y].of = arr[x].of /\ same(y) \in DOMAIN value[y]
                        THEN [value[y] EXCEPT ![same(y)] = e] ELSE value[y]]

\* What should come of v: needles are looked for from the front.
AllReplaced(v, needle, by) ==
    LET f[k \in 0..Len(v)] ==    \* of the last k elements
            LET rest == SubSeq(v, Len(v) - k + 1, Len(v))
            IN  IF k = 0 THEN <<>>
                ELSE IF IsPrefix(needle, rest) THEN by \o f[k - Len(needle)]
                ELSE <<Head(rest)>> \o f[k - 1]
    IN  f[Len(v)]

ArrayReplaceAll(x, needle, by) ==
    LET done == ReplacedAll(Memory, x, needle, by)
    IN  /\ Unviewed(x) /\ arr[x].Count > 0 /\ ~done.undefined
        /\ Len(AllReplaced(value[x], needle, by)) <= MaxLength
        /\ Store(done.m)
        /\ Should(x, AllReplaced(value[x], needle, by))

ArrayReserve(x, n) == /\ Unviewed(x) /\ Len(value[x]) + n <= MaxLength
                      /\ Store(Reserve(Memory, x, n))
                      /\ UNCHANGED value

ArrayReset(x) == /\ Unviewed(x)
                 /\ Store(WithoutElements(Memory, x))
                 /\ Should(x, <<>>)

Free(x) == /\ Unviewed(x)
           /\ Store([block |-> [block EXCEPT ![x] = <<>>], arr |-> [arr EXCEPT ![x] = NoData]])
           /\ Should(x, <<>>)

Clone(dest, src) ==
    /\ Unviewed(dest) /\ dest # src
    /\ Store(InsertedAt(WithoutElements(Memory, dest), dest, 0, Contents(Memory, src)))
    /\ Should(dest, value[src])

\* The constructor of a pointer and a count: x becomes a view of elements of y.
MakeView(x, y, offset, n) ==
    /\ arr[x].Allocated = 0 /\ arr[y].Allocated # 0 /\ offset + n <= arr[y].Count
    /\ arr' = [arr EXCEPT ![x] = [of |-> y, first |-> offset, Count |-> n, Allocated |-> 0]]
    /\ Should(x, SubSeq(value[y], offset + 1, offset + n))
    /\ UNCHANGED block

Operation(x) ==
    \/ \E i \in EndIndices(x), s \in Inputs : ArrayInsertAt(x, i, s)
    \/ \E i \in Indices(x) : ArrayRemoveAt(x, i) \/ ArrayRemoveUnordered(x, i)
    \/ \E i \in Indices(x), j \in EndIndices(x) : ArrayRemoveRange(x, i, j)
    \/ \E i \in Indices(x), e \in Element : ArraySet(x, i, e)
    \/ \E needle \in Needles, s \in Inputs : ArrayReplaceAll(x, needle, s)
    \/ \E n \in 0..MaxLength : ArrayReserve(x, n)
    \/ ArrayReset(x) \/ Free(x)
    \/ \E y \in Arrays : Clone(x, y)
    \/ \E y \in Arrays : \E o \in 0..MaxLength, n \in 1..MaxLength : MakeView(x, y, o, n)

Next == \E x \in Arrays : Operation(x)

Spec == Init /\ [][Next]_vars

-----------------------------------------------------------------------------
TypeOK == /\ block \in [Arrays -> Seq(Element \cup {Fresh})]
          /\ arr \in [Arrays -> [of : Arrays \cup {Nobody}, first : 0..MaxLength,
                                 Count : 0..MaxLength, Allocated : 0..2^MaxPower]]
          /\ value \in [Arrays -> Seq(Element)]

\* array.h: whatever the order of operations, the buffers and counts of every
\* array amount to the elements it should have; in particular an operation on
\* a view leaves the array it looks at alone, and one on an array its views.
ContentsAgree == \A x \in Arrays : Contents(Memory, x) = value[x]
=============================================================================
