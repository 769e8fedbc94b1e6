-------------------------- MODULE ContainerProofs --------------------------
(***************************************************************************)
(* Arrays, the stack dynamic buffer and the string builder, for any        *)
(* elements and any bounds: whatever the order of operations, every array  *)
(* has the elements it should have, and the buffers the bytes.  The        *)
(* inductive invariant of the arrays says how the blocks, the structs and  *)
(* the views of array.h lie; one part of it per array, so that an          *)
(* operation concerns the arrays whose block or struct it writes.  That of *)
(* the builder says which buffers of its chain hold what was written.      *)
(* What they move and copy cells with has lemmas of its own.               *)
(***************************************************************************)
EXTENDS Array, HeaderListProofs, SequenceTheorems, FiniteSetTheorems, WellFoundedInduction, TLAPS

-----------------------------------------------------------------------------
(***************************************************************************)
(* Arrays: an array that has a block of its own lies at its start; one     *)
(* that has none looks at cells of another that does.                      *)
(***************************************************************************)
ArrayCells == Element \cup {Fresh}
Structs == [of : Arrays \cup {Nobody}, first : Nat, Count : Nat, Allocated : Nat]
Blocks == [Arrays -> Seq(ArrayCells)]

\* The memory m has s at the array x.
HasAt(m, x, s) ==
    LET a == m.arr[x]
    IN  /\ a.Count = Len(s)
        /\ a.Allocated # 0 => /\ a.of = x /\ a.first = 0
                              /\ Len(m.block[x]) = a.Allocated /\ a.Count <= a.Allocated
        /\ a.Allocated = 0 /\ a.Count # 0 => /\ a.of \in Arrays \ {x} /\ m.arr[a.of].Allocated # 0
                                             /\ a.first + a.Count <= Len(m.block[a.of])
        /\ \A i \in 1..a.Count : m.block[a.of][a.first + i] = s[i]

\* A record of a block and a struct for every array, and one where every array x has v[x].
IsMemory(m) == m = [block |-> m.block, arr |-> m.arr] /\ m.block \in Blocks /\ m.arr \in [Arrays -> Structs]
HasAll(m, v) == IsMemory(m) /\ v \in [Arrays -> Seq(Element)] /\ \A x \in Arrays : HasAt(m, x, v[x])

\* Nobody else has elements in the block of x.
Alone(m, x) == \A y \in Arrays \ {x} : m.arr[y].of = x => m.arr[y].Count = 0

\* The memory with a block of x's own, of whose cells c count.
WithBlock(m, x, b, c) ==
    [block |-> [m.block EXCEPT ![x] = b],
     arr |-> [m.arr EXCEPT ![x] = [of |-> x, first |-> 0, Count |-> c, Allocated |-> Len(b)]]]
\* The first cells of the block b hold s.
HoldsFirst(b, s) == b \in Seq(ArrayCells) /\ Len(s) <= Len(b) /\ \A i \in 1..Len(s) : b[i] = s[i]

\* The inductive invariant: blocks, structs and views lie so that every array has its elements.
ArrayInv == HasAll(Memory, value) /\ \A x \in Arrays : Len(value[x]) <= MaxLength

\* Who owns a block nobody else looks at may change it: the others keep what they have.
LEMMA WithBlockHas ==
    ASSUME NEW m, NEW v, HasAll(m, v), NEW x \in Arrays, Alone(m, x),
           NEW b, NEW s \in Seq(Element), HoldsFirst(b, s), Len(b) # 0
    PROVE  /\ HasAll(WithBlock(m, x, b, Len(s)), [v EXCEPT ![x] = s])
           /\ Alone(WithBlock(m, x, b, Len(s)), x)
  <1> DEFINE n == WithBlock(m, x, b, Len(s))
             w == [v EXCEPT ![x] = s]
  <1>1. m.block \in Blocks /\ m.arr \in [Arrays -> Structs] /\ v \in [Arrays -> Seq(Element)]
    BY DEF HasAll, IsMemory
  <1>2. b \in Seq(ArrayCells) /\ Len(b) \in Nat \ {0} /\ Len(s) \in Nat /\ Len(s) <= Len(b)
    BY DEF HoldsFirst
  <1>3. /\ n.block \in Blocks /\ n.block[x] = b
        /\ \A y \in Arrays \ {x} : n.block[y] = m.block[y]
    BY <1>1, <1>2 DEF WithBlock, Blocks
  <1>4. /\ n.arr \in [Arrays -> Structs]
        /\ n.arr[x] = [of |-> x, first |-> 0, Count |-> Len(s), Allocated |-> Len(b)]
        /\ \A y \in Arrays \ {x} : n.arr[y] = m.arr[y]
    BY <1>1, <1>2 DEF WithBlock, Structs
  <1>5. w \in [Arrays -> Seq(Element)] /\ w[x] = s /\ \A y \in Arrays \ {x} : w[y] = v[y]
    BY <1>1
  <1>6. n = [block |-> n.block, arr |-> n.arr]
    BY DEF WithBlock
  <1> HIDE DEF n, w
  <1>7. HasAt(n, x, w[x])
    BY <1>2, <1>3, <1>4, <1>5 DEF HasAt, HoldsFirst
  <1>8. ASSUME NEW y \in Arrays \ {x} PROVE HasAt(n, y, w[y])
    <2>1. HasAt(m, y, v[y]) /\ m.arr[y] \in Structs
      BY <1>1 DEF HasAll
    <2>2. n.arr[y] = m.arr[y] /\ w[y] = v[y] /\ n.block[y] = m.block[y]
      BY <1>3, <1>4, <1>5
    <2>3. CASE m.arr[y].Count = 0
      BY <2>1, <2>2, <2>3 DEF HasAt, Structs
    <2>4. CASE m.arr[y].Count # 0
      <3>1. m.arr[y].of \in Arrays \ {x}
        BY <2>1, <2>4 DEF HasAt, Alone
      <3>2. n.block[m.arr[y].of] = m.block[m.arr[y].of] /\ n.arr[m.arr[y].of] = m.arr[m.arr[y].of]
        BY <1>3, <1>4, <3>1
      <3> QED
        BY <2>1, <2>2, <3>2 DEF HasAt
    <2> QED
      BY <2>3, <2>4
  <1>9. Alone(n, x)
    BY <1>4 DEF Alone
  <1> QED
    BY <1>3, <1>4, <1>5, <1>6, <1>7, <1>8, <1>9 DEF n, w, HasAll, IsMemory

\* A block of one's own is already of that form.
LEMMA OwnBlock ==
    ASSUME NEW m, NEW v, HasAll(m, v), NEW x \in Arrays, m.arr[x].Allocated # 0
    PROVE  /\ m = WithBlock(m, x, m.block[x], Len(v[x])) /\ HoldsFirst(m.block[x], v[x])
           /\ Len(m.block[x]) = m.arr[x].Allocated
  <1>1. /\ m = [block |-> m.block, arr |-> m.arr] /\ m.block \in Blocks /\ m.arr \in [Arrays -> Structs]
        /\ HasAt(m, x, v[x]) /\ v[x] \in Seq(Element)
    BY DEF HasAll, IsMemory
  <1>2. m.arr[x] \in Structs /\ m.block[x] \in Seq(ArrayCells)
    BY <1>1 DEF Blocks
  <1>3. m.arr[x] = [of |-> x, first |-> 0, Count |-> Len(v[x]), Allocated |-> Len(m.block[x])]
    BY <1>1, <1>2 DEF HasAt, Structs
  <1>4. [m.arr EXCEPT ![x] = m.arr[x]] = m.arr /\ [m.block EXCEPT ![x] = m.block[x]] = m.block
    BY <1>1 DEF Blocks
  <1>5. m = WithBlock(m, x, m.block[x], Len(v[x]))
    BY <1>1, <1>3, <1>4 DEF WithBlock
  <1>6. HoldsFirst(m.block[x], v[x])
    BY <1>1, <1>2, <1>3 DEF HasAt, HoldsFirst
  <1> QED
    BY <1>3, <1>5, <1>6

-----------------------------------------------------------------------------
\* The operators of the module on memories of that form, by what they make of the block.
PutAt(b, offset, s) == [c \in 1..Len(b) |-> IF c - offset \in 1..Len(s) THEN s[c - offset] ELSE b[c]]
CellsFrom(b, from, n) == [i \in 1..n |-> b[from + i]]

\* What PutAt makes of a block, by its cells.
IsPutAt(w, b, offset, s) ==
    /\ w \in Seq(ArrayCells) /\ Len(w) = Len(b)
    /\ \A c \in 1..Len(b) : w[c] = IF c - offset \in 1..Len(s) THEN s[c - offset] ELSE b[c]

LEMMA PutAtIs ==
    ASSUME NEW b \in Seq(ArrayCells), NEW offset \in Int, NEW s \in Seq(ArrayCells)
    PROVE  IsPutAt(PutAt(b, offset, s), b, offset, s)
  <1>1. Len(b) \in Nat /\ Len(s) \in Nat
    OBVIOUS
  <1>2. \A c \in 1..Len(b) : (IF c - offset \in 1..Len(s) THEN s[c - offset] ELSE b[c]) \in ArrayCells
    OBVIOUS
  <1>3. PutAt(b, offset, s) \in [1..Len(b) -> ArrayCells]
    BY <1>2 DEF PutAt
  <1>4. PutAt(b, offset, s) \in Seq(ArrayCells)
    BY <1>1, <1>3
  <1> QED
    BY <1>1, <1>3, <1>4 DEF PutAt, IsPutAt

\* Cells put into a block.
LEMMA PutWithBlock ==
    ASSUME NEW m, m.block \in Blocks, m.arr \in [Arrays -> Structs], NEW x \in Arrays,
           NEW b \in Seq(ArrayCells), NEW k \in Nat,
           NEW offset \in Int, NEW s, DOMAIN s = 1..Len(s)
    PROVE  Put(WithBlock(m, x, b, k), x, offset, s) = WithBlock(m, x, PutAt(b, offset, s), k)
  <1> DEFINE w == WithBlock(m, x, b, k)
  <1>1. w.arr[x] = [of |-> x, first |-> 0, Count |-> k, Allocated |-> Len(b)] /\ w.block[x] = b
    BY DEF WithBlock, Blocks
  <1>2. w.arr[x].of = x /\ w.arr[x].first = 0
    BY <1>1
  <1>3. DOMAIN b = 1..Len(b) /\ Len(b) \in Nat
    OBVIOUS
  <1>4. [c \in DOMAIN b |-> IF c - 0 - offset \in DOMAIN s THEN s[c - 0 - offset] ELSE b[c]] = PutAt(b, offset, s)
    BY <1>3 DEF PutAt
  <1>5. Put(w, x, offset, s) = [w EXCEPT !.block[x] = PutAt(b, offset, s)]
    BY <1>1, <1>2, <1>4 DEF Put
  <1>6. Len(PutAt(b, offset, s)) = Len(b)
    BY <1>3 DEF PutAt
  <1>7. [[m.block EXCEPT ![x] = b] EXCEPT ![x] = PutAt(b, offset, s)] = [m.block EXCEPT ![x] = PutAt(b, offset, s)]
    BY DEF Blocks
  <1> QED
    BY <1>5, <1>6, <1>7 DEF WithBlock

\* The count of such an array, and a count that is changed.
LEMMA CountOfBlock ==
    ASSUME NEW m, m.arr \in [Arrays -> Structs], NEW x \in Arrays, NEW b, NEW k
    PROVE  WithBlock(m, x, b, k).arr[x].Count = k
  BY DEF WithBlock

LEMMA AddWithBlock ==
    ASSUME NEW m, m.arr \in [Arrays -> Structs], NEW x \in Arrays, NEW b, NEW k \in Nat, NEW d \in Int,
           NEW c, c = k + d
    PROVE  AddToCount(WithBlock(m, x, b, k), x, d) = WithBlock(m, x, b, c)
  <1>1. [[m.arr EXCEPT ![x] = [of |-> x, first |-> 0, Count |-> k, Allocated |-> Len(b)]]
            EXCEPT ![x].Count = k + d] =
        [m.arr EXCEPT ![x] = [of |-> x, first |-> 0, Count |-> k + d, Allocated |-> Len(b)]]
    OBVIOUS
  <1> QED
    BY <1>1 DEF AddToCount, WithBlock

\* Cells of a block moved inside it.
LEMMA MoveWithBlock ==
    ASSUME NEW m, m.block \in Blocks, m.arr \in [Arrays -> Structs], NEW x \in Arrays,
           NEW b \in Seq(ArrayCells), NEW k \in Nat, NEW to \in Nat, NEW from \in Nat, NEW n \in Nat, from + n <= Len(b)
    PROVE  /\ Move(WithBlock(m, x, b, k), x, to, from, n) = WithBlock(m, x, PutAt(b, to, CellsFrom(b, from, n)), k)
           /\ CellsFrom(b, from, n) \in Seq(ArrayCells) /\ Len(CellsFrom(b, from, n)) = n
  <1>1. CellsFrom(b, from, n) \in [1..n -> ArrayCells]
    BY DEF CellsFrom
  <1>2. CellsFrom(b, from, n) \in Seq(ArrayCells) /\ Len(CellsFrom(b, from, n)) = n /\ DOMAIN CellsFrom(b, from, n) = 1..n
    BY <1>1
  <1>3. Put(WithBlock(m, x, b, k), x, to, CellsFrom(b, from, n)) = WithBlock(m, x, PutAt(b, to, CellsFrom(b, from, n)), k)
    BY <1>2, PutWithBlock
  <1>4. Elements(WithBlock(m, x, b, k), x, from, n) = CellsFrom(b, from, n)
    <2>1. PICK w : w = WithBlock(m, x, b, k)
      OBVIOUS
    <2>2. w.arr[x] = [of |-> x, first |-> 0, Count |-> k, Allocated |-> Len(b)] /\ w.block[x] = b
      BY <2>1 DEF WithBlock, Blocks
    <2>3. w.arr[x].of = x /\ w.arr[x].first = 0
      BY <2>2
    <2>4. \A i \in 1..n : 0 + (from + i - 1) + 1 = from + i
      OBVIOUS
    <2>5. \A i \in 1..n : Cell(w, x, from + i - 1) = b[from + i]
      BY <2>2, <2>3, <2>4 DEF Cell
    <2>6. Elements(w, x, from, n) = CellsFrom(b, from, n)
      BY <2>5 DEF Elements, CellsFrom
    <2> QED
      BY <2>1, <2>6
  <1>5. Move(WithBlock(m, x, b, k), x, to, from, n) = WithBlock(m, x, PutAt(b, to, CellsFrom(b, from, n)), k)
    BY <1>3, <1>4 DEF Move
  <1> QED
    BY <1>2, <1>5

-----------------------------------------------------------------------------
\* The capacity: powers of two reach what is asked for.
Reachable(n) == \E e \in 0..MaxPower : n <= 2^e

\* The capacity array_reserve computes is a number that is large enough.
LEMMA CapacityReaches ==
    ASSUME NEW n \in Nat, Reachable(n)
    PROVE  CeilPowOf2(n) \in Nat /\ n <= CeilPowOf2(n)
  <1> DEFINE S == {p \in {2^e : e \in 0..MaxPower} : n <= p}
  <1>1. S \subseteq Nat /\ S # {}
    BY ArrayAssumption DEF Reachable
  <1>2. PICK R : IsWellFoundedOn(R, Nat) /\ \A a, b \in Nat : a < b => <<a, b>> \in R
    BY LessIsWellFounded
  <1>3. CeilPowOf2(n) = Min(S)
    BY DEF CeilPowOf2
  <1> HIDE DEF S
  <1>4. PICK p \in S : \A q \in S : ~ (<<q, p>> \in R)
    BY <1>1, <1>2, MinimumExists
  <1>5. ASSUME NEW q \in S PROVE p <= q
    <2>1. q \in Nat /\ p \in Nat /\ ~ (<<q, p>> \in R)
      BY <1>1, <1>4
    <2> QED
      BY <1>2, <2>1
  <1>6. Min(S) \in S
    BY <1>4, <1>5 DEF Min
  <1> QED
    BY <1>1, <1>3, <1>6 DEF S

\* array_reserve leaves x with a block of its own, with its elements and room for n more and one.
LEMMA ReserveMakes ==
    ASSUME NEW m, NEW v, HasAll(m, v), NEW x \in Arrays, NEW n \in Nat, Reachable(n + Len(v[x]) + 1)
    PROVE  \E b : /\ Reserve(m, x, n) = WithBlock(m, x, b, Len(v[x]))
                  /\ HoldsFirst(b, v[x]) /\ Len(v[x]) + n < Len(b)
  <1>1. /\ m.block \in Blocks /\ m.arr \in [Arrays -> Structs]
        /\ HasAt(m, x, v[x]) /\ v[x] \in Seq(Element)
    BY DEF HasAll, IsMemory
  <1>2. m.arr[x] \in Structs /\ m.arr[x].Count = Len(v[x]) /\ m.arr[x].Allocated \in Nat /\ Len(v[x]) \in Nat
    BY <1>1 DEF HasAt, Structs
  <1>3. CASE Fits(m.arr[x], n)
    <2>1. m.arr[x].Allocated # 0 /\ Len(v[x]) + n < m.arr[x].Allocated
      BY <1>2, <1>3 DEF Fits
    <2>2. Reserve(m, x, n) = m
      BY <1>3 DEF Reserve
    <2> QED
      BY <2>1, <2>2, OwnBlock
  <1>4. CASE ~Fits(m.arr[x], n)
    <2> DEFINE kept == IF m.arr[x].Allocated # 0 THEN m.block[x] ELSE Contents(m, x)
               power == CeilPowOf2(n + m.arr[x].Count + 1)
               target == Max({power, MinimumAllocated})
               b == [c \in 1..target |-> IF c <= Len(kept) THEN kept[c] ELSE Fresh]
    <2>1. power \in Nat /\ n + Len(v[x]) + 1 <= power
      <3>1. n + Len(v[x]) + 1 \in Nat
        BY <1>2
      <3> QED
        BY <1>2, <3>1, CapacityReaches
    <2>2. target \in Nat /\ power <= target
      <3> HIDE DEF power
      <3>1. MinimumAllocated \in Nat
        BY ArrayAssumption
      <3>2. \E t \in {power, MinimumAllocated} : \A u \in {power, MinimumAllocated} : t >= u
        BY <2>1, <3>1
      <3>3. Max({power, MinimumAllocated}) \in {power, MinimumAllocated} /\ Max({power, MinimumAllocated}) >= power
        BY <3>2 DEF Max
      <3> QED
        BY <2>1, <3>1, <3>3
    <2>3. /\ kept \in Seq(ArrayCells) /\ Len(v[x]) <= Len(kept)
          /\ \A i \in 1..Len(v[x]) : kept[i] = v[x][i]
      <3>1. CASE m.arr[x].Allocated # 0
        BY <3>1, OwnBlock, <1>2 DEF HoldsFirst
      <3>2. CASE m.arr[x].Allocated = 0
        <4>1. \A i \in 1..Len(v[x]) : Cell(m, x, 0 + i - 1) = v[x][i]
          <5> TAKE i \in 1..Len(v[x])
          <5>1. m.block[m.arr[x].of][m.arr[x].first + i] = v[x][i]
            BY <1>1, <1>2 DEF HasAt
          <5>2. m.arr[x].first + (0 + i - 1) + 1 = m.arr[x].first + i
            BY <1>2 DEF Structs
          <5> QED
            BY <5>1, <5>2 DEF Cell
        <4>2. Contents(m, x) = [i \in 1..Len(v[x]) |-> v[x][i]]
          BY <1>2, <4>1 DEF Contents, Elements
        <4>3. Contents(m, x) \in [1..Len(v[x]) -> ArrayCells]
          BY <1>1, <4>2 DEF ArrayCells
        <4> QED
          BY <1>2, <3>2, <4>2, <4>3
      <3> QED
        BY <3>1, <3>2
    <2>4. Reserve(m, x, n) =
              [block |-> [m.block EXCEPT ![x] = b],
               arr |-> [m.arr EXCEPT ![x] = [of |-> x, first |-> 0, Count |-> Len(v[x]), Allocated |-> target]]]
      BY <1>2, <1>4 DEF Reserve
    <2> HIDE DEF kept, power, target
    <2>5. b \in [1..target -> ArrayCells]
      BY <2>3 DEF ArrayCells
    <2>6. b \in Seq(ArrayCells) /\ Len(b) = target
      BY <2>2, <2>5
    <2>7. HoldsFirst(b, v[x])
      BY <1>2, <2>1, <2>2, <2>3, <2>6 DEF HoldsFirst
    <2>8. Reserve(m, x, n) = WithBlock(m, x, b, Len(v[x]))
      BY <2>4, <2>6 DEF WithBlock
    <2> HIDE DEF b
    <2> QED
      BY <1>2, <2>1, <2>2, <2>6, <2>7, <2>8
  <1> QED
    BY <1>3, <1>4

-----------------------------------------------------------------------------
\* A part of a sequence replaced by another: of an insertion, a removal, and one match.
Spliced(v, i, s, j) == SubSeq(v, 1, i) \o s \o SubSeq(v, j + 1, Len(v))

\* w is v with s in place of the elements from i up to j.
IsSpliced(w, v, i, s, j) ==
    /\ w \in Seq(Element) /\ Len(w) = i + Len(s) + Len(v) - j
    /\ \A p \in 1..i + Len(s) + Len(v) - j :
           w[p] = IF p <= i THEN v[p] ELSE IF p <= i + Len(s) THEN s[p - i] ELSE v[p - i - Len(s) + j]

LEMMA SplicedIs ==
    ASSUME NEW v \in Seq(Element), NEW s \in Seq(Element), NEW i \in Nat, NEW j \in Nat, i <= j, j <= Len(v)
    PROVE  IsSpliced(Spliced(v, i, s, j), v, i, s, j)
  <1> DEFINE a == SubSeq(v, 1, i)
             z == SubSeq(v, j + 1, Len(v))
  <1>1. PICK n \in Nat : n = Len(v)
    OBVIOUS
  <1>2. a \in Seq(Element) /\ Len(a) = i /\ \A p \in 1..i : a[p] = v[p]
    <2>1. \A p \in 1..i : v[p] \in Element
      BY <1>1
    <2>2. 1 \in 1..(Len(v) + 1) /\ i \in (1 - 1)..Len(v)
      BY <1>1
    <2> QED
      BY <2>1, <2>2, SubSeqProperties
  <1>3. z \in Seq(Element) /\ Len(z) = n - j /\ \A p \in 1..n - j : z[p] = v[p + j]
    <2>1. PICK k \in Nat : k = j + 1
      OBVIOUS
    <2>2. \A p \in k..n : v[p] \in Element
      BY <1>1, <2>1
    <2>3. k \in 1..(Len(v) + 1) /\ n \in (k - 1)..Len(v)
      BY <1>1, <2>1
    <2>4. SubSeq(v, k, n) \in Seq(Element) /\ Len(SubSeq(v, k, n)) = n - k + 1
          /\ \A p \in 1..n - k + 1 : SubSeq(v, k, n)[p] = v[k + p - 1]
      BY <2>2, <2>3, SubSeqProperties
    <2>5. z = SubSeq(v, k, n)
      BY <1>1, <2>1
    <2> QED
      BY <2>1, <2>4, <2>5
  <1> HIDE DEF a, z
  <1>k. PICK k \in Nat : k = Len(s)
    OBVIOUS
  <1>d. n - j \in Nat
    BY <1>1
  <1>r. PICK r \in Nat : r = n - j
    BY <1>d
  <1>4. a \o s \in Seq(Element) /\ Len(a \o s) = i + k
        /\ \A p \in 1..i + k : (a \o s)[p] = IF p <= i THEN a[p] ELSE s[p - i]
    BY <1>2, <1>k, ConcatProperties
  <1>5. PICK as \in Seq(Element) : as = a \o s
    BY <1>4
  <1>7. PICK w : w = as \o z /\ w = Spliced(v, i, s, j)
    BY <1>1, <1>5 DEF Spliced, a, z
  <1>6. w \in Seq(Element) /\ Len(w) = i + k + r
        /\ \A p \in 1..i + k + r : w[p] = IF p <= i + k THEN as[p] ELSE z[p - (i + k)]
    <2>1. Len(as) = i + k /\ Len(z) = r
      BY <1>3, <1>4, <1>5, <1>r
    <2>2. /\ w \in Seq(Element) /\ Len(w) = Len(as) + Len(z)
          /\ \A p \in 1..Len(as) + Len(z) : w[p] = IF p <= Len(as) THEN as[p] ELSE z[p - Len(as)]
      <3>1. /\ as \o z \in Seq(Element) /\ Len(as \o z) = Len(as) + Len(z)
            /\ \A p \in 1..Len(as) + Len(z) : (as \o z)[p] = IF p <= Len(as) THEN as[p] ELSE z[p - Len(as)]
        BY <1>3, ConcatProperties, Zenon
      <3> QED
        BY <1>7, <3>1, Zenon
    <2> QED
      BY <2>1, <2>2
  <1>8. ASSUME NEW p \in 1..i + k + r
        PROVE  w[p] = IF p <= i THEN v[p] ELSE IF p <= i + k THEN s[p - i] ELSE v[p - i - k + j]
    <2>1. CASE p <= i
      BY <1>2, <1>4, <1>5, <1>6, <2>1
    <2>2. CASE p > i /\ p <= i + k
      <3>1. w[p] = IF p <= i + k THEN as[p] ELSE z[p - (i + k)]
        BY <1>6
      <3>2. p \in 1..i + k /\ ~(p <= i)
        BY <2>2
      <3> QED
        BY <1>4, <1>5, <2>2, <3>1, <3>2
    <2>3. CASE p > i + k
      <3>1. PICK q \in 1..r : q = p - (i + k)
        BY <2>3
      <3>2. w[p] = z[p - (i + k)]
        <4>1. ~(p <= i + k)
          BY <2>3
        <4>2. w[p] = IF p <= i + k THEN as[p] ELSE z[p - (i + k)]
          BY <1>6
        <4> QED
          BY <4>1, <4>2
      <3>3. z[q] = v[q + j]
        BY <1>3, <1>r, <3>1
      <3>4. p - i - k + j = q + j /\ ~(p <= i) /\ ~(p <= i + k)
        BY <2>3, <3>1
      <3> QED
        BY <3>1, <3>2, <3>3, <3>4
    <2>4. p \in Int /\ i + k \in Int
      OBVIOUS
    <2> QED
      BY <2>1, <2>2, <2>3, <2>4
  <1>9. i + Len(s) + Len(v) - j = i + k + r /\ i + Len(s) = i + k
    BY <1>1, <1>k, <1>r
  <1> QED
    BY <1>6, <1>7, <1>8, <1>9, <1>k DEF IsSpliced

\* The cells behind the part are moved, and then the other part is put in front of them.
LEMMA SplicedBlock ==
    ASSUME NEW b, NEW v \in Seq(Element), NEW s \in Seq(Element), NEW i \in Nat, NEW j \in Nat,
           i <= j, j <= Len(v), HoldsFirst(b, v), i + Len(s) + Len(v) - j <= Len(b)
    PROVE  /\ HoldsFirst(PutAt(PutAt(b, i + Len(s), CellsFrom(b, j, Len(v) - j)), i, s), Spliced(v, i, s, j))
           /\ Len(PutAt(PutAt(b, i + Len(s), CellsFrom(b, j, Len(v) - j)), i, s)) = Len(b)
  <1>1. PICK k \in Nat : k = Len(s)
    OBVIOUS
  <1>2. PICK n \in Nat : n = Len(v)
    OBVIOUS
  <1>d. n - j \in Nat
    BY <1>2
  <1>r. PICK r \in Nat : r = n - j
    BY <1>d
  <1>f. PICK f \in Nat : f = i + k
    OBVIOUS
  <1>3. b \in Seq(ArrayCells) /\ n <= Len(b) /\ \A p \in 1..n : b[p] = v[p]
    BY <1>2 DEF HoldsFirst
  <1>4. PICK d : d = CellsFrom(b, j, r)
    OBVIOUS
  <1>5. d \in [1..r -> ArrayCells] /\ \A p \in 1..r : d[p] = v[p + j]
    <2>1. PICK h \in Nat : h = Len(b)
      BY <1>3
    <2>2. ASSUME NEW p \in 1..r PROVE p + j \in 1..n /\ p + j \in 1..h
      BY <1>3, <1>r, <2>1
    <2>3. ASSUME NEW p \in 1..r PROVE b[j + p] \in ArrayCells /\ b[j + p] = v[p + j]
      <3>1. PICK q \in Nat : q = p + j
        OBVIOUS
      <3>2. j + p = q /\ q \in 1..n /\ q \in 1..h
        BY <2>2, <3>1
      <3>3. b[q] \in ArrayCells /\ b[q] = v[q]
        BY <1>3, <2>1, <3>2
      <3> QED
        BY <3>1, <3>2, <3>3
    <2>4. d = [p \in 1..r |-> b[j + p]]
      BY <1>4 DEF CellsFrom
    <2> QED
      BY <2>3, <2>4
  <1>6. d \in Seq(ArrayCells) /\ Len(d) = r
    BY <1>5
  <1>7. s \in Seq(ArrayCells)
    BY DEF ArrayCells
  <1>8. PICK c : c = PutAt(b, f, d)
    OBVIOUS
  <1>9. /\ c \in Seq(ArrayCells) /\ Len(c) = Len(b)
        /\ \A p \in 1..Len(b) : c[p] = IF p - f \in 1..r THEN d[p - f] ELSE b[p]
    <2>1. f \in Int
      OBVIOUS
    <2>2. /\ c \in Seq(ArrayCells) /\ Len(c) = Len(b)
          /\ \A p \in 1..Len(b) : c[p] = IF p - f \in 1..Len(d) THEN d[p - f] ELSE b[p]
      <3>1. IsPutAt(c, b, f, d)
        BY <1>3, <1>6, <1>8, <2>1, PutAtIs
      <3> QED
        BY <3>1 DEF IsPutAt
    <2> QED
      BY <1>6, <2>2
  <1>10. PICK e : e = PutAt(c, i, s)
    OBVIOUS
  <1>11. /\ e \in Seq(ArrayCells) /\ Len(e) = Len(b)
         /\ \A p \in 1..Len(b) : e[p] = IF p - i \in 1..k THEN s[p - i] ELSE c[p]
    <2>1. i \in Int
      OBVIOUS
    <2>2. IsPutAt(e, c, i, s)
      BY <1>7, <1>9, <1>10, <2>1, PutAtIs
    <2> QED
      BY <1>1, <1>9, <2>2 DEF IsPutAt
  <1>12. PICK w \in Seq(Element) : w = Spliced(v, i, s, j)
    BY SplicedIs DEF IsSpliced
  <1>13. Len(w) = f + r
         /\ \A p \in 1..f + r : w[p] = IF p <= i THEN v[p] ELSE IF p <= f THEN s[p - i] ELSE v[p - i - k + j]
    <2>1. i + Len(s) + Len(v) - j = f + r /\ i + Len(s) = f
      BY <1>1, <1>2, <1>r, <1>f
    <2>2. /\ Len(w) = f + r
          /\ \A p \in 1..f + r : w[p] = IF p <= i THEN v[p] ELSE IF p <= f THEN s[p - i] ELSE v[p - i - Len(s) + j]
      <3>1. /\ Len(w) = i + Len(s) + Len(v) - j
            /\ \A p \in 1..i + Len(s) + Len(v) - j :
                  w[p] = IF p <= i THEN v[p] ELSE IF p <= i + Len(s) THEN s[p - i] ELSE v[p - i - Len(s) + j]
        <4>1. IsSpliced(Spliced(v, i, s, j), v, i, s, j)
          BY SplicedIs
        <4> QED
          BY <1>12, <4>1 DEF IsSpliced
      <3> QED
        BY <2>1, <3>1
    <2> QED
      BY <1>1, <2>2
  <1>14. ASSUME NEW p \in 1..f + r PROVE e[p] = w[p]
    <2>1. p \in 1..Len(b) /\ Len(b) \in Nat
      BY <1>1, <1>2, <1>3, <1>r, <1>f
    <2>2. CASE p <= i
      BY <1>2, <1>3, <1>9, <1>11, <1>13, <1>f, <2>1, <2>2
    <2>3. CASE p > i /\ p <= f
      <3>1. p - i \in 1..k
        BY <1>f, <2>3
      <3>2. e[p] = s[p - i]
        BY <1>11, <2>1, <3>1
      <3> QED
        BY <1>13, <2>3, <3>2
    <2>4. CASE p > f
      <3>1. PICK q \in 1..r : q = p - f
        BY <2>4
      <3>2. e[p] = c[p] /\ c[p] = d[q] /\ d[q] = v[q + j]
        BY <1>5, <1>9, <1>11, <1>f, <2>1, <2>4, <3>1
      <3>3. p - i - k + j = q + j /\ ~(p <= i) /\ ~(p <= f)
        BY <3>1, <1>f, <2>4
      <3>4. w[p] = v[q + j]
        BY <1>13, <3>3
      <3> QED
        BY <3>2, <3>4
    <2>5. p \in Int
      OBVIOUS
    <2> QED
      BY <2>2, <2>3, <2>4, <2>5
  <1>15. HoldsFirst(e, w)
    <2>1. f + r <= Len(b)
      BY <1>1, <1>2, <1>r, <1>f
    <2> QED
      BY <1>11, <1>13, <1>14, <2>1 DEF HoldsFirst
  <1>16. i + Len(s) = f /\ Len(v) - j = r
    BY <1>1, <1>2, <1>r, <1>f
  <1> QED
    BY <1>4, <1>8, <1>10, <1>11, <1>12, <1>15, <1>16

-----------------------------------------------------------------------------
\* The operations on a memory.
Index(v, x, index) == TranslateIndex(index, Len(v[x]))
Becomes(m, n, v, x, s) == HasAll(n, [v EXCEPT ![x] = s]) /\ Alone(n, x)

\* Cells moved, others put, the count changed.
Edited(m, x, b, k, to, from, n, i, s, d) ==
    LET moved == Move(WithBlock(m, x, b, k), x, to, from, n)
        c == PutAt(b, to, CellsFrom(b, from, n))
    IN  /\ AddToCount(moved, x, d) = WithBlock(m, x, c, k + d)
        /\ AddToCount(Put(moved, x, i, s), x, d) = WithBlock(m, x, PutAt(c, i, s), k + d)
        /\ c \in Seq(ArrayCells) /\ Len(c) = Len(b)

\* Such an edit, by what it makes of the block.
LEMMA EditMakes ==
    ASSUME NEW m, m.block \in Blocks, m.arr \in [Arrays -> Structs], NEW x \in Arrays,
           NEW b \in Seq(ArrayCells), NEW k \in Nat, NEW to \in Nat, NEW from \in Nat, NEW n \in Nat, from + n <= Len(b),
           NEW i \in Int, NEW s \in Seq(ArrayCells), NEW d \in Int
    PROVE  Edited(m, x, b, k, to, from, n, i, s, d)
  <1>1. PICK moved : moved = Move(WithBlock(m, x, b, k), x, to, from, n)
    OBVIOUS
  <1>2. PICK q : q = CellsFrom(b, from, n)
    OBVIOUS
  <1>3. PICK c : c = PutAt(b, to, q)
    OBVIOUS
  <1>4. moved = WithBlock(m, x, c, k) /\ q \in Seq(ArrayCells)
    <2>1. /\ Move(WithBlock(m, x, b, k), x, to, from, n) = WithBlock(m, x, PutAt(b, to, CellsFrom(b, from, n)), k)
          /\ CellsFrom(b, from, n) \in Seq(ArrayCells)
      BY MoveWithBlock
    <2> QED
      BY <1>1, <1>2, <1>3, <2>1
  <1>5. c \in Seq(ArrayCells) /\ Len(c) = Len(b)
    <2>1. to \in Int
      OBVIOUS
    <2> QED
      BY <1>3, <1>4, <2>1, PutAtIs DEF IsPutAt
  <1>6. PICK e : e = PutAt(c, i, s)
    OBVIOUS
  <1>7. Put(moved, x, i, s) = WithBlock(m, x, e, k)
    <2>1. DOMAIN s = 1..Len(s)
      OBVIOUS
    <2> QED
      BY <1>4, <1>5, <1>6, <2>1, PutWithBlock
  <1>8. PICK z : z = k + d
    OBVIOUS
  <1>9. /\ AddToCount(WithBlock(m, x, c, k), x, d) = WithBlock(m, x, c, z)
        /\ AddToCount(WithBlock(m, x, e, k), x, d) = WithBlock(m, x, e, z)
    BY <1>8, AddWithBlock
  <1> QED
    BY <1>1, <1>2, <1>3, <1>4, <1>5, <1>6, <1>7, <1>8, <1>9 DEF Edited

\* Moving what is behind a part, and putting another in its place, splices.
LEMMA SpliceMakes ==
    ASSUME NEW m, NEW v, HasAll(m, v), NEW x \in Arrays, Alone(m, x),
           NEW b, HoldsFirst(b, v[x]), Len(b) # 0,
           NEW i \in Nat, NEW j \in Nat, i <= j, j <= Len(v[x]),
           NEW s \in Seq(Element), NEW to \in Nat, to = i + Len(s), to + Len(v[x]) - j <= Len(b),
           NEW n \in Nat, n = Len(v[x]) - j, NEW d \in Int, d = to - j,
           NEW moved, moved = Move(WithBlock(m, x, b, Len(v[x])), x, to, j, n)
    PROVE  /\ Becomes(m, AddToCount(Put(moved, x, i, s), x, d), v, x, Spliced(v[x], i, s, j))
           /\ s = <<>> => Becomes(m, AddToCount(moved, x, d), v, x, Spliced(v[x], i, s, j))
  <1>1. m.block \in Blocks /\ m.arr \in [Arrays -> Structs] /\ v[x] \in Seq(Element)
    BY DEF HasAll, IsMemory
  <1>2. PICK u \in Seq(Element) : u = v[x]
    BY <1>1
  <1>3. PICK k \in Nat : k = Len(u)
    OBVIOUS
  <1>5. b \in Seq(ArrayCells) /\ s \in Seq(ArrayCells) /\ k <= Len(b) /\ Len(b) \in Nat
    BY <1>2, <1>3 DEF HoldsFirst, ArrayCells
  <1>6. j + n <= Len(b) /\ i \in Int
    BY <1>2, <1>3, <1>5
  <1>7. PICK c : c = PutAt(b, to, CellsFrom(b, j, n))
    OBVIOUS
  <1>8. PICK g : g = PutAt(c, i, s)
    OBVIOUS
  <1>9. Edited(m, x, b, k, to, j, n, i, s, d)
    BY <1>1, <1>5, <1>6, EditMakes
  <1>10. /\ AddToCount(moved, x, d) = WithBlock(m, x, c, k + d)
         /\ AddToCount(Put(moved, x, i, s), x, d) = WithBlock(m, x, g, k + d)
         /\ c \in Seq(ArrayCells) /\ Len(c) = Len(b)
    BY <1>2, <1>3, <1>7, <1>8, <1>9 DEF Edited
  <1>13. PICK w \in Seq(Element) : w = Spliced(u, i, s, j)
    BY <1>2, SplicedIs DEF IsSpliced
  <1>14. Len(w) = k + d
    <2>1. IsSpliced(w, u, i, s, j)
      BY <1>2, <1>13, SplicedIs
    <2>2. Len(w) = i + Len(s) + Len(u) - j
      BY <2>1 DEF IsSpliced
    <2>3. Len(s) \in Nat
      OBVIOUS
    <2> QED
      BY <1>3, <2>2, <2>3
  <1>15. HoldsFirst(g, w) /\ Len(g) = Len(b)
    <2>1. HoldsFirst(b, u) /\ j <= Len(u) /\ i + Len(s) + Len(u) - j <= Len(b)
      BY <1>2
    <2>2. /\ HoldsFirst(PutAt(PutAt(b, i + Len(s), CellsFrom(b, j, Len(u) - j)), i, s), Spliced(u, i, s, j))
          /\ Len(PutAt(PutAt(b, i + Len(s), CellsFrom(b, j, Len(u) - j)), i, s)) = Len(b)
      BY <2>1, SplicedBlock
    <2> QED
      BY <1>2, <1>7, <1>8, <1>13, <2>2
  <1>17. Becomes(m, WithBlock(m, x, g, Len(w)), v, x, w)
    BY <1>15, WithBlockHas DEF Becomes
  <1>18. ASSUME s = <<>> PROVE g = c
    <2>1. Len(s) = 0
      BY <1>18
    <2>2. /\ g \in Seq(ArrayCells) /\ Len(g) = Len(c)
          /\ \A p \in 1..Len(c) : g[p] = IF p - i \in 1..Len(s) THEN s[p - i] ELSE c[p]
      <3>1. IsPutAt(g, c, i, s)
        BY <1>5, <1>6, <1>10, <1>8, PutAtIs
      <3> QED
        BY <3>1 DEF IsPutAt
    <2>3. \A p \in 1..Len(c) : g[p] = c[p]
      BY <2>1, <2>2
    <2> QED
      BY <1>10, <2>2, <2>3, SeqEqual
  <1> QED
    BY <1>2, <1>10, <1>13, <1>14, <1>17, <1>18

\* Inserting, removing a range, removing an element and removing it unordered do to the memory
\* what they should do to the value.
LEMMA InsertMakes ==
    ASSUME NEW m, NEW v, HasAll(m, v), NEW x \in Arrays, Alone(m, x), NEW s \in Seq(Element), NEW index \in Int,
           Index(v, x, index) \in 0..Len(v[x]), Reachable(Len(s) + Len(v[x]) + 1)
    PROVE  Becomes(m, InsertedAt(m, x, index, s), v, x,
                   Spliced(v[x], Index(v, x, index), s, Index(v, x, index)))
  <1>1. m.arr \in [Arrays -> Structs] /\ v[x] \in Seq(Element)
    BY DEF HasAll, IsMemory
  <1>2. PICK i \in Nat : i = Index(v, x, index) /\ i <= Len(v[x])
    BY <1>1
  <1>3. PICK k \in Nat : k = Len(s)
    OBVIOUS
  <1>4. PICK b : /\ Reserve(m, x, k) = WithBlock(m, x, b, Len(v[x]))
                 /\ HoldsFirst(b, v[x]) /\ Len(v[x]) + k < Len(b)
    BY <1>3, ReserveMakes
  <1>5. PICK r : r = WithBlock(m, x, b, Len(v[x]))
    OBVIOUS
  <1>n. Len(v[x]) - i \in Nat
    BY <1>1, <1>2
  <1>a. PICK n \in Nat : n = Len(v[x]) - i
    BY <1>n
  <1>b. PICK to \in Nat : to = i + k
    OBVIOUS
  <1>6. PICK moved : moved = Move(r, x, to, i, n)
    OBVIOUS
  <1>7. r.arr[x].Count = Len(v[x])
    BY <1>1, <1>5, CountOfBlock
  <1>8. InsertedAt(m, x, index, s) = AddToCount(Put(moved, x, i, s), x, k)
    BY <1>2, <1>3, <1>4, <1>5, <1>a, <1>b, <1>6, <1>7 DEF InsertedAt, Index
  <1>9. /\ Len(b) # 0 /\ to + Len(v[x]) - i <= Len(b) /\ k = to - i /\ to = i + Len(s)
        /\ k \in Int /\ i <= i
    <2>1. PICK l \in Nat : l = Len(v[x])
      BY <1>1
    <2>2. PICK a \in Nat : a = Len(b)
      BY <1>4 DEF HoldsFirst
    <2>3. l + k < a
      BY <1>4, <2>1, <2>2
    <2>4. a # 0 /\ to + l - i <= a /\ k = to - i /\ k \in Int /\ i <= i
      BY <1>b, <2>3
    <2> QED
      BY <1>3, <1>b, <2>1, <2>2, <2>4
  <1>10. Becomes(m, AddToCount(Put(moved, x, i, s), x, k), v, x, Spliced(v[x], i, s, i))
    BY <1>2, <1>4, <1>5, <1>a, <1>6, <1>9, SpliceMakes
  <1> QED
    BY <1>2, <1>8, <1>10

\* A removal from a view is one from a block of its own.
LEMMA OwnedMakes ==
    ASSUME NEW m, NEW v, HasAll(m, v), NEW x \in Arrays, Reachable(Len(v[x]) + 1)
    PROVE  \E b : /\ Owned(m, x) = WithBlock(m, x, b, Len(v[x]))
                  /\ HoldsFirst(b, v[x]) /\ Len(b) # 0
  <1>1. m.arr \in [Arrays -> Structs] /\ v[x] \in Seq(Element)
    BY DEF HasAll, IsMemory
  <1>2. CASE m.arr[x].Allocated = 0
    <2>1. 0 \in Nat /\ 0 + Len(v[x]) + 1 = Len(v[x]) + 1
      BY <1>1
    <2>2. PICK b : /\ Reserve(m, x, 0) = WithBlock(m, x, b, Len(v[x]))
                   /\ HoldsFirst(b, v[x]) /\ Len(v[x]) + 0 < Len(b)
      BY <2>1, ReserveMakes
    <2> QED
      BY <1>1, <1>2, <2>2 DEF Owned
  <1>3. CASE m.arr[x].Allocated # 0
    BY <1>3, OwnBlock DEF Owned
  <1> QED
    BY <1>2, <1>3

LEMMA RemoveRangeMakes ==
    ASSUME NEW m, NEW v, HasAll(m, v), NEW x \in Arrays, Alone(m, x), NEW begin \in Int, NEW end \in Int,
           Index(v, x, begin) \in 0..Len(v[x]), Index(v, x, end) \in 0..Len(v[x]),
           Index(v, x, begin) <= Index(v, x, end), Reachable(Len(v[x]) + 1)
    PROVE  Becomes(m, RemovedRange(m, x, begin, end), v, x,
                   Spliced(v[x], Index(v, x, begin), <<>>, Index(v, x, end)))
  <1>1. m.arr \in [Arrays -> Structs] /\ v[x] \in Seq(Element)
    BY DEF HasAll, IsMemory
  <1>2. PICK i \in Nat : i = Index(v, x, begin)
    BY <1>1
  <1>3. PICK j \in Nat : j = Index(v, x, end)
    BY <1>1
  <1>4. PICK b : /\ Owned(m, x) = WithBlock(m, x, b, Len(v[x]))
                 /\ HoldsFirst(b, v[x]) /\ Len(b) # 0
    BY OwnedMakes
  <1>5. PICK r : r = WithBlock(m, x, b, Len(v[x]))
    OBVIOUS
  <1>n. Len(v[x]) - j \in Nat
    BY <1>1, <1>3
  <1>a. PICK n \in Nat : n = Len(v[x]) - j
    BY <1>n
  <1>b. PICK d \in Int : d = i - j
    OBVIOUS
  <1>6. PICK moved : moved = Move(r, x, i, j, n)
    OBVIOUS
  <1>7. r.arr[x].Count = Len(v[x])
    BY <1>1, <1>5, CountOfBlock
  <1>8. RemovedRange(m, x, begin, end) = AddToCount(moved, x, d)
    BY <1>2, <1>3, <1>4, <1>5, <1>a, <1>b, <1>6, <1>7 DEF RemovedRange, Index
  <1>9. PICK s \in Seq(Element) : s = <<>>
    BY EmptySeq
  <1>10. /\ i = i + Len(s) /\ d = i - j /\ i <= j /\ j <= Len(v[x])
         /\ i + Len(v[x]) - j <= Len(b)
    BY <1>1, <1>2, <1>3, <1>4, <1>b, <1>9 DEF HoldsFirst
  <1>11. Becomes(m, AddToCount(moved, x, d), v, x, Spliced(v[x], i, s, j))
    BY <1>4, <1>5, <1>a, <1>6, <1>9, <1>10, SpliceMakes
  <1> QED
    BY <1>2, <1>3, <1>8, <1>9, <1>11

LEMMA RemoveAtMakes ==
    ASSUME NEW m, NEW v, HasAll(m, v), NEW x \in Arrays, Alone(m, x), NEW index \in Int,
           Index(v, x, index) \in 0..(Len(v[x]) - 1), Reachable(Len(v[x]) + 1)
    PROVE  Becomes(m, RemovedAt(m, x, index), v, x,
                   Spliced(v[x], Index(v, x, index), <<>>, Index(v, x, index) + 1))
  <1>1. m.arr \in [Arrays -> Structs] /\ v[x] \in Seq(Element)
    BY DEF HasAll, IsMemory
  <1>2. PICK i \in Nat : i = Index(v, x, index)
    BY <1>1
  <1>3. PICK j \in Nat : j = i + 1
    OBVIOUS
  <1>c. PICK l \in Nat : l = Len(v[x])
    BY <1>1
  <1>4. PICK b : /\ Owned(m, x) = WithBlock(m, x, b, Len(v[x]))
                 /\ HoldsFirst(b, v[x]) /\ Len(b) # 0
    BY OwnedMakes
  <1>5. PICK r : r = WithBlock(m, x, b, Len(v[x]))
    OBVIOUS
  <1>n. l - j \in Nat /\ l - i - 1 = l - j
    BY <1>2, <1>3, <1>c
  <1>a. PICK n \in Nat : n = l - j /\ n = l - i - 1
    BY <1>n
  <1>6. PICK moved : moved = Move(r, x, i, j, n)
    OBVIOUS
  <1>7. r.arr[x].Count = Len(v[x])
    BY <1>1, <1>5, CountOfBlock
  <1>8. RemovedAt(m, x, index) = AddToCount(moved, x, -1)
    BY <1>2, <1>3, <1>4, <1>5, <1>c, <1>a, <1>6, <1>7 DEF RemovedAt, Index
  <1>9. PICK s \in Seq(Element) : s = <<>>
    BY EmptySeq
  <1>10. /\ i = i + Len(s) /\ -1 = i - j /\ i <= j /\ j <= Len(v[x]) /\ -1 \in Int
         /\ i + Len(v[x]) - j <= Len(b) /\ n = Len(v[x]) - j
    <2>1. PICK a \in Nat : a = Len(b) /\ l <= a
      BY <1>4, <1>c DEF HoldsFirst
    <2>2. -1 = i - j /\ i <= j /\ j <= l /\ i + l - j <= a
      BY <1>2, <1>3, <1>c, <2>1
    <2> QED
      BY <1>9, <1>a, <1>c, <2>1, <2>2
  <1>11. Becomes(m, AddToCount(moved, x, -1), v, x, Spliced(v[x], i, s, j))
    BY <1>4, <1>5, <1>a, <1>6, <1>9, <1>10, SpliceMakes
  <1> QED
    BY <1>2, <1>3, <1>8, <1>9, <1>11

\* The last element takes the place of the one removed.
LastMovedTo(w, u, i) ==
    /\ Len(w) = Len(u) - 1
    /\ \A p \in 1..Len(w) : w[p] = IF p = i + 1 THEN u[Len(w) + 1] ELSE u[p]

LEMMA RemoveUnorderedMakes ==
    ASSUME NEW m, NEW v, HasAll(m, v), NEW x \in Arrays, Alone(m, x), NEW index \in Int,
           NEW i \in Nat, i = Index(v, x, index), i < Len(v[x]), Reachable(Len(v[x]) + 1),
           NEW w \in Seq(Element), LastMovedTo(w, v[x], i)
    PROVE  Becomes(m, RemovedUnordered(m, x, index), v, x, w)
  <1>1. m.block \in Blocks /\ m.arr \in [Arrays -> Structs] /\ v[x] \in Seq(Element)
    BY DEF HasAll, IsMemory
  <1>2. PICK u \in Seq(Element) : u = v[x]
    BY <1>1
  <1>3. PICK k \in Nat : k = Len(u)
    OBVIOUS
  <1>l. PICK l \in Nat : l = Len(w)
    OBVIOUS
  <1>w. l = k - 1 /\ \A p \in 1..l : w[p] = IF p = i + 1 THEN u[l + 1] ELSE u[p]
    BY <1>2, <1>3, <1>l DEF LastMovedTo
  <1>4. PICK b : /\ Owned(m, x) = WithBlock(m, x, b, Len(v[x]))
                 /\ HoldsFirst(b, v[x]) /\ Len(b) # 0
    BY OwnedMakes
  <1>5. b \in Seq(ArrayCells) /\ k <= Len(b) /\ Len(b) \in Nat /\ \A p \in 1..k : b[p] = u[p]
    BY <1>2, <1>3, <1>4 DEF HoldsFirst
  <1>6. PICK r : r = WithBlock(m, x, b, k)
    OBVIOUS
  <1>7. r.arr[x].Count = k
    <2>1. WithBlock(m, x, b, k).arr[x].Count = k
      BY <1>1, CountOfBlock
    <2> QED
      BY <1>6, <2>1
  <1>8. k = l + 1 /\ k - 1 = l
    BY <1>w
  <1>9. RemovedUnordered(m, x, index) = AddToCount(Move(r, x, i, l, 1), x, -1)
    BY <1>2, <1>3, <1>4, <1>6, <1>7, <1>8 DEF RemovedUnordered, Index
  <1>10. PICK c : c = PutAt(b, i, CellsFrom(b, l, 1))
    OBVIOUS
  <1>11. /\ AddToCount(Move(r, x, i, l, 1), x, -1) = WithBlock(m, x, c, l)
         /\ c \in Seq(ArrayCells) /\ Len(c) = Len(b)
    <2>1. 1 \in Nat /\ i \in Int /\ -1 \in Int /\ l + 1 <= Len(b) /\ k + (-1) = l
      BY <1>5, <1>8
    <2>2. PICK s \in Seq(ArrayCells) : s = <<>>
      BY EmptySeq
    <2>3. Edited(m, x, b, k, i, l, 1, i, s, -1)
      BY <1>1, <1>5, <2>1, EditMakes
    <2> QED
      BY <1>6, <1>10, <2>1, <2>3 DEF Edited
  <1>12. HoldsFirst(c, w)
    <2>1. \A p \in 1..Len(b) : c[p] = IF p = i + 1 THEN b[l + 1] ELSE b[p]
      <3>1. PICK q : q = CellsFrom(b, l, 1)
        OBVIOUS
      <3>2. q \in [1..1 -> ArrayCells] /\ q[1] = b[l + 1]
        BY <1>5, <1>8, <3>1 DEF CellsFrom
      <3>3. q \in Seq(ArrayCells) /\ Len(q) = 1
        <4>1. PICK n \in Nat : n = 1
          OBVIOUS
        <4>2. q \in [1..n -> ArrayCells]
          BY <3>2, <4>1
        <4>3. q \in Seq(ArrayCells) /\ Len(q) = n
          BY <4>2
        <4> QED
          BY <4>1, <4>3
      <3>5. \A p \in 1..Len(b) : c[p] = IF p - i \in 1..Len(q) THEN q[p - i] ELSE b[p]
        <4>1. i \in Int
          OBVIOUS
        <4>2. b \in Seq(ArrayCells) /\ q \in Seq(ArrayCells)
          BY <1>5, <3>3
        <4>3. \A p \in 1..Len(b) : PutAt(b, i, q)[p] = IF p - i \in 1..Len(q) THEN q[p - i] ELSE b[p]
          BY <4>1, <4>2, PutAtIs DEF IsPutAt
        <4> QED
          BY <1>10, <3>1, <4>3
      <3>6. ASSUME NEW p \in 1..Len(b) PROVE c[p] = IF p = i + 1 THEN b[l + 1] ELSE b[p]
        <4>1. p \in Int /\ (p - i \in 1..1 <=> p = i + 1) /\ (p = i + 1 => p - i = 1)
          OBVIOUS
        <4>2. c[p] = IF p - i \in 1..1 THEN q[p - i] ELSE b[p]
          BY <3>3, <3>5
        <4> QED
          BY <3>2, <4>1, <4>2
      <3> QED
        BY <3>6
    <2>2. \A p \in 1..l : p \in 1..Len(b) /\ p \in 1..k
      BY <1>5, <1>8
    <2>3. b[l + 1] = u[l + 1]
      BY <1>5, <1>8
    <2>4. \A p \in 1..l : c[p] = w[p]
      BY <1>5, <1>w, <2>1, <2>2, <2>3
    <2> QED
      BY <1>5, <1>8, <1>l, <1>11, <2>4 DEF HoldsFirst
  <1> QED
    <2>1. Len(c) # 0 /\ l = Len(w)
      BY <1>4, <1>l, <1>11
    <2>2. Becomes(m, WithBlock(m, x, c, Len(w)), v, x, w)
      BY <1>12, <2>1, WithBlockHas DEF Becomes
    <2> QED
      BY <1>9, <1>11, <2>1, <2>2

\* Room in advance.
LEMMA ReserveKeeps ==
    ASSUME NEW m, NEW v, HasAll(m, v), NEW x \in Arrays, Alone(m, x), NEW n \in Nat, Reachable(n + Len(v[x]) + 1)
    PROVE  HasAll(Reserve(m, x, n), v) /\ Alone(Reserve(m, x, n), x)
  <1>1. v[x] \in Seq(Element) /\ v \in [Arrays -> Seq(Element)]
    BY DEF HasAll
  <1>2. PICK b : /\ Reserve(m, x, n) = WithBlock(m, x, b, Len(v[x]))
                 /\ HoldsFirst(b, v[x]) /\ Len(v[x]) + n < Len(b)
    BY ReserveMakes
  <1>3. Len(b) # 0
    <2>1. Len(v[x]) \in Nat /\ Len(b) \in Nat
      BY <1>1, <1>2 DEF HoldsFirst
    <2> QED
      BY <1>2, <2>1
  <1>4. [v EXCEPT ![x] = v[x]] = v
    BY <1>1
  <1>5. /\ HasAll(WithBlock(m, x, b, Len(v[x])), [v EXCEPT ![x] = v[x]])
        /\ Alone(WithBlock(m, x, b, Len(v[x])), x)
    BY <1>1, <1>2, <1>3, WithBlockHas
  <1> QED
    BY <1>2, <1>4, <1>5

\* No elements: of an array that keeps its block, and of one that gives it back.
LEMMA EmptyMakes ==
    ASSUME NEW m, NEW v, HasAll(m, v), NEW x \in Arrays, Alone(m, x)
    PROVE  /\ Becomes(m, WithoutElements(m, x), v, x, <<>>)
           /\ HasAll([block |-> [m.block EXCEPT ![x] = <<>>], arr |-> [m.arr EXCEPT ![x] = NoData]],
                     [v EXCEPT ![x] = <<>>])
  <1>1. /\ m = [block |-> m.block, arr |-> m.arr] /\ m.block \in Blocks /\ m.arr \in [Arrays -> Structs]
        /\ v \in [Arrays -> Seq(Element)] /\ \A y \in Arrays : HasAt(m, y, v[y])
    BY DEF HasAll, IsMemory
  <1>2. PICK s \in Seq(Element) : s = <<>> /\ Len(s) = 0
    BY EmptySeq
  <1>3. PICK w : w = [v EXCEPT ![x] = s]
    OBVIOUS
  <1>4. w \in [Arrays -> Seq(Element)] /\ w[x] = s /\ \A y \in Arrays \ {x} : w[y] = v[y]
    BY <1>1, <1>3
  <1>5. \A y \in Arrays : m.arr[y] \in Structs
    BY <1>1
  <1>6. HasAll(WithoutElements(m, x), w) /\ Alone(WithoutElements(m, x), x)
    <2>1. PICK n : n = WithoutElements(m, x)
      OBVIOUS
    <2>2. n = [block |-> m.block, arr |-> [m.arr EXCEPT ![x].Count = 0]]
      BY <1>1, <2>1 DEF WithoutElements
    <2>3. PICK a : a = [m.arr EXCEPT ![x].Count = 0]
      OBVIOUS
    <2>4. /\ a[x].Count = 0 /\ a[x].of = m.arr[x].of /\ a[x].first = m.arr[x].first
          /\ a[x].Allocated = m.arr[x].Allocated /\ a[x] \in Structs
          /\ \A y \in Arrays \ {x} : a[y] = m.arr[y]
      BY <1>1, <1>5, <2>3 DEF Structs
    <2>5. a \in [Arrays -> Structs]
      <3>1. DOMAIN a = Arrays /\ a = [y \in Arrays |-> a[y]]
        BY <1>1, <2>3
      <3>2. \A y \in Arrays : a[y] \in Structs
        BY <1>5, <2>4
      <3> QED
        BY <3>1, <3>2
    <2>6. n = [block |-> n.block, arr |-> n.arr] /\ n.block = m.block /\ n.arr = a
      BY <2>2, <2>3
    <2>7. HasAt(n, x, s)
      BY <1>1, <1>2, <1>5, <2>4, <2>6 DEF HasAt, Structs
    <2>8. \A y \in Arrays : a[y].Allocated = m.arr[y].Allocated
      BY <2>4
    <2>9. \A y \in Arrays \ {x} : HasAt(n, y, v[y])
      BY <1>1, <2>4, <2>6, <2>8 DEF HasAt
    <2>10. \A y \in Arrays : HasAt(n, y, w[y])
      BY <1>4, <2>7, <2>9
    <2>11. Alone(n, x)
      BY <2>4, <2>6 DEF Alone
    <2> QED
      BY <1>1, <1>4, <2>1, <2>5, <2>6, <2>10, <2>11 DEF HasAll, IsMemory
  <1>7. HasAll([block |-> [m.block EXCEPT ![x] = <<>>], arr |-> [m.arr EXCEPT ![x] = NoData]], w)
    <2>1. PICK f : f = [m.block EXCEPT ![x] = <<>>]
      OBVIOUS
    <2>2. PICK a : a = [m.arr EXCEPT ![x] = NoData]
      OBVIOUS
    <2>3. PICK n : n = [block |-> f, arr |-> a]
      OBVIOUS
    <2>4. f \in Blocks /\ f[x] = <<>> /\ \A y \in Arrays \ {x} : f[y] = m.block[y]
      <3>1. <<>> \in Seq(ArrayCells)
        BY EmptySeq
      <3> QED
        BY <1>1, <2>1, <3>1 DEF Blocks
    <2>5. /\ a \in [Arrays -> Structs] /\ a[x] = NoData
          /\ \A y \in Arrays \ {x} : a[y] = m.arr[y]
      <3>1. NoData \in Structs
        BY DEF NoData, Structs
      <3> QED
        BY <1>1, <2>2, <3>1
    <2>6. n = [block |-> n.block, arr |-> n.arr] /\ n.block = f /\ n.arr = a
      BY <2>3
    <2>7. HasAt(n, x, s)
      BY <1>2, <2>5, <2>6 DEF HasAt, NoData
    <2>8. ASSUME NEW y \in Arrays \ {x} PROVE HasAt(n, y, v[y])
      <3>1. HasAt(m, y, v[y]) /\ m.arr[y] \in Structs
        BY <1>1, <1>5
      <3>2. n.arr[y] = m.arr[y] /\ n.block[y] = m.block[y]
        BY <2>4, <2>5, <2>6
      <3>3. CASE m.arr[y].Count = 0
        BY <3>1, <3>2, <3>3 DEF HasAt, Structs
      <3>4. CASE m.arr[y].Count # 0
        <4>1. m.arr[y].of \in Arrays \ {x}
          BY <3>1, <3>4 DEF HasAt, Alone
        <4>2. n.block[m.arr[y].of] = m.block[m.arr[y].of] /\ n.arr[m.arr[y].of] = m.arr[m.arr[y].of]
          BY <2>4, <2>5, <2>6, <4>1
        <4> QED
          BY <3>1, <3>2, <4>2 DEF HasAt
      <3> QED
        BY <3>3, <3>4
    <2>9. \A y \in Arrays : HasAt(n, y, w[y])
      BY <1>4, <2>7, <2>8
    <2>10. HasAll(n, w)
      BY <1>4, <2>4, <2>5, <2>6, <2>9 DEF HasAll, IsMemory
    <2> QED
      BY <2>1, <2>2, <2>3, <2>10
  <1> QED
    BY <1>2, <1>3, <1>6, <1>7 DEF Becomes

\* The values after e was put into cell q of the block of o.
SetIn(a, v, o, q, e) ==
    [y \in Arrays |-> IF a[y].of = o /\ q - a[y].first \in DOMAIN v[y]
                      THEN [v[y] EXCEPT ![q - a[y].first] = e] ELSE v[y]]

\* Setting an element changes it for all arrays that have the cell.
LEMMA SetMakes ==
    ASSUME NEW m, NEW v, HasAll(m, v), NEW x \in Arrays, NEW i \in Nat, i < Len(v[x]), NEW e \in Element,
           NEW q, q = m.arr[x].first + i + 1
    PROVE  /\ HasAll(Put(m, x, i, <<e>>), SetIn(m.arr, v, m.arr[x].of, q, e))
           /\ \A y \in Arrays : Len(SetIn(m.arr, v, m.arr[x].of, q, e)[y]) = Len(v[y])
  <1>1. /\ m = [block |-> m.block, arr |-> m.arr] /\ m.block \in Blocks /\ m.arr \in [Arrays -> Structs]
        /\ v \in [Arrays -> Seq(Element)] /\ \A y \in Arrays : HasAt(m, y, v[y])
    BY DEF HasAll, IsMemory
  <1>2. \A y \in Arrays : /\ m.arr[y].of \in Arrays \cup {Nobody} /\ m.arr[y].first \in Nat
                          /\ m.arr[y].Count = Len(v[y]) /\ Len(v[y]) \in Nat /\ v[y] \in Seq(Element)
                          /\ m.arr[y].Allocated \in Nat
    <2> TAKE y \in Arrays
    <2>1. m.arr[y] \in Structs /\ v[y] \in Seq(Element) /\ HasAt(m, y, v[y])
      BY <1>1
    <2> QED
      BY <2>1 DEF Structs, HasAt
  <1>3. PICK o : o = m.arr[x].of
    OBVIOUS
  <1>4. PICK a \in Nat : a = m.arr[x].first
    BY <1>2
  <1>5. q = a + i + 1 /\ q \in Nat
    BY <1>4
  <1>6. o \in Arrays
    <2>1. HasAt(m, x, v[x]) /\ m.arr[x].Count # 0
      BY <1>1, <1>2
    <2> QED
      BY <1>3, <2>1 DEF HasAt
  <1>7. PICK b \in Seq(ArrayCells) : b = m.block[o]
    BY <1>1, <1>6 DEF Blocks
  <1>8. PICK c : c = [p \in 1..Len(b) |-> IF p = q THEN e ELSE b[p]]
    OBVIOUS
  <1>9. c \in Seq(ArrayCells) /\ Len(c) = Len(b)
    <2>1. PICK l \in Nat : l = Len(b)
      OBVIOUS
    <2>2. \A p \in 1..l : (IF p = q THEN e ELSE b[p]) \in ArrayCells
      BY <2>1 DEF ArrayCells
    <2>3. c \in [1..l -> ArrayCells]
      BY <1>8, <2>1, <2>2
    <2>4. c \in Seq(ArrayCells) /\ Len(c) = l
      BY <2>3
    <2> QED
      BY <2>1, <2>4
  <1>10. PICK n : n = Put(m, x, i, <<e>>)
    OBVIOUS
  <1>11. n = [m EXCEPT !.block[o] = c]
    <2>1. ASSUME NEW p \in DOMAIN b
          PROVE  (IF p - a - i \in DOMAIN <<e>> THEN <<e>>[p - a - i] ELSE b[p]) = IF p = q THEN e ELSE b[p]
      <3>1. DOMAIN <<e>> = 1..1 /\ <<e>>[1] = e
        OBVIOUS
      <3>2. p \in Int
        OBVIOUS
      <3>3. (p - a - i \in 1..1 <=> p = q) /\ (p = q => p - a - i = 1)
        BY <1>5, <3>2
      <3> QED
        BY <3>1, <3>3
    <2>2. DOMAIN b = 1..Len(b)
      OBVIOUS
    <2>3. [p \in DOMAIN b |-> IF p - a - i \in DOMAIN <<e>> THEN <<e>>[p - a - i] ELSE b[p]] = c
      BY <1>8, <2>1, <2>2
    <2> QED
      BY <1>3, <1>4, <1>7, <1>10, <2>3 DEF Put
  <1>12. /\ n = [block |-> n.block, arr |-> n.arr] /\ n.arr = m.arr /\ n.block \in Blocks /\ n.block[o] = c
         /\ \A z \in Arrays \ {o} : n.block[z] = m.block[z]
    <2>1. n = [block |-> [m.block EXCEPT ![o] = c], arr |-> m.arr]
      BY <1>1, <1>11
    <2> QED
      BY <1>1, <1>6, <1>9, <2>1 DEF Blocks
  <1>13. PICK w : w = SetIn(m.arr, v, o, q, e)
    OBVIOUS
  <1>14. ASSUME NEW y \in Arrays
         PROVE  /\ w[y] \in Seq(Element) /\ Len(w[y]) = Len(v[y])
                /\ \A p \in 1..Len(v[y]) : w[y][p] = IF m.arr[y].of = o /\ m.arr[y].first + p = q THEN e ELSE v[y][p]
    <2>1. PICK f \in Nat : f = m.arr[y].first
      BY <1>2
    <2>2. PICK u \in Seq(Element) : u = v[y]
      BY <1>2
    <2>3. w[y] = IF m.arr[y].of = o /\ q - f \in DOMAIN u THEN [u EXCEPT ![q - f] = e] ELSE u
      BY <1>13, <2>1, <2>2 DEF SetIn
    <2>g. PICK g \in Nat : g = q
      BY <1>5
    <2>d. PICK k \in Int : k = g - f
      BY <2>g
    <2>4. k = q - f
      BY <2>g, <2>d
    <2>5. \A p \in 1..Len(u) : f + p = q <=> p = k
      <3>2. \A p \in Int : f + p = g <=> p = k
        BY <2>d
      <3>3. \A p \in 1..Len(u) : p \in Int
        OBVIOUS
      <3> QED
        BY <2>g, <3>2, <3>3
    <2>6. CASE m.arr[y].of = o /\ k \in DOMAIN u
      <3>1. w[y] = [u EXCEPT ![k] = e]
        BY <2>3, <2>4, <2>6
      <3>2. [u EXCEPT ![k] = e] \in Seq(Element) /\ Len([u EXCEPT ![k] = e]) = Len(u)
        BY <2>6
      <3>3. \A p \in 1..Len(u) : [u EXCEPT ![k] = e][p] = IF p = k THEN e ELSE u[p]
        BY <2>6
      <3> QED
        BY <2>1, <2>2, <2>5, <2>6, <3>1, <3>2, <3>3
    <2>7. CASE ~(m.arr[y].of = o /\ k \in DOMAIN u)
      <3>1. w[y] = u
        BY <2>3, <2>4, <2>7
      <3>2. DOMAIN u = 1..Len(u)
        OBVIOUS
      <3>3. \A p \in 1..Len(u) : ~(m.arr[y].of = o /\ p = k)
        BY <2>7, <3>2
      <3> QED
        BY <2>1, <2>2, <2>5, <3>1, <3>3
    <2> QED
      BY <2>6, <2>7
  <1>15. \A z \in Arrays : Len(n.block[z]) = Len(m.block[z])
    BY <1>7, <1>9, <1>12
  <1>16. ASSUME NEW y \in Arrays PROVE HasAt(n, y, w[y])
    <2>1. HasAt(m, y, v[y])
      BY <1>1
    <2>2. ASSUME NEW p \in 1..Len(v[y])
          PROVE  n.block[m.arr[y].of][m.arr[y].first + p] = w[y][p]
      <3>1. m.block[m.arr[y].of][m.arr[y].first + p] = v[y][p]
        BY <1>2, <2>1 DEF HasAt
      <3>2. PICK z : z = m.arr[y].of
        OBVIOUS
      <3>3. PICK f \in Nat : f = m.arr[y].first
        BY <1>2
      <3>4. w[y][p] = IF z = o /\ f + p = q THEN e ELSE v[y][p]
        BY <1>14, <3>2, <3>3
      <3>5. z \in Arrays /\ f + p \in 1..Len(m.block[z])
        <4>1. Len(v[y]) \in Nat /\ m.arr[y].Count = Len(v[y]) /\ m.arr[y].Count # 0 /\ p \in Nat /\ 1 <= p /\ p <= Len(v[y])
          BY <1>2
        <4>2. CASE m.arr[y].Allocated # 0
          <5>1. z = y /\ f = 0 /\ Len(v[y]) <= m.arr[y].Allocated /\ Len(m.block[z]) = m.arr[y].Allocated
            BY <2>1, <3>2, <3>3, <4>1, <4>2 DEF HasAt
          <5> QED
            BY <1>2, <4>1, <5>1
        <4>3. CASE m.arr[y].Allocated = 0
          <5>1. z \in Arrays /\ f + Len(v[y]) <= Len(m.block[z])
            BY <2>1, <3>2, <3>3, <4>1, <4>3 DEF HasAt
          <5>2. Len(m.block[z]) \in Nat
            BY <1>1, <5>1 DEF Blocks
          <5> QED
            BY <4>1, <5>1, <5>2
        <4> QED
          BY <4>2, <4>3
      <3>6. n.block[z][f + p] = IF z = o /\ f + p = q THEN e ELSE m.block[z][f + p]
        <4>1. CASE z = o
          BY <1>7, <1>8, <1>12, <3>5, <4>1
        <4>2. CASE z # o
          BY <1>12, <3>5, <4>2
        <4> QED
          BY <4>1, <4>2
      <3> QED
        BY <3>1, <3>2, <3>3, <3>4, <3>6
    <2>3. Len(w[y]) = Len(v[y]) /\ n.arr = m.arr
      BY <1>12, <1>14
    <2>4. m.arr[y].Count = Len(v[y])
      BY <1>2
    <2>5. /\ m.arr[y].Allocated # 0 => /\ m.arr[y].of = y /\ m.arr[y].first = 0
                                       /\ Len(n.block[y]) = m.arr[y].Allocated /\ m.arr[y].Count <= m.arr[y].Allocated
          /\ m.arr[y].Allocated = 0 /\ m.arr[y].Count # 0 =>
                 /\ m.arr[y].of \in Arrays \ {y} /\ m.arr[m.arr[y].of].Allocated # 0
                 /\ m.arr[y].first + m.arr[y].Count <= Len(n.block[m.arr[y].of])
      BY <1>15, <2>1 DEF HasAt
    <2> QED
      BY <2>2, <2>3, <2>4, <2>5 DEF HasAt
  <1>17. w \in [Arrays -> Seq(Element)]
    <2>1. w = [y \in Arrays |-> w[y]]
      BY <1>13 DEF SetIn
    <2> QED
      BY <1>14, <2>1
  <1>18. HasAll(n, w)
    BY <1>1, <1>12, <1>16, <1>17 DEF HasAll, IsMemory
  <1> QED
    BY <1>3, <1>10, <1>13, <1>14, <1>18

\* An array without a block of its own is made to look at n elements of y.
WithView(m, x, y, o, n) ==
    [block |-> m.block, arr |-> [m.arr EXCEPT ![x] = [of |-> y, first |-> o, Count |-> n, Allocated |-> 0]]]

\* s is the n elements of u from o, x can look at them, and x looks at them.
IsPart(s, u, o, n) == s = SubSeq(u, o + 1, o + n)

CanView(m, v, x, y, o, n, s) ==
    /\ HasAll(m, v) /\ o \in Nat /\ n \in Nat
    /\ m.arr[x].Allocated = 0 /\ m.arr[y].Allocated # 0 /\ o + n <= Len(v[y])
    /\ IsPart(s, v[y], o, n)

Views(m, v, x, y, o, n, s) ==
    HasAll(WithView(m, x, y, o, n), [v EXCEPT ![x] = s]) /\ s \in Seq(Element) /\ Len(s) = n

\* A view of an owning array has the elements it looks at, and the others keep theirs.
LEMMA ViewMakes ==
    ASSUME NEW m, NEW v, NEW x \in Arrays, NEW y \in Arrays, NEW o, NEW n, NEW s, CanView(m, v, x, y, o, n, s)
    PROVE  Views(m, v, x, y, o, n, s)
  <1> SUFFICES HasAll(WithView(m, x, y, o, n), [v EXCEPT ![x] = s]) /\ s \in Seq(Element) /\ Len(s) = n
    BY DEF Views
  <1>0. /\ HasAll(m, v) /\ o \in Nat /\ n \in Nat
        /\ m.arr[x].Allocated = 0 /\ m.arr[y].Allocated # 0 /\ o + n <= Len(v[y])
        /\ IsPart(s, v[y], o, n)
    BY DEF CanView
  <1> USE <1>0
  <1>1. /\ m = [block |-> m.block, arr |-> m.arr] /\ m.block \in Blocks /\ m.arr \in [Arrays -> Structs]
        /\ v \in [Arrays -> Seq(Element)] /\ \A z \in Arrays : HasAt(m, z, v[z])
    BY DEF HasAll, IsMemory
  <1>2. PICK u \in Seq(Element) : u = v[y]
    BY <1>1
  <1>3. s = SubSeq(u, o + 1, o + n)
    BY <1>2 DEF IsPart
  <1>4. s \in Seq(Element) /\ Len(s) = n /\ \A i \in 1..n : s[i] = u[o + i]
    <2>1. PICK k \in Nat : k = o + 1
      OBVIOUS
    <2>2. PICK l \in Nat : l = o + n
      OBVIOUS
    <2>c. PICK d \in Nat : d = Len(u)
      OBVIOUS
    <2>3. k \in 1..(d + 1) /\ l \in (k - 1)..d /\ k \in Int /\ l \in Int
      BY <1>2, <2>1, <2>2, <2>c
    <2>4. \A i \in k..l : u[i] \in Element
      BY <2>3, <2>c
    <2>5. SubSeq(u, k, l) \in Seq(Element) /\ Len(SubSeq(u, k, l)) = l - k + 1
          /\ \A i \in 1..l - k + 1 : SubSeq(u, k, l)[i] = u[k + i - 1]
      BY <2>3, <2>4, <2>c, SubSeqProperties
    <2>6. l - k + 1 = n /\ \A i \in 1..n : k + i - 1 = o + i
      BY <2>1, <2>2
    <2> QED
      BY <1>3, <2>1, <2>2, <2>5, <2>6
  <1>5. x # y
    OBVIOUS
  <1>6. PICK a : a = [m.arr EXCEPT ![x] = [of |-> y, first |-> o, Count |-> n, Allocated |-> 0]]
    OBVIOUS
  <1>7. /\ a \in [Arrays -> Structs] /\ a[x] = [of |-> y, first |-> o, Count |-> n, Allocated |-> 0]
        /\ \A z \in Arrays \ {x} : a[z] = m.arr[z]
    BY <1>1, <1>6 DEF Structs
  <1>8. PICK f : f = [block |-> m.block, arr |-> a]
    OBVIOUS
  <1>9. PICK w : w = [v EXCEPT ![x] = s]
    OBVIOUS
  <1>10. w \in [Arrays -> Seq(Element)] /\ w[x] = s /\ \A z \in Arrays \ {x} : w[z] = v[z]
    BY <1>1, <1>4, <1>9
  <1>11. \A z \in Arrays : m.arr[z].Allocated # 0 => z # x
    OBVIOUS
  <1>12. HasAt(f, x, s)
    <2>1. HasAt(m, y, u) /\ m.arr[y] \in Structs /\ m.block[y] \in Seq(ArrayCells)
      BY <1>1, <1>2 DEF Blocks
    <2>2. /\ m.arr[y].of = y /\ m.arr[y].first = 0 /\ m.arr[y].Count = Len(u)
          /\ Len(m.block[y]) = m.arr[y].Allocated /\ Len(u) <= Len(m.block[y])
          /\ \A i \in 1..Len(u) : m.block[y][0 + i] = u[i]
      BY <2>1 DEF HasAt
    <2>c. PICK d \in Nat : d = Len(u)
      OBVIOUS
    <2>b. PICK l \in Nat : l = Len(m.block[y])
      BY <2>1
    <2>3. o + n <= l
      BY <1>2, <2>2, <2>b, <2>c
    <2>4. \A i \in 1..n : o + i \in 1..d /\ 0 + (o + i) = o + i
      BY <1>2, <2>c
    <2>5. \A i \in 1..n : m.block[y][o + i] = s[i]
      BY <1>4, <2>2, <2>4, <2>c
    <2>6. a[y] = m.arr[y] /\ m.arr[y].Allocated # 0
      BY <1>5, <1>7
    <2> QED
      BY <1>4, <1>5, <1>7, <1>8, <2>3, <2>5, <2>6, <2>b DEF HasAt
  <1>13. ASSUME NEW z \in Arrays \ {x} PROVE HasAt(f, z, v[z])
    <2>1. HasAt(m, z, v[z]) /\ a[z] = m.arr[z] /\ f.block = m.block /\ f.arr = a
      BY <1>1, <1>7, <1>8
    <2>2. m.arr[z].of \in Arrays /\ m.arr[m.arr[z].of].Allocated # 0 => a[m.arr[z].of] = m.arr[m.arr[z].of]
      BY <1>7, <1>11
    <2> QED
      BY <2>1, <2>2 DEF HasAt
  <1>14. \A z \in Arrays : HasAt(f, z, w[z])
    BY <1>10, <1>12, <1>13
  <1>15. HasAll(f, w)
    BY <1>1, <1>7, <1>8, <1>10, <1>14 DEF HasAll, IsMemory
  <1> QED
    BY <1>4, <1>6, <1>8, <1>9, <1>15 DEF WithView

-----------------------------------------------------------------------------
(***************************************************************************)
(* What should come of a sequence of which every occurrence of a needle is *)
(* replaced.  f[k] is what comes of its last k elements.                   *)
(***************************************************************************)
HitAt(u, needle, k) == Len(needle) <= k /\ \A p \in 1..Len(needle) : u[Len(u) - k + p] = needle[p]

\* One step from the back: the needle starts at the last k elements, or it does not.
Rewritten(f, u, needle, by, k) ==
    IF k = 0 THEN <<>>
    ELSE IF HitAt(u, needle, k) THEN by \o f[k - Len(needle)] ELSE <<u[Len(u) - k + 1]>> \o f[k - 1]

RewrittenUpTo(f, u, needle, by, n) == /\ f \in [0..n -> Seq(Element)]
                                      /\ \A k \in 0..n : f[k] = Rewritten(f, u, needle, by, k)

\* The front of a sequence, prefixes and the back of a sequence, by their elements.
LEMMA FirstPart ==
    ASSUME NEW s \in Seq(Element), NEW n \in Nat, n <= Len(s)
    PROVE  /\ SubSeq(s, 1, n) \in Seq(Element) /\ Len(SubSeq(s, 1, n)) = n
           /\ \A p \in 1..n : SubSeq(s, 1, n)[p] = s[p]
  <1>1. PICK l \in Nat : l = Len(s)
    OBVIOUS
  <1>2. 1 \in 1..(Len(s) + 1) /\ n \in (1 - 1)..Len(s)
    BY <1>1
  <1>3. \A p \in 1..n : s[p] \in Element
    BY <1>1
  <1> QED
    BY <1>2, <1>3, SubSeqProperties

LEMMA PrefixIs ==
    ASSUME NEW s \in Seq(Element), NEW t \in Seq(Element)
    PROVE  IsPrefix(s, t) <=> Len(s) <= Len(t) /\ \A p \in 1..Len(s) : t[p] = s[p]
  <1>1. CASE Len(s) <= Len(t)
    <2>1. PICK n \in Nat : n = Len(s)
      OBVIOUS
    <2>2. PICK a \in Seq(Element) : a = SubSeq(s, 1, n) /\ Len(a) = n /\ \A p \in 1..n : a[p] = s[p]
      <3>1. n <= Len(s)
        BY <2>1
      <3> QED
        BY <3>1, FirstPart
    <2>3. PICK b \in Seq(Element) : b = SubSeq(t, 1, n) /\ Len(b) = n /\ \A p \in 1..n : b[p] = t[p]
      <3>1. n <= Len(t)
        BY <1>1, <2>1
      <3> QED
        BY <3>1, FirstPart
    <2>4. a = b <=> \A p \in 1..n : t[p] = s[p]
      <3>1. a = b => \A p \in 1..n : t[p] = s[p]
        BY <2>2, <2>3
      <3>2. ASSUME \A p \in 1..n : t[p] = s[p] PROVE a = b
        <4>1. \A p \in 1..Len(a) : a[p] = b[p]
          BY <2>2, <2>3, <3>2
        <4> QED
          BY <2>2, <2>3, <4>1, SeqEqual
      <3> QED
        BY <3>1, <3>2
    <2> QED
      BY <1>1, <2>1, <2>2, <2>3, <2>4 DEF IsPrefix
  <1>2. CASE ~(Len(s) <= Len(t))
    BY <1>2 DEF IsPrefix
  <1> QED
    BY <1>1, <1>2

LEMMA LastPart ==
    ASSUME NEW u \in Seq(Element), NEW k \in Nat, k # 0, k <= Len(u), NEW needle \in Seq(Element)
    PROVE  /\ Head(SubSeq(u, Len(u) - k + 1, Len(u))) = u[Len(u) - k + 1]
           /\ IsPrefix(needle, SubSeq(u, Len(u) - k + 1, Len(u))) <=> HitAt(u, needle, k)
  <1>1. PICK l \in Nat : l = Len(u)
    OBVIOUS
  <1>d. l - k \in Nat
    BY <1>1
  <1>2. PICK d \in Nat : d = l - k
    BY <1>d
  <1>3. PICK g \in Nat : g = d + 1
    OBVIOUS
  <1>4. PICK t : t = SubSeq(u, g, l)
    OBVIOUS
  <1>5. t \in Seq(Element) /\ Len(t) = k /\ \A p \in 1..k : t[p] = u[d + p]
    <2>1. g \in 1..(l + 1) /\ l \in (g - 1)..l /\ g \in Int /\ l \in Int
      BY <1>1, <1>2, <1>3
    <2>2. \A p \in g..l : u[p] \in Element
      BY <1>1, <1>3
    <2>3. /\ t \in Seq(Element) /\ Len(t) = l - g + 1
          /\ \A p \in 1..l - g + 1 : t[p] = u[g + p - 1]
      BY <1>1, <1>4, <2>1, <2>2, SubSeqProperties
    <2>4. l - g + 1 = k /\ \A p \in 1..k : g + p - 1 = d + p
      BY <1>2, <1>3
    <2> QED
      BY <2>3, <2>4
  <1>6. Head(t) = u[d + 1]
    <2>1. t # <<>> /\ 1 \in 1..k
      BY <1>5
    <2>2. Head(t) = t[1]
      BY <1>5, <2>1
    <2> QED
      BY <1>5, <2>1, <2>2
  <1>7. IsPrefix(needle, t) <=> Len(needle) <= k /\ \A p \in 1..Len(needle) : t[p] = needle[p]
    BY <1>5, PrefixIs
  <1>8. IsPrefix(needle, t) <=> Len(needle) <= k /\ \A p \in 1..Len(needle) : u[d + p] = needle[p]
    <2>1. ASSUME Len(needle) <= k PROVE \A p \in 1..Len(needle) : t[p] = u[d + p]
      <3>1. \A p \in 1..Len(needle) : p \in 1..k
        BY <2>1
      <3> QED
        BY <1>5, <3>1
    <2> QED
      BY <1>7, <2>1
  <1>9. Len(u) - k = d /\ Len(u) - k + 1 = g /\ Len(u) = l
    BY <1>1, <1>2, <1>3
  <1> QED
    BY <1>3, <1>4, <1>6, <1>8, <1>9 DEF HitAt

\* Each step needs what comes of fewer elements.
DefinedBelow(f, n) == \A k \in 0..(n - 1) : f[k] \in Seq(Element)
\* A function of k that asks for smaller k only is determined by its values below k.
AgreeBelow(f, g, n) == \A k \in 0..(n - 1) : g[k] = f[k]

LEMMA RewrittenIs ==
    ASSUME NEW u \in Seq(Element), NEW needle \in Seq(Element), needle # <<>>, NEW by \in Seq(Element),
           NEW n \in Nat, n <= Len(u), NEW f
    PROVE  /\ DefinedBelow(f, n) => Rewritten(f, u, needle, by, n) \in Seq(Element)
           /\ \A g : AgreeBelow(f, g, n) => Rewritten(g, u, needle, by, n) = Rewritten(f, u, needle, by, n)
  <1>1. CASE n = 0
    BY <1>1, EmptySeq DEF Rewritten
  <1>2. CASE n # 0
    <2>1. PICK h \in Nat : h = Len(needle) /\ h # 0
      OBVIOUS
    <2>2. CASE HitAt(u, needle, n)
      <3>1. n - h \in 0..(n - 1)
        BY <2>1, <2>2 DEF HitAt
      <3>2. PICK k : k = n - h
        OBVIOUS
      <3>3. Rewritten(f, u, needle, by, n) = by \o f[k] /\ \A g : Rewritten(g, u, needle, by, n) = by \o g[k]
        BY <1>2, <2>1, <2>2, <3>2 DEF Rewritten
      <3>4. DefinedBelow(f, n) => f[k] \in Seq(Element)
        BY <3>1, <3>2 DEF DefinedBelow
      <3>5. f[k] \in Seq(Element) => by \o f[k] \in Seq(Element)
        OBVIOUS
      <3>6. \A g : AgreeBelow(f, g, n) => g[k] = f[k]
        BY <3>1, <3>2 DEF AgreeBelow
      <3> QED
        BY <3>3, <3>4, <3>5, <3>6
    <2>3. CASE ~HitAt(u, needle, n)
      <3>1. n - 1 \in 0..(n - 1)
        BY <1>2
      <3>2. PICK k : k = n - 1
        OBVIOUS
      <3>3. PICK e \in Element : e = u[Len(u) - n + 1]
        <4>1. PICK l \in Nat : l = Len(u)
          OBVIOUS
        <4>2. l - n + 1 \in 1..l
          BY <1>2, <4>1
        <4> QED
          BY <4>1, <4>2
      <3>4. /\ Rewritten(f, u, needle, by, n) = <<e>> \o f[k]
            /\ \A g : Rewritten(g, u, needle, by, n) = <<e>> \o g[k]
        BY <1>2, <2>3, <3>2, <3>3 DEF Rewritten
      <3>5. <<e>> \in Seq(Element)
        OBVIOUS
      <3>6. f[k] \in Seq(Element) => <<e>> \o f[k] \in Seq(Element)
        BY <3>5
      <3> QED
        BY <3>1, <3>2, <3>4, <3>6 DEF DefinedBelow, AgreeBelow
    <2> QED
      BY <2>2, <2>3
  <1> QED
    BY <1>1, <1>2

\* So there is the function that the definition of AllReplaced chooses.
LEMMA RewrittenExists ==
    ASSUME NEW u \in Seq(Element), NEW needle \in Seq(Element), needle # <<>>, NEW by \in Seq(Element)
    PROVE  \E f : RewrittenUpTo(f, u, needle, by, Len(u))
  <1> DEFINE Counts == {m \in 0..Len(u) : \E f : RewrittenUpTo(f, u, needle, by, m)}
  <1>n. PICK l \in Nat : l = Len(u)
    OBVIOUS
  <1>1. 0 \in Counts
    <2>1. PICK f : f = [k \in 0..0 |-> <<>>]
      OBVIOUS
    <2>2. f \in [0..0 -> Seq(Element)]
      BY <2>1, EmptySeq
    <2>3. \A k \in 0..0 : k = 0 /\ f[k] = <<>>
      BY <2>1
    <2>4. \A k \in 0..0 : f[k] = Rewritten(f, u, needle, by, k)
      BY <2>3 DEF Rewritten
    <2> QED
      BY <1>n, <2>2, <2>4 DEF RewrittenUpTo
  <1>2. ASSUME NEW m \in 0..(l - 1), m \in Counts
        PROVE  m + 1 \in Counts
    <2>1. PICK f : RewrittenUpTo(f, u, needle, by, m)
      BY <1>2
    <2>2. PICK n \in Nat : n = m + 1
      OBVIOUS
    <2>3. m \in Nat /\ n <= Len(u) /\ n - 1 <= m /\ n \in 0..l
      BY <1>n, <2>2
    <2>4. \A k \in 0..m : f[k] \in Seq(Element) /\ f[k] = Rewritten(f, u, needle, by, k)
      BY <2>1 DEF RewrittenUpTo
    <2>5. PICK y : y = Rewritten(f, u, needle, by, n)
      OBVIOUS
    <2>6. y \in Seq(Element)
      <3>1. DefinedBelow(f, n)
        BY <2>2, <2>3, <2>4 DEF DefinedBelow
      <3> QED
        BY <2>3, <2>5, <3>1, RewrittenIs
    <2>7. PICK g : g = [k \in 0..n |-> IF k = n THEN y ELSE f[k]]
      OBVIOUS
    <2>8. \A k \in 0..n : k = n \/ k \in 0..m
      BY <2>2, <2>3
    <2>9. g \in [0..n -> Seq(Element)]
      BY <2>4, <2>6, <2>7, <2>8
    <2>10. g[n] = y /\ \A k \in 0..m : g[k] = f[k]
      BY <2>2, <2>3, <2>7
    <2>11. ASSUME NEW k \in 0..n PROVE g[k] = Rewritten(g, u, needle, by, k)
      <3>1. Rewritten(g, u, needle, by, k) = Rewritten(f, u, needle, by, k)
        <4>1. k \in Nat /\ k <= Len(u)
          BY <2>2, <2>3
        <4>2. \A i \in 0..(k - 1) : i \in 0..m
          BY <2>2, <2>3
        <4>3. AgreeBelow(f, g, k)
          BY <2>10, <4>2 DEF AgreeBelow
        <4> QED
          BY <4>1, <4>3, RewrittenIs
      <3>2. CASE k = n
        BY <2>5, <2>10, <3>1, <3>2
      <3>3. CASE k \in 0..m
        BY <2>4, <2>10, <3>1, <3>3
      <3> QED
        BY <2>8, <3>2, <3>3
    <2>12. RewrittenUpTo(g, u, needle, by, n)
      BY <2>9, <2>11 DEF RewrittenUpTo
    <2> QED
      BY <1>n, <2>2, <2>3, <2>12
  <1> HIDE DEF Counts
  <1>3. \A m \in 0..l : m \in Counts
    BY <1>1, <1>2, CountUp
  <1>4. l \in Counts
    BY <1>3
  <1> QED
    BY <1>n, <1>4 DEF Counts

\* The definition in Array is of that form.
LEMMA ReplacedIs ==
    ASSUME NEW u \in Seq(Element), NEW needle \in Seq(Element), needle # <<>>, NEW by \in Seq(Element)
    PROVE  \E f : RewrittenUpTo(f, u, needle, by, Len(u)) /\ AllReplaced(u, needle, by) = f[Len(u)]
  <1> DEFINE IsIt(g) ==
                g = [k \in 0..Len(u) |->
                        LET rest == SubSeq(u, Len(u) - k + 1, Len(u))
                        IN  IF k = 0 THEN <<>>
                            ELSE IF IsPrefix(needle, rest) THEN by \o g[k - Len(needle)]
                            ELSE <<Head(rest)>> \o g[k - 1]]
             chosen == CHOOSE g : IsIt(g)
  <1>n. PICK l \in Nat : l = Len(u)
    OBVIOUS
  <1>1. ASSUME NEW g, NEW k \in 0..Len(u)
        PROVE  (LET rest == SubSeq(u, Len(u) - k + 1, Len(u))
                IN  IF k = 0 THEN <<>>
                    ELSE IF IsPrefix(needle, rest) THEN by \o g[k - Len(needle)]
                    ELSE <<Head(rest)>> \o g[k - 1])
               = Rewritten(g, u, needle, by, k)
    <2>1. CASE k = 0
      BY <2>1 DEF Rewritten
    <2>2. CASE k # 0
      <3>1. k \in Nat /\ k <= Len(u)
        BY <1>n
      <3>2. PICK rest : rest = SubSeq(u, Len(u) - k + 1, Len(u))
        OBVIOUS
      <3>3. Head(rest) = u[Len(u) - k + 1] /\ (IsPrefix(needle, rest) <=> HitAt(u, needle, k))
        BY <2>2, <3>1, <3>2, LastPart
      <3> QED
        BY <2>2, <3>2, <3>3 DEF Rewritten
    <2> QED
      BY <2>1, <2>2
  <1>2. PICK f : RewrittenUpTo(f, u, needle, by, Len(u))
    BY RewrittenExists
  <1>3. IsIt(f)
    <2>1. f = [k \in 0..Len(u) |-> f[k]] /\ \A k \in 0..Len(u) : f[k] = Rewritten(f, u, needle, by, k)
      BY <1>2 DEF RewrittenUpTo
    <2> QED
      BY <1>1, <2>1
  <1>4. IsIt(chosen)
    <2> HIDE DEF IsIt
    <2> QED
      BY <1>3
  <1>5. AllReplaced(u, needle, by) = chosen[Len(u)]
    BY Zenon DEF AllReplaced
  <1>6. PICK g : g = chosen /\ IsIt(g)
    BY <1>4
  <1>7. \A k \in 0..Len(u) : g[k] = Rewritten(g, u, needle, by, k)
    BY <1>1, <1>6
  <1>8. DOMAIN g = 0..Len(u) /\ g = [k \in 0..Len(u) |-> g[k]]
    BY <1>6
  <1> HIDE DEF IsIt, chosen
  <1> DEFINE Good == {k \in 0..Len(u) : g[k] = f[k]}
             Below == {k \in 0..Len(u) : \A i \in 0..k : i \in Good}
  <1>9. \A k \in 0..Len(u) : f[k] \in Seq(Element) /\ f[k] = Rewritten(f, u, needle, by, k)
    BY <1>2 DEF RewrittenUpTo
  <1>10. 0 \in Below
    <2>1. 0 \in 0..Len(u)
      BY <1>n
    <2>2. g[0] = f[0]
      BY <1>7, <1>9, <2>1 DEF Rewritten
    <2> QED
      BY <1>n, <2>1, <2>2
  <1>11. ASSUME NEW m \in 0..(l - 1), m \in Below
         PROVE  m + 1 \in Below
    <2>1. PICK n \in Nat : n = m + 1
      OBVIOUS
    <2>2. m \in Nat /\ n <= Len(u) /\ n - 1 <= m /\ n \in 0..Len(u) /\ \A k \in 0..m : k \in 0..Len(u)
      BY <1>n, <2>1
    <2>3. \A k \in 0..m : g[k] = f[k] /\ f[k] \in Seq(Element)
      BY <1>9, <1>11, <2>2
    <2>4. Rewritten(g, u, needle, by, n) = Rewritten(f, u, needle, by, n)
      <3>1. AgreeBelow(f, g, n)
        BY <2>1, <2>2, <2>3 DEF AgreeBelow
      <3> QED
        BY <2>2, <3>1, RewrittenIs
    <2>5. g[n] = f[n]
      BY <1>7, <1>9, <2>2, <2>4
    <2>6. \A k \in 0..n : k = n \/ k \in 0..m
      BY <2>1, <2>2
    <2> QED
      BY <2>1, <2>2, <2>3, <2>5, <2>6
  <1> HIDE DEF Below
  <1>12. \A k \in 0..l : k \in Below
    BY <1>10, <1>11, CountUp
  <1>13. g[Len(u)] = f[Len(u)]
    <2>1. l \in Below
      BY <1>12
    <2> QED
      BY <1>n, <2>1 DEF Below
  <1> QED
    BY <1>2, <1>5, <1>6, <1>13

\* f[k] is the last k elements up to the last j, and then f[j].
Skipped(f, u, k, j) ==
    /\ Len(f[k]) = k - j + Len(f[j])
    /\ \A p \in 1..k - j : f[k][p] = u[Len(u) - k + p]
    /\ \A p \in 1..Len(f[j]) : f[k][k - j + p] = f[j][p]

\* One sequence behind another.
LEMMA Behind ==
    ASSUME NEW s \in Seq(Element), NEW t \in Seq(Element), NEW a \in Nat, a = Len(s), NEW b \in Nat, b = Len(t)
    PROVE  /\ s \o t \in Seq(Element) /\ Len(s \o t) = a + b
           /\ \A p \in 1..a : (s \o t)[p] = s[p]
           /\ \A p \in 1..b : (s \o t)[a + p] = t[p]
  <1>1. /\ s \o t \in Seq(Element) /\ Len(s \o t) = Len(s) + Len(t)
        /\ \A p \in 1..Len(s) + Len(t) : (s \o t)[p] = IF p <= Len(s) THEN s[p] ELSE t[p - Len(s)]
    BY ConcatProperties, Zenon
  <1>2. PICK w : w = s \o t
    OBVIOUS
  <1>3. w \in Seq(Element) /\ Len(w) = a + b /\ \A p \in 1..a + b : w[p] = IF p <= a THEN s[p] ELSE t[p - a]
    BY <1>1, <1>2
  <1>4. \A p \in 1..a : w[p] = s[p]
    BY <1>3
  <1>5. ASSUME NEW p \in 1..b PROVE w[a + p] = t[p]
    <2>1. PICK q \in Nat : q = a + p
      OBVIOUS
    <2>2. q \in 1..a + b /\ ~(q <= a) /\ q - a = p
      BY <2>1
    <2> QED
      BY <1>3, <2>1, <2>2
  <1> QED
    BY <1>2, <1>3, <1>4, <1>5

\* Elements at which no needle starts come through as they are.
LEMMA Skips ==
    ASSUME NEW u \in Seq(Element), NEW needle \in Seq(Element), needle # <<>>, NEW by \in Seq(Element),
           NEW f, RewrittenUpTo(f, u, needle, by, Len(u)),
           NEW j \in Nat, NEW k \in Nat, j <= k, k <= Len(u), \A i \in (j + 1)..k : ~HitAt(u, needle, i)
    PROVE  Skipped(f, u, k, j)
  <1>1. PICK l \in Nat : l = Len(u)
    OBVIOUS
  <1>2. \A i \in 0..l : f[i] \in Seq(Element) /\ f[i] = Rewritten(f, u, needle, by, i)
    BY <1>1 DEF RewrittenUpTo
  <1>k. k - j \in Nat
    OBVIOUS
  <1>d. PICK d \in Nat : d = k - j
    BY <1>k
  <1> DEFINE Good == {i \in 0..d : Skipped(f, u, j + i, j)}
  <1>3. 0 \in Good
    <2>1. Len(f[j]) \in Nat /\ j - j = 0 /\ j + 0 = j
      BY <1>1, <1>2
    <2> QED
      BY <2>1 DEF Skipped
  <1>4. ASSUME NEW i \in 0..(d - 1), i \in Good
        PROVE  i + 1 \in Good
    <2>1. PICK a \in Nat : a = j + i
      OBVIOUS
    <2>2. PICK b \in Nat : b = a + 1
      OBVIOUS
    <2>3. b \in (j + 1)..k /\ b \in 0..l /\ a \in 0..l /\ b - 1 = a /\ b # 0 /\ b = j + (i + 1) /\ b <= l
      BY <1>1, <1>d, <2>1, <2>2
    <2>4. Skipped(f, u, a, j)
      BY <1>4, <2>1
    <2>5. PICK s \in Seq(Element) : s = f[a]
      BY <1>2, <2>3
    <2>6. PICK t \in Seq(Element) : t = f[j]
      BY <1>1, <1>2
    <2>7. PICK n \in Nat : n = Len(t)
      OBVIOUS
    <2>8. Len(s) = i + n /\ (\A p \in 1..i : s[p] = u[l - a + p]) /\ \A p \in 1..n : s[i + p] = t[p]
      <3>1. a - j = i
        BY <2>1
      <3> QED
        BY <1>1, <2>4, <2>5, <2>6, <2>7, <3>1 DEF Skipped
    <2>9. PICK e \in Element : e = u[l - b + 1]
      <3>1. l - b + 1 \in 1..l
        BY <2>3
      <3> QED
        BY <1>1, <3>1
    <2>10. PICK w : w = <<e>> \o s
      OBVIOUS
    <2>11. f[b] = w
      BY <1>1, <1>2, <2>3, <2>5, <2>9, <2>10 DEF Rewritten
    <2>12. PICK m \in Nat : m = i + n
      OBVIOUS
    <2>13. Len(w) = 1 + m /\ w[1] = e /\ \A p \in 1..m : w[1 + p] = s[p]
      <3>1. <<e>> \in Seq(Element) /\ 1 = Len(<<e>>) /\ m = Len(s) /\ 1 \in Nat /\ <<e>>[1] = e /\ 1 \in 1..1
        BY <2>8, <2>12
      <3>2. /\ Len(<<e>> \o s) = 1 + m /\ \A p \in 1..1 : (<<e>> \o s)[p] = <<e>>[p]
            /\ \A p \in 1..m : (<<e>> \o s)[1 + p] = s[p]
        BY <3>1, Behind
      <3> QED
        BY <2>10, <3>1, <3>2
    <2>14. PICK c \in Nat : c = i + 1
      OBVIOUS
    <2>15. Len(w) = c + n
      BY <2>12, <2>13, <2>14
    <2>16. ASSUME NEW p \in 1..c PROVE w[p] = u[l - b + p]
      <3>1. CASE p = 1
        BY <2>9, <2>13, <3>1
      <3>2. CASE p # 1
        <4>1. PICK q \in Nat : q = p - 1
          OBVIOUS
        <4>2. q \in 1..i /\ q \in 1..m /\ 1 + q = p /\ l - a + q = l - b + p
          BY <2>2, <2>12, <2>14, <3>2, <4>1
        <4> QED
          BY <2>8, <2>13, <4>2
      <3> QED
        BY <3>1, <3>2
    <2>17. ASSUME NEW p \in 1..n PROVE w[c + p] = t[p]
      <3>1. PICK q \in Nat : q = i + p
        OBVIOUS
      <3>2. q \in 1..m /\ 1 + q = c + p
        BY <2>12, <2>14, <3>1
      <3> QED
        BY <2>8, <2>13, <3>1, <3>2
    <2>18. b - j = c /\ i + 1 = c /\ j + c = b
      BY <2>1, <2>2, <2>14
    <2>19. Skipped(f, u, b, j)
      BY <1>1, <2>6, <2>7, <2>11, <2>15, <2>16, <2>17, <2>18 DEF Skipped
    <2>20. c \in 0..d
      BY <2>14
    <2> QED
      BY <2>18, <2>19, <2>20
  <1> HIDE DEF Good
  <1>5. \A i \in 0..d : i \in Good
    BY <1>3, <1>4, CountUp
  <1>6. d \in Good /\ j + d = k
    BY <1>d, <1>5
  <1> QED
    BY <1>6 DEF Good

\* A replacement that is not shorter than the needle makes nothing shorter.
LEMMA NotShorter ==
    ASSUME NEW u \in Seq(Element), NEW needle \in Seq(Element), needle # <<>>, NEW by \in Seq(Element),
           Len(needle) <= Len(by), NEW f, RewrittenUpTo(f, u, needle, by, Len(u)), NEW k \in 0..Len(u)
    PROVE  k <= Len(f[k])
  <1>1. PICK l \in Nat : l = Len(u)
    OBVIOUS
  <1>2. \A i \in 0..l : f[i] \in Seq(Element) /\ f[i] = Rewritten(f, u, needle, by, i)
    BY <1>1 DEF RewrittenUpTo
  <1> DEFINE Good(i) == i <= Len(f[i])
             Below == {i \in 0..l : \A n \in 0..i : Good(n)}
  <1>3. 0 \in Below
    BY <1>2
  <1>4. ASSUME NEW m \in 0..(l - 1), m \in Below
        PROVE  m + 1 \in Below
    <2>1. PICK n \in Nat : n = m + 1
      OBVIOUS
    <2>2. n \in 0..l /\ n # 0 /\ m \in Nat /\ \A i \in 0..n : i = n \/ i \in 0..m
      BY <2>1
    <2>3. \A i \in 0..m : Good(i) /\ i \in 0..l
      BY <1>4
    <2>4. PICK h \in Nat : h = Len(needle) /\ h # 0
      OBVIOUS
    <2>5. PICK b \in Nat : b = Len(by) /\ h <= b
      BY <2>4
    <2>6. ASSUME HitAt(u, needle, n) PROVE Good(n)
      <3>1. n - h \in 0..m
        BY <2>1, <2>4, <2>6 DEF HitAt
      <3>2. PICK i \in 0..m : i = n - h
        BY <3>1
      <3>3. PICK s \in Seq(Element) : s = f[i]
        BY <1>2, <2>3
      <3>4. PICK c \in Nat : c = Len(s)
        OBVIOUS
      <3>5. i <= c
        BY <2>3, <3>3, <3>4
      <3>6. f[n] = by \o s
        BY <1>2, <2>2, <2>4, <2>6, <3>2, <3>3 DEF Rewritten
      <3>7. Len(f[n]) = b + c
        BY <2>5, <3>4, <3>6, Behind
      <3> QED
        BY <2>5, <3>2, <3>5, <3>7
    <2>7. ASSUME ~HitAt(u, needle, n) PROVE Good(n)
      <3>1. PICK s \in Seq(Element) : s = f[m]
        BY <1>2, <2>3
      <3>2. PICK c \in Nat : c = Len(s)
        OBVIOUS
      <3>3. m <= c
        BY <2>2, <2>3, <3>1, <3>2
      <3>4. PICK e \in Element : e = u[Len(u) - n + 1]
        <4>1. l - n + 1 \in 1..l
          BY <2>2
        <4> QED
          BY <1>1, <4>1
      <3>5. f[n] = <<e>> \o s
        <4>1. n - 1 = m
          BY <2>1
        <4> QED
          BY <1>2, <2>2, <2>7, <3>1, <3>4, <4>1 DEF Rewritten
      <3>6. Len(f[n]) = 1 + c
        <4>1. <<e>> \in Seq(Element) /\ 1 = Len(<<e>>) /\ 1 \in Nat
          OBVIOUS
        <4> QED
          BY <3>2, <3>5, <4>1, Behind
      <3> QED
        BY <2>1, <3>3, <3>6
    <2>8. Good(n)
      BY <2>6, <2>7
    <2> HIDE DEF Good
    <2> QED
      BY <2>1, <2>2, <2>3, <2>8
  <1> HIDE DEF Below
  <1>5. \A i \in 0..l : i \in Below
    BY <1>3, <1>4, CountUp
  <1>6. k \in Below /\ k \in 0..k
    BY <1>1, <1>5
  <1> QED
    BY <1>6 DEF Below

-----------------------------------------------------------------------------
(***************************************************************************)
(* One turn of array_replace_all.  c is what the array holds, the first i  *)
(* elements are done, and the others are the last k of u, where it began.  *)
(***************************************************************************)
Standing(f, u, c, i, k) ==
    /\ c \in Seq(Element) /\ i \in Nat /\ k \in 0..Len(u) /\ Len(c) = i + k
    /\ \A p \in 1..k : c[i + p] = u[Len(u) - k + p]
    /\ Len(f[Len(u)]) = i + Len(f[k])
    /\ \A p \in 1..i : f[Len(u)][p] = c[p]
    /\ \A p \in 1..Len(f[k]) : f[Len(u)][i + p] = f[k][p]

\* When no needle is left, the array holds what should come of u.
LEMMA StandsAtTheEnd ==
    ASSUME NEW u \in Seq(Element), NEW needle \in Seq(Element), needle # <<>>, NEW by \in Seq(Element),
           NEW f, RewrittenUpTo(f, u, needle, by, Len(u)), NEW c, NEW i, NEW k, Standing(f, u, c, i, k),
           \A j \in 1..k : ~HitAt(u, needle, j)
    PROVE  c = f[Len(u)]
  <1>1. PICK l \in Nat : l = Len(u)
    OBVIOUS
  <1>2. /\ f[0] = <<>> /\ f[l] \in Seq(Element) /\ Len(f[0]) = 0
    <2>1. 0 \in 0..l /\ l \in 0..l
      BY <1>1
    <2>2. f[0] = <<>> /\ f[l] \in Seq(Element)
      BY <1>1, <2>1 DEF RewrittenUpTo, Rewritten
    <2> QED
      BY <2>2, EmptySeq
  <1>3. /\ c \in Seq(Element) /\ i \in Nat /\ k \in 0..l /\ Len(c) = i + k
        /\ \A p \in 1..k : c[i + p] = u[l - k + p]
        /\ Len(f[l]) = i + Len(f[k])
        /\ \A p \in 1..i : f[l][p] = c[p]
        /\ \A p \in 1..Len(f[k]) : f[l][i + p] = f[k][p]
    BY <1>1 DEF Standing
  <1>4. Skipped(f, u, k, 0)
    <2>1. k \in Nat /\ 0 \in Nat /\ 0 <= k /\ k <= Len(u) /\ \A j \in (0 + 1)..k : ~HitAt(u, needle, j)
      BY <1>1, <1>3
    <2> QED
      BY <2>1, Skips
  <1>5. Len(f[k]) = k /\ \A p \in 1..k : f[k][p] = u[l - k + p]
    <2>1. k - 0 = k /\ k + 0 = k
      BY <1>3
    <2> QED
      BY <1>1, <1>2, <1>4, <2>1 DEF Skipped
  <1>6. PICK w \in Seq(Element) : w = f[l]
    BY <1>2
  <1>7. ASSUME NEW p \in 1..i + k PROVE w[p] = c[p]
    <2>1. CASE p <= i
      BY <1>3, <1>6, <2>1
    <2>2. CASE p > i
      <3>1. PICK q \in 1..k : q = p - i
        BY <1>3, <2>2
      <3>2. i + q = p
        BY <1>3, <3>1
      <3> QED
        BY <1>3, <1>5, <1>6, <3>1, <3>2
    <2>3. p \in Int /\ i \in Int
      BY <1>3
    <2> QED
      BY <2>1, <2>2, <2>3
  <1>8. Len(w) = i + k
    BY <1>3, <1>5, <1>6
  <1>9. w = c
    BY <1>3, <1>6, <1>7, <1>8, SeqEqual
  <1> QED
    BY <1>1, <1>6, <1>9

\* The needle, of h elements, is behind the first a of c; it starts at none of the last elements, from k to j + 1.
NeedleBehind(c, needle, h, a) == \A p \in 1..h : c[a + p] = needle[p]
NoHitAbove(u, needle, j, k) == \A r \in (j + 1)..k : ~HitAt(u, needle, r)

\* How long they are.
Measured(u, needle, by, l, h, m) ==
    /\ u \in Seq(Element) /\ l = Len(u)
    /\ needle \in Seq(Element) /\ needle # <<>> /\ h = Len(needle)
    /\ by \in Seq(Element) /\ m = Len(by)

\* A match: the first one behind i, at a.
LEMMA StandsAfterMatch ==
    ASSUME NEW u, NEW needle, NEW by, NEW l \in Nat, NEW h \in Nat, NEW m \in Nat, Measured(u, needle, by, l, h, m),
           NEW f, RewrittenUpTo(f, u, needle, by, Len(u)), NEW c \in Seq(Element), NEW i \in Nat, NEW k \in Nat,
           Standing(f, u, c, i, k),
           NEW d \in Nat, NEW a \in Nat, a = i + d, NEW j \in Nat, k = d + j, NEW n \in Nat, j = h + n,
           NEW b \in Nat, b = a + h, NEW to \in Nat, to = a + m,
           NeedleBehind(c, needle, h, a), NoHitAbove(u, needle, j, k)
    PROVE  Standing(f, u, Spliced(c, a, by, b), to, n)
  <1>1. /\ u \in Seq(Element) /\ needle \in Seq(Element) /\ needle # <<>> /\ by \in Seq(Element)
        /\ l = Len(u) /\ h = Len(needle) /\ m = Len(by)
    BY DEF Measured
  <1>2. \A r \in 0..l : f[r] \in Seq(Element) /\ f[r] = Rewritten(f, u, needle, by, r)
    BY <1>1 DEF RewrittenUpTo
  <1>3. /\ k \in 0..l /\ Len(c) = i + k
        /\ \A p \in 1..k : c[i + p] = u[l - k + p]
        /\ Len(f[l]) = i + Len(f[k])
        /\ \A p \in 1..i : f[l][p] = c[p]
        /\ \A p \in 1..Len(f[k]) : f[l][i + p] = f[k][p]
    BY <1>1 DEF Standing
  <1>4. h # 0
    BY <1>1
  <1>6. j <= k /\ j # 0 /\ j \in 1..k /\ j \in 0..l /\ n \in 0..l /\ k <= l /\ k \in 0..l /\ j - h = n /\ k - j = d
    BY <1>3, <1>4
  \* The needle starts at the last j elements.
  <1>7. HitAt(u, needle, j)
    <2>1. ASSUME NEW p \in 1..h PROVE u[l - j + p] = needle[p]
      <3>1. PICK q \in Nat : q = d + p
        OBVIOUS
      <3>2. q \in 1..k /\ i + q = a + p /\ l - k + q = l - j + p
        BY <1>6, <3>1
      <3>3. c[a + p] = needle[p]
        BY DEF NeedleBehind
      <3>4. c[i + q] = u[l - k + q]
        BY <1>3, <3>2
      <3>5. c[a + p] = u[l - j + p]
        BY <3>2, <3>4
      <3> QED
        BY <3>3, <3>5
    <2>2. h <= j
      BY <1>6
    <2> QED
      BY <1>1, <2>1, <2>2 DEF HitAt
  <1>8. PICK y \in Seq(Element) : y = f[n]
    BY <1>2, <1>6
  <1>9. PICK e \in Nat : e = Len(y)
    OBVIOUS
  <1>10. PICK z \in Seq(Element) : z = f[j]
    BY <1>2, <1>6
  <1>11. z = by \o y
    <2>1. f[j] = by \o f[j - Len(needle)]
      BY <1>2, <1>6, <1>7 DEF Rewritten
    <2>2. j - Len(needle) = n
      BY <1>1, <1>6
    <2> QED
      BY <1>8, <1>10, <2>1, <2>2
  <1>12. Len(z) = m + e /\ (\A p \in 1..m : z[p] = by[p]) /\ \A p \in 1..e : z[m + p] = y[p]
    BY <1>1, <1>9, <1>11, Behind
  <1>13. PICK x \in Seq(Element) : x = f[k]
    BY <1>2, <1>3
  <1>14. Len(x) = d + (m + e) /\ (\A p \in 1..d : x[p] = u[l - k + p]) /\ \A p \in 1..m + e : x[d + p] = z[p]
    <2>1. Skipped(f, u, k, j)
      <3>1. k \in Nat /\ k <= Len(u) /\ j <= k
        BY <1>1, <1>6
      <3>2. \A r \in (j + 1)..k : ~HitAt(u, needle, r)
        BY DEF NoHitAbove
      <3> QED
        BY <1>1, <3>1, <3>2, Skips
    <2>2. Len(f[k]) = d + Len(f[j]) /\ (\A p \in 1..d : f[k][p] = u[l - k + p])
          /\ \A p \in 1..Len(f[j]) : f[k][d + p] = f[j][p]
      BY <1>1, <1>6, <2>1 DEF Skipped
    <2> QED
      BY <1>10, <1>12, <1>13, <2>2
  <1>15. PICK g \in Seq(Element) : g = f[l]
    <2>1. l \in 0..l
      OBVIOUS
    <2> QED
      BY <1>2, <2>1
  <1>16. /\ Len(g) = i + (d + (m + e)) /\ \A p \in 1..i : g[p] = c[p]
         /\ \A p \in 1..d + (m + e) : g[i + p] = x[p]
    BY <1>3, <1>13, <1>14, <1>15
  <1>17. PICK w : w = Spliced(c, a, by, b)
    OBVIOUS
  <1>18. /\ w \in Seq(Element) /\ Len(w) = to + n
         /\ \A p \in 1..to + n : w[p] = IF p <= a THEN c[p] ELSE IF p <= to THEN by[p - a] ELSE c[p - a - m + b]
    <2>1. a <= b
      OBVIOUS
    <2>2. IsSpliced(w, c, a, by, b)
      <3>1. b <= Len(c)
        <4>1. Len(c) = i + k
          BY <1>3
        <4>2. b <= i + k
          OBVIOUS
        <4> QED
          BY <4>1, <4>2
      <3> QED
        BY <1>1, <1>17, <2>1, <3>1, SplicedIs
    <2>3. a + Len(by) + Len(c) - b = to + n /\ a + Len(by) = to
      BY <1>1, <1>3
    <2>4. /\ w \in Seq(Element) /\ Len(w) = to + n
          /\ \A p \in 1..to + n : w[p] = IF p <= a THEN c[p] ELSE IF p <= to THEN by[p - a] ELSE c[p - a - Len(by) + b]
      BY <2>2, <2>3 DEF IsSpliced
    <2> QED
      BY <1>1, <2>4
  <1>19. ASSUME NEW p \in 1..n PROVE w[to + p] = u[l - n + p]
    <2>1. PICK q \in Nat : q = to + p
      OBVIOUS
    <2>2. q \in 1..to + n /\ ~(q <= a) /\ ~(q <= to) /\ q - a - m + b = b + p
      BY <2>1
    <2>3. w[q] = c[b + p]
      BY <1>18, <2>2
    <2>4. PICK r \in Nat : r = d + h + p
      OBVIOUS
    <2>5. r \in 1..k /\ i + r = b + p /\ l - k + r = l - n + p
      BY <2>4
    <2> QED
      <3>1. c[i + r] = u[l - k + r]
        BY <1>3, <2>5
      <3>2. c[b + p] = u[l - n + p]
        BY <2>5, <3>1
      <3> QED
        BY <2>1, <2>3, <3>2
  <1>20. Len(g) = to + e
    <2>1. Len(g) = i + (d + (m + e))
      BY <1>16
    <2>2. i + (d + (m + e)) = to + e
      OBVIOUS
    <2> QED
      BY <2>1, <2>2
  <1>21. ASSUME NEW p \in 1..to PROVE g[p] = w[p]
    <2>0. p \in 1..to + n /\ p \in Nat
      OBVIOUS
    <2>1. CASE p <= i
      <3>1. p <= a /\ p \in 1..i
        BY <2>0, <2>1
      <3> QED
        BY <1>16, <1>18, <2>0, <3>1
    <2>2. CASE p > i /\ p <= a
      <3>1. PICK q \in 1..d : q = p - i
        BY <2>0, <2>2
      <3>2. i + q = p /\ q \in 1..d + (m + e) /\ q \in 1..k
        BY <3>1
      <3>3. g[p] = x[q]
        BY <1>16, <3>2
      <3>4. x[q] = u[l - k + q]
        BY <1>14
      <3>5. c[p] = u[l - k + q]
        BY <1>3, <3>2
      <3>6. w[p] = c[p]
        BY <1>18, <2>0, <2>2
      <3> QED
        BY <3>3, <3>4, <3>5, <3>6
    <2>3. CASE p > a
      <3>1. PICK q \in 1..m : q = p - a
        BY <2>0, <2>3
      <3>2. PICK r \in Nat : r = d + q
        OBVIOUS
      <3>3. i + r = p /\ r \in 1..d + (m + e) /\ q \in 1..m + e
        BY <3>1, <3>2
      <3>4. g[p] = x[r]
        BY <1>16, <3>3
      <3>5. x[r] = z[q]
        BY <1>14, <3>2, <3>3
      <3>6. z[q] = by[q]
        BY <1>12
      <3>7. w[p] = by[q]
        <4>1. ~(p <= a) /\ p <= to
          BY <2>0, <2>3
        <4> QED
          BY <1>18, <2>0, <3>1, <4>1
      <3> QED
        BY <3>4, <3>5, <3>6, <3>7
    <2> QED
      BY <2>0, <2>1, <2>2, <2>3
  <1>22. ASSUME NEW p \in 1..e PROVE g[to + p] = y[p]
    <2>1. PICK q \in Nat : q = m + p
      OBVIOUS
    <2>2. PICK r \in Nat : r = d + q
      OBVIOUS
    <2>t. p \in Nat /\ 1 <= p /\ p <= e
      BY <1>9
    <2>m. PICK me \in Nat : me = m + e
      BY <1>9
    <2>3. q \in 1..me
      BY <2>1, <2>t, <2>m
    <2>7. r \in 1..d + me
      BY <2>2, <2>3, <2>m
    <2>8. i + r = to + p
      BY <2>1, <2>2, <2>t
    <2>4. g[to + p] = x[r]
      BY <1>16, <2>7, <2>8, <2>m
    <2>5. x[r] = z[q]
      BY <1>14, <2>2, <2>3, <2>m
    <2>6. z[q] = y[p]
      BY <1>12, <2>1
    <2> QED
      BY <2>4, <2>5, <2>6
  <1> QED
    BY <1>1, <1>6, <1>8, <1>9, <1>15, <1>17, <1>18, <1>19, <1>20, <1>21, <1>22 DEF Standing

-----------------------------------------------------------------------------
\* The smallest of a set of numbers.
LEMMA MinimumOf ==
    ASSUME NEW S, S \subseteq Nat, S # {}
    PROVE  Min(S) \in S /\ \A q \in S : Min(S) <= q
  <1>2. PICK R : IsWellFoundedOn(R, Nat) /\ \A a, b \in Nat : a < b => <<a, b>> \in R
    BY LessIsWellFounded
  <1>4. PICK p \in S : \A q \in S : ~ (<<q, p>> \in R)
    BY <1>2, MinimumExists
  <1>5. ASSUME NEW q \in S PROVE p <= q
    <2>1. q \in Nat /\ p \in Nat /\ ~ (<<q, p>> \in R)
      BY <1>4
    <2> QED
      BY <1>2, <2>1
  <1> QED
    BY <1>4, <1>5 DEF Min

Misses(m, x, needle, first, last) == \A o \in first..last : ~MatchesAt(m, x, needle, o)

\* find answers with the first match, or with -1 when there is none.
LEMMA FindIs ==
    ASSUME NEW m, NEW x, NEW needle, needle # <<>>, NEW start \in Nat, NEW n \in Nat, m.arr[x].Count = n,
           NEW at, at = Find(m, x, needle, start)
    PROVE  \/ at = -1 /\ Misses(m, x, needle, start, n - 1)
           \/ /\ at \in start..(n - 1) /\ MatchesAt(m, x, needle, at)
              /\ Misses(m, x, needle, start, at - 1)
  <1> DEFINE hits == {o \in start..(n - 1) : MatchesAt(m, x, needle, o)}
  <1>1. at = IF hits = {} THEN -1 ELSE Min(hits)
    BY DEF Find
  <1>2. CASE hits = {}
    BY <1>1, <1>2 DEF Misses
  <1>3. CASE hits # {}
    <2>1. hits \subseteq Nat
      OBVIOUS
    <2>2. at \in hits /\ \A q \in hits : at <= q
      <3> HIDE DEF hits
      <3> QED
        BY <1>1, <1>3, <2>1, MinimumOf
    <2>3. at \in start..(n - 1) /\ MatchesAt(m, x, needle, at)
      BY <2>2
    <2>4. ASSUME NEW o \in start..(at - 1) PROVE ~MatchesAt(m, x, needle, o)
      <3>1. o \in start..(n - 1) /\ o \in Int /\ at \in Int /\ ~(at <= o)
        BY <2>3
      <3> QED
        BY <2>2, <3>1
    <2> QED
      BY <2>3, <2>4 DEF Misses
  <1> QED
    BY <1>2, <1>3

\* To find a needle at o is that its elements are there.
MatchMeans(m, x, needle, c, o) ==
    MatchesAt(m, x, needle, o) <=> \A p \in 1..Len(needle) : c[o + p] = needle[p]

\* Where the needle ends inside the array, cells match when elements do.
LEMMA MatchesIs ==
    ASSUME NEW m, NEW c \in Seq(Element), NEW x \in Arrays, HasAt(m, x, c), m.arr[x] \in Structs,
           NEW needle \in Seq(Element), NEW o \in Nat, o + Len(needle) <= Len(c)
    PROVE  MatchMeans(m, x, needle, c, o)
  <1>0. PICK h \in Nat : h = Len(needle)
    OBVIOUS
  <1>l. PICK l \in Nat : l = Len(c) /\ o + h <= l
    BY <1>0
  <1>1. HasAt(m, x, c) /\ m.arr[x] \in Structs
    OBVIOUS
  <1>2. PICK a \in Nat : a = m.arr[x].first
    BY <1>1 DEF Structs
  <1>3. \A i \in 1..l : m.block[m.arr[x].of][a + i] = c[i]
    BY <1>1, <1>2, <1>l DEF HasAt
  <1>4. ASSUME NEW p \in 1..h PROVE Cell(m, x, o + p - 1) = c[o + p]
    <2>1. PICK i \in Nat : i = o + p
      OBVIOUS
    <2>2. i \in 1..l /\ a + (o + p - 1) + 1 = a + i
      BY <1>l, <2>1
    <2>3. m.block[m.arr[x].of][a + i] = c[i]
      BY <1>3, <2>2
    <2> QED
      BY <1>2, <2>1, <2>2, <2>3 DEF Cell
  <1>5. DOMAIN needle = 1..h
    BY <1>0
  <1> QED
    BY <1>0, <1>4, <1>5 DEF MatchesAt, MatchMeans

\* No needle starts where find found none.
LEMMA NoHits ==
    ASSUME NEW m, NEW c \in Seq(Element), NEW x \in Arrays, HasAt(m, x, c), m.arr[x] \in Structs,
           NEW f, NEW u \in Seq(Element), NEW i \in Nat, NEW k \in Nat, Standing(f, u, c, i, k),
           NEW needle \in Seq(Element), NEW d \in Nat, NEW j \in Nat, k = d + j,
           NEW last \in Int, last = i + d - 1, Misses(m, x, needle, i, last)
    PROVE  \A r \in (j + 1)..k : ~HitAt(u, needle, r)
  <1> SUFFICES ASSUME NEW r \in (j + 1)..k, HitAt(u, needle, r)
               PROVE  FALSE
    OBVIOUS
  <1>1. PICK l \in Nat : l = Len(u)
    OBVIOUS
  <1>2. PICK h \in Nat : h = Len(needle)
    OBVIOUS
  <1>3. h <= r /\ \A p \in 1..h : u[l - r + p] = needle[p]
    BY <1>1, <1>2 DEF HitAt
  <1>4. Len(c) = i + k /\ k <= l /\ \A p \in 1..k : c[i + p] = u[l - k + p]
    <2>1. Len(c) = i + k /\ k \in 0..Len(u) /\ \A p \in 1..k : c[i + p] = u[Len(u) - k + p]
      BY Zenon DEF Standing
    <2>2. k <= l
      BY <1>1, <2>1
    <2> QED
      BY <1>1, <2>1, <2>2
  <1>5. k - r \in Nat
    OBVIOUS
  <1>6. PICK s \in Nat : s = k - r
    BY <1>5
  <1>7. PICK o \in Nat : o = i + s
    OBVIOUS
  <1>8. PICK n \in Nat : n = i + k
    OBVIOUS
  <1>9. o \in i..last /\ o + h <= n
    BY <1>3, <1>6, <1>7, <1>8
  <1>10. ASSUME NEW p \in 1..h PROVE c[o + p] = needle[p]
    <2>1. PICK q \in Nat : q = s + p
      OBVIOUS
    <2>2. q \in 1..k /\ i + q = o + p /\ l - k + q = l - r + p
      BY <1>3, <1>6, <1>7, <2>1
    <2>3. c[i + q] = u[l - k + q]
      BY <1>4, <2>2
    <2>4. c[o + p] = u[l - r + p]
      BY <2>2, <2>3
    <2> QED
      BY <1>3, <2>4
  <1>11. MatchesAt(m, x, needle, o)
    <2>1. o + Len(needle) <= Len(c)
      BY <1>2, <1>4, <1>8, <1>9
    <2>2. MatchMeans(m, x, needle, c, o)
      BY <2>1, MatchesIs
    <2> QED
      BY <1>2, <1>10, <2>2 DEF MatchMeans
  <1> QED
    BY <1>9, <1>11 DEF Misses

\* What the loop does to a match.
MovedBehind(r, x, to, b) == Move(r, x, to, b, r.arr[x].Count - b)

\* One match replaced: room is made, the rest is moved, and the other sequence is put there.
LEMMA MatchMakes ==
    ASSUME NEW m, NEW v, HasAll(m, v), NEW x \in Arrays, Alone(m, x),
           NEW by \in Seq(Element), NEW g \in Nat, g = Len(by), NEW l \in Nat, l = Len(v[x]),
           NEW a \in Nat, NEW b \in Nat, NEW h \in Nat, b = a + h, b <= l,
           NEW z \in Nat, g - h <= z, Reachable(z + l + 1),
           NEW r, r = Reserve(m, x, z), NEW to \in Nat, to = a + g,
           NEW moved, moved = MovedBehind(r, x, to, b)
    PROVE  Becomes(m, AddToCount(Put(moved, x, a, by), x, g - h), v, x, Spliced(v[x], a, by, b))
  <1>1. m.arr \in [Arrays -> Structs] /\ v[x] \in Seq(Element)
    BY DEF HasAll, IsMemory
  <1>2. PICK e : r = WithBlock(m, x, e, l) /\ HoldsFirst(e, v[x]) /\ l + z < Len(e)
    BY ReserveMakes
  <1>3. r.arr[x].Count = l
    <2>1. WithBlock(m, x, e, l).arr[x].Count = l
      BY <1>1, CountOfBlock
    <2> QED
      BY <1>2, <2>1
  <1>4. l - b \in Nat /\ g - h \in Int
    OBVIOUS
  <1>5. PICK n \in Nat : n = l - b
    BY <1>4
  <1>6. PICK d \in Int : d = g - h
    BY <1>4
  <1>7. moved = Move(WithBlock(m, x, e, l), x, to, b, n)
    BY <1>2, <1>3, <1>5 DEF MovedBehind
  <1>8. PICK w \in Nat : w = Len(e)
    BY <1>2 DEF HoldsFirst
  <1>9. w # 0 /\ a <= b /\ to + l - b <= w /\ d = to - b
    <2>1. l + z < w
      BY <1>2, <1>8
    <2>2. PICK y \in Nat : y = l
      OBVIOUS
    <2>3. PICK f \in Nat : f = g
      OBVIOUS
    <2>4. w # 0 /\ a <= b /\ d = to - b /\ to = a + f /\ d = f - h
      BY <1>6, <2>1, <2>3
    <2>5. y + z < w /\ f - h <= z
      BY <2>1, <2>2, <2>3
    <2>6. to + y - b <= w
      BY <2>4, <2>5
    <2> QED
      BY <2>2, <2>4, <2>6
  <1>10. Becomes(m, AddToCount(Put(moved, x, a, by), x, d), v, x, Spliced(v[x], a, by, b))
    BY <1>2, <1>5, <1>7, <1>8, <1>9, SpliceMakes
  <1> QED
    BY <1>6, <1>10

\* What array_replace_all reserves is what the array grows by, and a power of 2 reaches it.
LEMMA Difference ==
    ASSUME NEW g \in Nat, NEW h \in Nat, NEW z, z = Max({g - h, h - g})
    PROVE  z \in Nat /\ g - h <= z /\ (z <= g \/ z <= h)
  <1>1. PICK a \in Int : a = g - h
    OBVIOUS
  <1>2. PICK b \in Int : b = h - g
    OBVIOUS
  <1>3. \E t \in {a, b} : \A q \in {a, b} : t >= q
    OBVIOUS
  <1>4. z \in {a, b} /\ \A q \in {a, b} : z >= q
    BY <1>1, <1>2, <1>3 DEF Max
  <1> QED
    BY <1>1, <1>2, <1>4

LEMMA ReachesWith ==
    ASSUME NEW s \in Inputs \cup Needles, NEW n \in Nat, n <= 2 * MaxLength + Len(s) + 1
    PROVE  Reachable(n)
  <1>1. PICK e \in 0..MaxPower : 2 * MaxLength + Len(s) < 2^e /\ 2^e \in Nat
    BY ArrayAssumption
  <1>2. PICK p \in Nat : p = 2^e
    BY <1>1
  <1>3. s \in Seq(Element) /\ MaxLength \in Nat
    BY ArrayAssumption
  <1>4. PICK l \in Nat : l = Len(s)
    BY <1>3
  <1>5. 2 * MaxLength + l < p /\ n <= 2 * MaxLength + l + 1
    BY <1>1, <1>2, <1>4
  <1>6. n <= p
    BY <1>3, <1>5
  <1> QED
    BY <1>2, <1>6 DEF Reachable

\* Between two turns the array has c, of whose elements the last k are still looked at.
Turning(st, v, x, f, u, c, k) ==
    /\ st = [m |-> st.m, i |-> st.i, undefined |-> FALSE]
    /\ HasAll(st.m, [v EXCEPT ![x] = c]) /\ Alone(st.m, x) /\ Standing(f, u, c, st.i, k)
    /\ Len(c) <= MaxLength

\* A turn of the loop finds nothing, meets what is undefined, or goes on behind a match.
LEMMA TurnMakes ==
    ASSUME NEW v \in [Arrays -> Seq(Element)], NEW x \in Arrays, NEW u \in Seq(Element),
           NEW needle \in Needles, NEW by \in Inputs,
           NEW f, RewrittenUpTo(f, u, needle, by, Len(u)), Len(f[Len(u)]) <= MaxLength,
           NEW st, NEW c, NEW k, Turning(st, v, x, f, u, c, k),
           NEW turned, turned = ReplaceNext(st, x, needle, by)
    PROVE  \/ turned = st /\ Find(st.m, x, needle, st.i) = -1
           \/ turned.undefined = TRUE
           \/ \E c2, k2 : Turning(turned, v, x, f, u, c2, k2) /\ k2 < k
  <1>1. needle \in Seq(Element) /\ needle # <<>> /\ by \in Seq(Element) /\ MaxLength \in Nat
    BY ArrayAssumption
  <1>2. PICK m : m = st.m
    OBVIOUS
  <1>3. PICK i \in Nat : i = st.i
    BY DEF Turning, Standing
  <1>4. st = [m |-> m, i |-> i, undefined |-> FALSE] /\ st.undefined = FALSE
    BY <1>2, <1>3 DEF Turning
  <1>5. PICK w : w = [v EXCEPT ![x] = c]
    OBVIOUS
  <1>6. HasAll(m, w) /\ Alone(m, x) /\ Standing(f, u, c, i, k) /\ Len(c) <= MaxLength
    BY <1>2, <1>3, <1>5 DEF Turning
  <1>7. c \in Seq(Element) /\ k \in Nat /\ k <= Len(u) /\ Len(c) = i + k
    BY <1>6 DEF Standing
  <1>8. w[x] = c
    BY <1>5
  <1>9. HasAt(m, x, c) /\ m.arr[x] \in Structs /\ m.arr[x].Count = Len(c)
    <2>1. HasAt(m, x, w[x]) /\ m.arr[x] \in Structs
      BY <1>6 DEF HasAll, IsMemory
    <2> QED
      BY <1>8, <2>1 DEF HasAt
  <1>10. PICK at : at = Find(m, x, needle, i)
    OBVIOUS
  <1>11. PICK l \in Nat : l = Len(c) /\ l = i + k
    BY <1>7
  <1>12. \/ at = -1 /\ Misses(m, x, needle, i, l - 1)
         \/ at \in i..(l - 1) /\ MatchesAt(m, x, needle, at) /\ Misses(m, x, needle, i, at - 1)
    BY <1>1, <1>9, <1>10, <1>11, FindIs
  <1>13. CASE at = -1
    <2>1. turned = st
      BY <1>2, <1>3, <1>10, <1>13 DEF ReplaceNext
    <2> QED
      BY <1>2, <1>3, <1>10, <1>13, <2>1
  <1>14. CASE at # -1 /\ ~EndsInside(m, x, needle, at)
    <2>1. turned = [st EXCEPT !.undefined = TRUE]
      BY <1>2, <1>3, <1>4, <1>10, <1>14 DEF ReplaceNext
    <2>2. turned.undefined = TRUE
      BY <1>4, <2>1
    <2> QED
      BY <2>2
  <1>15. CASE at # -1 /\ EndsInside(m, x, needle, at)
    <2>1. PICK a \in Nat : a = at /\ i <= a /\ a < l
      BY <1>12, <1>15
    <2>2. PICK h \in Nat : h = Len(needle) /\ h # 0
      BY <1>1
    <2>3. PICK g \in Nat : g = Len(by)
      BY <1>1
    <2>4. PICK b \in Nat : b = a + h /\ b <= l
      BY <1>9, <1>11, <1>15, <2>1, <2>2 DEF EndsInside
    <2>5. PICK z : z = Max({g - h, h - g})
      OBVIOUS
    <2>6. z \in Nat /\ g - h <= z /\ (z <= g \/ z <= h)
      BY <2>5, Difference
    <2>7. Reachable(z + l + 1)
      <3>1. l <= MaxLength /\ z + l + 1 \in Nat
        BY <1>6, <1>11, <2>6
      <3>2. CASE z <= g
        <4>1. z + l + 1 <= 2 * MaxLength + Len(by) + 1
          BY <1>1, <2>3, <2>6, <3>1, <3>2
        <4> QED
          BY <3>1, <4>1, ReachesWith
      <3>3. CASE z <= h
        <4>1. z + l + 1 <= 2 * MaxLength + Len(needle) + 1
          BY <1>1, <2>2, <2>6, <3>1, <3>3
        <4> QED
          BY <3>1, <4>1, ReachesWith
      <3> QED
        BY <2>6, <3>2, <3>3
    <2>8. PICK to \in Nat : to = a + g
      OBVIOUS
    <2>9. PICK r : r = Reserve(m, x, z)
      OBVIOUS
    <2>10. PICK moved : moved = MovedBehind(r, x, to, b)
      OBVIOUS
    <2>11. PICK n : n = AddToCount(Put(moved, x, a, by), x, g - h)
      OBVIOUS
    <2>12. turned = [m |-> n, i |-> to, undefined |-> FALSE]
      <3>1. EndsInside(m, x, needle, a) /\ a = Find(m, x, needle, i) /\ a # -1
        BY <1>10, <1>15, <2>1
      <3> QED
        BY <1>2, <1>3, <1>4, <2>1, <2>2, <2>3, <2>4, <2>5, <2>8, <2>9, <2>10, <2>11, <3>1
           DEF ReplaceNext, MovedBehind
    <2>13. PICK c2 : c2 = Spliced(c, a, by, b)
      OBVIOUS
    <2>14. Becomes(m, n, w, x, c2)
      <3>1. l = Len(w[x])
        BY <1>8, <1>11
      <3>2. Becomes(m, AddToCount(Put(moved, x, a, by), x, g - h), w, x, Spliced(w[x], a, by, b))
        BY <1>1, <1>6, <2>3, <2>4, <2>6, <2>7, <2>8, <2>9, <2>10, <3>1, MatchMakes
      <3> QED
        BY <1>8, <2>11, <2>13, <3>2
    <2>15. [w EXCEPT ![x] = c2] = [v EXCEPT ![x] = c2]
      BY <1>5
    <2>16. a - i \in Nat /\ l - a \in Nat /\ l - b \in Nat
      BY <2>1, <2>4
    <2>17. PICK d \in Nat : d = a - i
      BY <2>16
    <2>18. PICK j \in Nat : j = l - a
      BY <2>16
    <2>19. PICK k2 \in Nat : k2 = l - b
      BY <2>16
    <2>20. a = i + d /\ k = d + j /\ j = h + k2 /\ k2 < k
      BY <1>7, <1>11, <2>1, <2>2, <2>4, <2>17, <2>18, <2>19
    <2>21. NeedleBehind(c, needle, h, a)
      <3>1. a + Len(needle) <= Len(c)
        BY <1>11, <2>2, <2>4
      <3>2. MatchMeans(m, x, needle, c, a)
        BY <1>1, <1>7, <1>9, <3>1, MatchesIs
      <3>3. MatchesAt(m, x, needle, a)
        BY <1>12, <1>15, <2>1
      <3> QED
        BY <2>2, <3>2, <3>3 DEF MatchMeans, NeedleBehind
    <2>22. NoHitAbove(u, needle, j, k)
      <3>1. PICK last \in Int : last = a - 1
        OBVIOUS
      <3>2. last = i + d - 1 /\ Misses(m, x, needle, i, last)
        BY <1>12, <1>15, <2>1, <2>20, <3>1
      <3> QED
        BY <1>1, <1>6, <1>7, <1>9, <2>20, <3>2, NoHits DEF NoHitAbove
    <2>23. PICK s \in Nat : s = Len(u)
      OBVIOUS
    <2>24. Standing(f, u, c2, to, k2)
      <3>1. /\ u \in Seq(Element) /\ needle \in Seq(Element) /\ needle # <<>> /\ by \in Seq(Element)
            /\ s \in Nat /\ s = Len(u) /\ h \in Nat /\ h = Len(needle) /\ g \in Nat /\ g = Len(by)
            /\ RewrittenUpTo(f, u, needle, by, Len(u)) /\ c \in Seq(Element) /\ i \in Nat /\ k \in Nat
            /\ Standing(f, u, c, i, k)
        BY <1>1, <1>6, <1>7, <2>2, <2>3, <2>23
      <3>2. /\ d \in Nat /\ a \in Nat /\ a = i + d /\ j \in Nat /\ k = d + j /\ k2 \in Nat /\ j = h + k2
            /\ b \in Nat /\ b = a + h /\ to \in Nat /\ to = a + g
        BY <2>4, <2>8, <2>20
      <3>3. Measured(u, needle, by, s, h, g)
        BY <3>1 DEF Measured
      <3>4. Standing(f, u, Spliced(c, a, by, b), to, k2)
        BY ZenonT(60), <2>21, <2>22, <3>1, <3>2, <3>3, StandsAfterMatch
      <3> QED
        BY <2>13, <3>4
    <2>25. Len(c2) <= MaxLength
      <3>1. Len(c2) = to + k2 /\ Len(f[Len(u)]) = to + Len(f[k2]) /\ k2 \in 0..Len(u)
        BY <2>24 DEF Standing
      <3>2. PICK y \in Nat : y = Len(f[k2])
        <4>1. f[k2] \in Seq(Element)
          BY <3>1 DEF RewrittenUpTo
        <4> QED
          BY <4>1
      <3>3. CASE h <= g
        <4>1. k2 <= y
          <5>1. Len(needle) <= Len(by)
            BY <2>2, <2>3, <3>3
          <5> QED
            BY <1>1, <3>1, <3>2, <5>1, NotShorter
        <4>2. to + y <= MaxLength
          BY <3>1, <3>2
        <4> QED
          BY <1>1, <3>1, <4>1, <4>2
      <3>4. CASE ~(h <= g)
        <4>1. to + k2 <= l
          BY <2>4, <2>8, <2>19, <3>4
        <4>2. l <= MaxLength
          BY <1>6, <1>11
        <4> QED
          BY <1>1, <3>1, <4>1, <4>2
      <3> QED
        BY <3>3, <3>4
    <2>26. Turning(turned, v, x, f, u, c2, k2)
      <3>1. turned.m = n /\ turned.i = to /\ turned = [m |-> turned.m, i |-> turned.i, undefined |-> FALSE]
        BY <2>12
      <3>2. HasAll(n, [v EXCEPT ![x] = c2]) /\ Alone(n, x)
        BY <2>14, <2>15 DEF Becomes
      <3> QED
        BY <2>24, <2>25, <3>1, <3>2 DEF Turning
    <2> QED
      BY <2>20, <2>26
  <1> QED
    BY <1>13, <1>14, <1>15

\* The turns of the loop one after the other.
Begun(m) == [m |-> m, i |-> 0, undefined |-> FALSE]
Turns(g, m, x, needle, by, n) == /\ DOMAIN g = 0..n /\ g[0] = Begun(m)
                                 /\ \A t \in 0..(n - 1) : g[t + 1] = ReplaceNext(g[t], x, needle, by)

\* There is a sequence of turns, and the loop's result is the last of them.
LEMMA TurnsExist ==
    ASSUME NEW m, NEW x, NEW needle, NEW by, NEW l \in Nat
    PROVE  \E g : Turns(g, m, x, needle, by, l)
  <1> DEFINE Counts == {n \in 0..l : \E g : Turns(g, m, x, needle, by, n)}
  <1>1. 0 \in Counts
    <2>1. PICK g : g = [t \in 0..0 |-> Begun(m)]
      OBVIOUS
    <2>2. DOMAIN g = 0..0 /\ g[0] = Begun(m) /\ 0..(0 - 1) = {}
      BY <2>1
    <2>3. Turns(g, m, x, needle, by, 0)
      BY <2>2 DEF Turns
    <2> QED
      BY <2>3
  <1>2. ASSUME NEW k \in 0..(l - 1), k \in Counts PROVE k + 1 \in Counts
    <2>1. PICK f : Turns(f, m, x, needle, by, k)
      BY <1>2
    <2>2. PICK n \in Nat : n = k + 1
      OBVIOUS
    <2>3. PICK y : y = ReplaceNext(f[k], x, needle, by)
      OBVIOUS
    <2>4. PICK g : g = [t \in 0..n |-> IF t = n THEN y ELSE f[t]]
      OBVIOUS
    <2>5. g[n] = y /\ DOMAIN g = 0..n /\ \A t \in 0..k : g[t] = f[t]
      BY <2>2, <2>4
    <2>6. g[0] = Begun(m)
      BY <2>1, <2>5 DEF Turns
    <2>7. ASSUME NEW t \in 0..(n - 1) PROVE g[t + 1] = ReplaceNext(g[t], x, needle, by)
      <3>1. t \in 0..k /\ g[t] = f[t]
        BY <2>2, <2>5
      <3>2. CASE t = k
        BY <2>2, <2>3, <2>5, <3>1, <3>2
      <3>3. CASE t # k
        <4>1. t \in 0..(k - 1) /\ t + 1 \in 0..k
          BY <3>1, <3>3
        <4> QED
          BY <2>1, <2>5, <3>1, <4>1 DEF Turns
      <3> QED
        BY <3>2, <3>3
    <2>8. Turns(g, m, x, needle, by, n)
      BY <2>5, <2>6, <2>7 DEF Turns
    <2> QED
      BY <2>2, <2>8
  <1> HIDE DEF Counts
  <1>3. \A k \in 0..l : k \in Counts
    BY <1>1, <1>2, CountUp
  <1>4. l \in Counts
    BY <1>3
  <1> QED
    BY <1>4 DEF Counts

LEMMA ReplacedAllIs ==
    ASSUME NEW m, NEW x, NEW needle, NEW by, NEW l \in Nat, m.arr[x].Count = l
    PROVE  \E g : Turns(g, m, x, needle, by, l) /\ ReplacedAll(m, x, needle, by) = g[l]
  <1> DEFINE IsIt(g) == g = [turn \in 0..m.arr[x].Count |->
                                IF turn = 0 THEN [m |-> m, i |-> 0, undefined |-> FALSE]
                                ELSE ReplaceNext(g[turn - 1], x, needle, by)]
             chosen == CHOOSE g : IsIt(g)
  <1>1. PICK f : Turns(f, m, x, needle, by, l)
    BY TurnsExist
  <1>2. PICK h : h = [turn \in 0..l |-> f[turn]]
    OBVIOUS
  <1>3. ASSUME NEW t \in 0..l
        PROVE  h[t] = IF t = 0 THEN [m |-> m, i |-> 0, undefined |-> FALSE]
                      ELSE ReplaceNext(h[t - 1], x, needle, by)
    <2>1. CASE t = 0
      BY <1>1, <1>2, <2>1 DEF Turns, Begun
    <2>2. CASE t # 0
      <3>1. PICK s \in 0..(l - 1) : s = t - 1
        BY <2>2
      <3>2. s + 1 = t /\ s \in 0..l
        BY <3>1
      <3>3. f[t] = ReplaceNext(f[s], x, needle, by)
        BY <1>1, <3>1, <3>2 DEF Turns
      <3>4. h[t] = f[t] /\ h[t - 1] = f[s]
        BY <1>2, <3>1, <3>2
      <3> QED
        BY <2>2, <3>3, <3>4
    <2> QED
      BY <2>1, <2>2
  <1>4. IsIt(h)
    <2>1. h = [t \in 0..l |-> h[t]]
      BY <1>2
    <2>2. h = [t \in 0..l |-> IF t = 0 THEN [m |-> m, i |-> 0, undefined |-> FALSE]
                               ELSE ReplaceNext(h[t - 1], x, needle, by)]
      BY <1>3, <2>1
    <2> QED
      BY <2>2
  <1>5. IsIt(chosen)
    <2> HIDE DEF IsIt
    <2> QED
      BY <1>4
  <1>6. ReplacedAll(m, x, needle, by) = chosen[m.arr[x].Count]
    BY Zenon DEF ReplacedAll
  <1>7. PICK g : g = chosen /\ IsIt(g)
    BY <1>5
  <1> HIDE DEF chosen
  <1>8. DOMAIN g = 0..l /\ g[0] = Begun(m)
    BY <1>7 DEF Begun
  <1>9. ASSUME NEW t \in 0..(l - 1) PROVE g[t + 1] = ReplaceNext(g[t], x, needle, by)
    <2>1. PICK n \in 0..l : n = t + 1 /\ n # 0 /\ n - 1 = t
      OBVIOUS
    <2>2. g[n] = ReplaceNext(g[n - 1], x, needle, by)
      BY <1>7, <2>1
    <2> QED
      BY <2>1, <2>2
  <1> HIDE DEF IsIt
  <1>10. Turns(g, m, x, needle, by, l)
    BY <1>8, <1>9 DEF Turns
  <1>11. ReplacedAll(m, x, needle, by) = g[l]
    BY <1>6, <1>7
  <1> QED
    BY <1>10, <1>11

\* After some turns: n elements at most are left, or there is no needle any more.
TurnedTo(st, v, x, f, u, needle, n) ==
    \/ st.undefined = TRUE
    \/ \E c, k : Turning(st, v, x, f, u, c, k) /\ (k <= n \/ Find(st.m, x, needle, st.i) = -1)

\* Every turn uses up an element, so that after as many turns as elements no needle is left.
LEMMA TurnedOnce ==
    ASSUME NEW v \in [Arrays -> Seq(Element)], NEW x \in Arrays, NEW u \in Seq(Element),
           NEW needle \in Needles, NEW by \in Inputs,
           NEW f, RewrittenUpTo(f, u, needle, by, Len(u)), Len(f[Len(u)]) <= MaxLength,
           NEW st, NEW n \in Nat, TurnedTo(st, v, x, f, u, needle, n + 1)
    PROVE  TurnedTo(ReplaceNext(st, x, needle, by), v, x, f, u, needle, n)
  <1>1. PICK turned : turned = ReplaceNext(st, x, needle, by)
    OBVIOUS
  <1>2. CASE st.undefined = TRUE
    <2>1. turned = st
      BY <1>1, <1>2 DEF ReplaceNext
    <2> QED
      BY <1>1, <1>2, <2>1 DEF TurnedTo
  <1>3. CASE st.undefined # TRUE
    <2>1. PICK c, k : Turning(st, v, x, f, u, c, k)
                      /\ (k <= n + 1 \/ Find(st.m, x, needle, st.i) = -1)
      BY <1>3 DEF TurnedTo
    <2>2. CASE Find(st.m, x, needle, st.i) = -1
      <3>1. turned = st
        BY <1>1, <2>2 DEF ReplaceNext
      <3> QED
        BY <1>1, <2>1, <2>2, <3>1 DEF TurnedTo
    <2>3. CASE k <= n + 1
      <3>1. \/ turned = st /\ Find(st.m, x, needle, st.i) = -1
            \/ turned.undefined = TRUE
            \/ \E c2, k2 : Turning(turned, v, x, f, u, c2, k2) /\ k2 < k
        BY <1>1, <2>1, TurnMakes
      <3>2. CASE turned = st /\ Find(st.m, x, needle, st.i) = -1
        BY <1>1, <2>1, <3>2 DEF TurnedTo
      <3>3. CASE turned.undefined = TRUE
        BY <1>1, <3>3 DEF TurnedTo
      <3>4. CASE \E c2, k2 : Turning(turned, v, x, f, u, c2, k2) /\ k2 < k
        <4>1. PICK c2, k2 : Turning(turned, v, x, f, u, c2, k2) /\ k2 < k
          BY <3>4
        <4>2. k2 \in Nat /\ k \in Nat
          BY <2>1, <4>1 DEF Turning, Standing
        <4>3. k2 <= n
          BY <2>3, <4>1, <4>2
        <4> QED
          BY <1>1, <4>1, <4>3 DEF TurnedTo
      <3> QED
        BY <3>1, <3>2, <3>3, <3>4
    <2> QED
      BY <2>1, <2>2, <2>3
  <1> QED
    BY <1>2, <1>3

LEMMA TurnsMake ==
    ASSUME NEW m, NEW v, HasAll(m, v), NEW x \in Arrays, Alone(m, x),
           NEW u \in Seq(Element), u = v[x], Len(u) <= MaxLength,
           NEW needle \in Needles, NEW by \in Inputs,
           NEW f, RewrittenUpTo(f, u, needle, by, Len(u)), Len(f[Len(u)]) <= MaxLength,
           NEW l \in Nat, l = Len(u), NEW g, Turns(g, m, x, needle, by, l)
    PROVE  TurnedTo(g[l], v, x, f, u, needle, 0)
  <1> DEFINE Good == {t \in 0..l : TurnedTo(g[t], v, x, f, u, needle, l - t)}
  <1>1. v \in [Arrays -> Seq(Element)]
    BY DEF HasAll
  <1>2. 0 \in Good
    <2>1. PICK st : st = g[0] /\ st = Begun(m)
      BY DEF Turns
    <2>2. st.m = m /\ st.i = 0 /\ st = [m |-> st.m, i |-> st.i, undefined |-> FALSE]
      BY <2>1 DEF Begun
    <2>3. [v EXCEPT ![x] = u] = v
      BY <1>1
    <2>4. Standing(f, u, u, 0, l)
      <3>1. \A p \in 1..l : 0 + p = p /\ Len(u) - l + p = p
        OBVIOUS
      <3>2. f[l] \in Seq(Element)
        <4>1. l \in 0..Len(u)
          OBVIOUS
        <4> QED
          BY <4>1 DEF RewrittenUpTo
      <3>3. PICK e \in Nat : e = Len(f[l])
        BY <3>2
      <3>4. Len(f[Len(u)]) = 0 + e /\ \A p \in 1..e : f[Len(u)][0 + p] = f[l][p]
        BY <3>3
      <3> QED
        BY <3>1, <3>3, <3>4 DEF Standing
    <2>5. Turning(st, v, x, f, u, u, l)
      BY <2>2, <2>3, <2>4 DEF Turning
    <2>6. l <= l - 0 /\ 0 \in 0..l
      OBVIOUS
    <2>7. TurnedTo(st, v, x, f, u, needle, l - 0)
      BY <2>5, <2>6 DEF TurnedTo
    <2> QED
      BY <2>1, <2>6, <2>7
  <1>3. ASSUME NEW t \in 0..(l - 1), t \in Good PROVE t + 1 \in Good
    <2>0. l - (t + 1) \in Nat
      OBVIOUS
    <2>1. PICK n \in Nat : n = l - (t + 1)
      BY <2>0
    <2>2. l - t = n + 1 /\ t + 1 \in 0..l
      BY <2>1
    <2>3. TurnedTo(g[t], v, x, f, u, needle, n + 1)
      BY <1>3, <2>2
    <2>4. TurnedTo(ReplaceNext(g[t], x, needle, by), v, x, f, u, needle, n)
      BY <1>1, <2>3, TurnedOnce
    <2>5. g[t + 1] = ReplaceNext(g[t], x, needle, by)
      BY DEF Turns
    <2> QED
      BY <2>1, <2>2, <2>4, <2>5
  <1> HIDE DEF Good
  <1>4. \A t \in 0..l : t \in Good
    BY <1>2, <1>3, CountUp
  <1>5. l \in Good /\ l - l = 0
    BY <1>4
  <1> QED
    BY <1>5 DEF Good

\* array_replace_all does what it should, unless a turn met what is undefined.
LEMMA ReplaceMakes ==
    ASSUME NEW m, NEW v, HasAll(m, v), NEW x \in Arrays, Alone(m, x), Len(v[x]) <= MaxLength,
           NEW needle \in Needles, NEW by \in Inputs,
           Len(AllReplaced(v[x], needle, by)) <= MaxLength,
           NEW done, done = ReplacedAll(m, x, needle, by), ~done.undefined
    PROVE  HasAll(done.m, [v EXCEPT ![x] = AllReplaced(v[x], needle, by)])
  <1>1. needle \in Seq(Element) /\ needle # <<>> /\ by \in Seq(Element)
    BY ArrayAssumption
  <1>2. PICK u \in Seq(Element) : u = v[x]
    BY DEF HasAll
  <1>3. PICK l \in Nat : l = Len(u)
    OBVIOUS
  <1>4. m.arr[x].Count = l
    BY <1>2, <1>3 DEF HasAll, HasAt
  <1>5. PICK f : RewrittenUpTo(f, u, needle, by, Len(u)) /\ AllReplaced(u, needle, by) = f[Len(u)]
    BY <1>1, ReplacedIs
  <1>6. PICK g : Turns(g, m, x, needle, by, l) /\ done = g[l]
    BY <1>4, ReplacedAllIs
  <1>7. TurnedTo(done, v, x, f, u, needle, 0)
    BY <1>2, <1>3, <1>5, <1>6, TurnsMake
  <1>8. PICK c, k : Turning(done, v, x, f, u, c, k)
                    /\ (k <= 0 \/ Find(done.m, x, needle, done.i) = -1)
    BY <1>7 DEF TurnedTo
  <1>9. PICK i \in Nat : i = done.i
    BY <1>8 DEF Turning, Standing
  <1>10. /\ HasAll(done.m, [v EXCEPT ![x] = c]) /\ Standing(f, u, c, i, k)
         /\ c \in Seq(Element) /\ k \in Nat /\ Len(c) = i + k
    BY <1>8, <1>9 DEF Turning, Standing
  <1>11. \A j \in 1..k : ~HitAt(u, needle, j)
    <2>1. CASE k <= 0
      BY <1>10, <2>1
    <2>2. CASE Find(done.m, x, needle, i) = -1
      <3>1. PICK n \in Nat : n = i + k
        BY <1>10
      <3>2. PICK w \in [Arrays -> Seq(Element)] : w = [v EXCEPT ![x] = c] /\ w[x] = c
        <4>1. v \in [Arrays -> Seq(Element)]
          BY DEF HasAll
        <4>2. [v EXCEPT ![x] = c] \in [Arrays -> Seq(Element)] /\ [v EXCEPT ![x] = c][x] = c
          BY <1>10, <4>1
        <4> QED
          BY <4>2
      <3>3. HasAt(done.m, x, c) /\ done.m.arr[x] \in Structs
        BY <1>10, <3>2 DEF HasAll, IsMemory
      <3>4. done.m.arr[x].Count = n
        BY <1>10, <3>1, <3>3 DEF HasAt
      <3>5. Misses(done.m, x, needle, i, n - 1)
        <4>1. PICK at : at = Find(done.m, x, needle, i) /\ at = -1
          BY <2>2
        <4>2. ~(at \in i..(n - 1))
          BY <4>1
        <4> QED
          BY <1>1, <3>4, <4>1, <4>2, FindIs
      <3>6. PICK last \in Int : last = n - 1
        OBVIOUS
      <3>7. PICK j \in Nat : j = 0
        OBVIOUS
      <3>8. k = k + j /\ last = i + k - 1 /\ Misses(done.m, x, needle, i, last)
        BY <1>10, <3>1, <3>5, <3>6, <3>7
      <3>9. \A r \in (j + 1)..k : ~HitAt(u, needle, r)
        BY <1>1, <1>10, <3>3, <3>8, NoHits
      <3>10. j + 1 = 1
        BY <3>7
      <3> QED
        BY <3>9, <3>10
    <2> QED
      BY <1>8, <1>9, <2>1, <2>2
  <1>12. c = f[Len(u)]
    BY <1>1, <1>5, <1>10, <1>11, StandsAtTheEnd
  <1> QED
    BY <1>2, <1>5, <1>10, <1>12

-----------------------------------------------------------------------------
(***************************************************************************)
(* The operations of user code.                                            *)
(***************************************************************************)
LEMMA ReachesTwice ==
    ASSUME NEW n \in Nat, n <= 2 * MaxLength + 1
    PROVE  Reachable(n)
  <1>1. PICK e \in 0..MaxPower : 2 * MaxLength < 2^e /\ 2^e \in Nat
    BY ArrayAssumption
  <1>2. PICK p \in Nat : p = 2^e
    BY <1>1
  <1>3. PICK l \in Nat : l = MaxLength
    BY ArrayAssumption
  <1>4. 2 * l < p /\ n <= 2 * l + 1
    BY <1>1, <1>2, <1>3
  <1>5. n <= p
    BY <1>4
  <1> QED
    BY <1>2, <1>5 DEF Reachable

\* What the invariant says of one array, and what is to show of the next memory.
LEMMA Held ==
    ASSUME ArrayInv, NEW x \in Arrays
    PROVE  /\ HasAll(Memory, value) /\ value \in [Arrays -> Seq(Element)]
           /\ value[x] \in Seq(Element) /\ Len(value[x]) \in Nat /\ Len(value[x]) <= MaxLength /\ MaxLength \in Nat
           /\ arr[x].Count = Len(value[x])
           /\ Unviewed(x) => Alone(Memory, x)
  <1>1. HasAll(Memory, value) /\ value \in [Arrays -> Seq(Element)] /\ Len(value[x]) <= MaxLength
    BY DEF ArrayInv, HasAll
  <1>2. Memory.arr = arr
    BY DEF Memory
  <1>3. arr[x].Count = Len(value[x])
    BY <1>1, <1>2 DEF HasAll, HasAt
  <1>4. Unviewed(x) => Alone(Memory, x)
    BY <1>2 DEF Unviewed, Alone
  <1>5. MaxLength \in Nat
    BY ArrayAssumption
  <1> QED
    BY <1>1, <1>3, <1>4, <1>5

LEMMA Stored ==
    ASSUME NEW m, NEW v, HasAll(m, v), Store(m), value' = v, \A x \in Arrays : Len(v[x]) <= MaxLength
    PROVE  ArrayInv'
  <1>1. m = [block |-> m.block, arr |-> m.arr]
    BY DEF HasAll, IsMemory
  <1>2. Memory' = m
    BY <1>1 DEF Store, Memory
  <1>3. HasAll(Memory', value')
    BY <1>2
  <1> QED
    BY <1>3 DEF ArrayInv, HasAll, HasAt, IsMemory

\* An operation that concerns one array.
LEMMA OneChanges ==
    ASSUME ArrayInv, NEW x \in Arrays, NEW s \in Seq(Element), Len(s) <= MaxLength,
           NEW m, HasAll(m, [value EXCEPT ![x] = s]), Store(m), Should(x, s)
    PROVE  ArrayInv'
  <1>1. value \in [Arrays -> Seq(Element)] /\ \A y \in Arrays : Len(value[y]) <= MaxLength
    BY DEF ArrayInv, HasAll
  <1>2. PICK v : v = [value EXCEPT ![x] = s]
    OBVIOUS
  <1>3. \A y \in Arrays : Len(v[y]) <= MaxLength
    BY <1>1, <1>2
  <1>4. value' = v
    BY <1>2 DEF Should
  <1> QED
    BY <1>2, <1>3, <1>4, Stored

\* Indices from the front and from the back mean offsets in the array.
LEMMA IndexIs ==
    ASSUME ArrayInv, NEW x \in Arrays, NEW index \in EndIndices(x)
    PROVE  /\ index \in Int /\ Index(value, x, index) \in 0..Len(value[x])
           /\ Index(value, x, index) = TranslateIndex(index, Len(value[x]))
           /\ index \in Indices(x) => Index(value, x, index) \in 0..(Len(value[x]) - 1)
  <1>1. PICK l \in Nat : l = Len(value[x])
    BY Held
  <1>2. index \in -l..l /\ (index \in Indices(x) => index \in -l..l - 1)
    BY <1>1 DEF EndIndices, Indices
  <1>3. TranslateIndex(index, l) = IF index < 0 THEN l + index ELSE index
    BY DEF TranslateIndex
  <1>4. TranslateIndex(index, l) \in 0..l
    BY <1>2, <1>3
  <1>5. index \in -l..l - 1 => TranslateIndex(index, l) \in 0..(l - 1)
    BY <1>3
  <1> QED
    BY <1>1, <1>2, <1>4, <1>5 DEF Index

LEMMA IndexIsEnd ==
    ASSUME ArrayInv, NEW x \in Arrays, NEW index \in Indices(x)
    PROVE  index \in EndIndices(x)
  <1>1. PICK l \in Nat : l = Len(value[x])
    BY Held
  <1>2. index \in -l..l - 1
    BY <1>1 DEF Indices
  <1>3. index \in -l..l
    BY <1>2
  <1> QED
    BY <1>1, <1>3 DEF EndIndices

\* What is left of v without the elements behind i up to j.
IsWithout(w, v, i, j) == /\ w = SubSeq(v, 1, i) \o SubSeq(v, j + 1, Len(v))
                         /\ w \in Seq(Element) /\ Len(w) <= Len(v)

\* Removing is putting nothing in place of a part.
LEMMA SplicedNothing ==
    ASSUME NEW v \in Seq(Element), NEW i \in Nat, NEW j \in Nat, i <= j, j <= Len(v)
    PROVE  IsWithout(Spliced(v, i, <<>>, j), v, i, j)
  <1>1. PICK s \in Seq(Element) : s = <<>> /\ Len(s) = 0
    BY EmptySeq
  <1>2. PICK l \in Nat : l = Len(v)
    OBVIOUS
  <1>3. SubSeq(v, 1, i) \in Seq(Element)
    <2>1. i <= Len(v)
      BY <1>2
    <2> QED
      BY <2>1, FirstPart
  <1>4. SubSeq(v, 1, i) \o <<>> = SubSeq(v, 1, i)
    BY <1>3, ConcatEmptySeq
  <1>5. PICK w : w = Spliced(v, i, s, j)
    OBVIOUS
  <1>6. IsSpliced(w, v, i, s, j)
    BY <1>5, SplicedIs
  <1>7. w \in Seq(Element) /\ Len(w) = i + 0 + l - j
    BY <1>1, <1>2, <1>6 DEF IsSpliced
  <1>8. Len(w) <= l
    BY <1>2, <1>7
  <1> QED
    BY <1>1, <1>2, <1>4, <1>5, <1>7, <1>8 DEF Spliced, IsWithout

\* One lemma per operation.
LEMMA InsertKeeps ==
    ASSUME ArrayInv, NEW x \in Arrays, NEW index \in EndIndices(x), NEW s \in Inputs,
           ArrayInsertAt(x, index, s)
    PROVE  ArrayInv'
  <1>1. s \in Seq(Element)
    BY ArrayAssumption
  <1>2. PICK u \in Seq(Element) : u = value[x]
    BY Held
  <1>3. PICK l \in Nat : l = Len(u) /\ l <= MaxLength /\ MaxLength \in Nat
    BY <1>2, Held
  <1>4. PICK i \in Nat : i = Index(value, x, index) /\ i <= l /\ index \in Int
    BY <1>2, <1>3, IndexIs
  <1>5. PICK m : m = InsertedAt(Memory, x, index, s)
    OBVIOUS
  <1>6. PICK k \in Nat : k = Len(s) /\ l + k <= MaxLength
    BY <1>1, <1>2, <1>3 DEF ArrayInsertAt
  <1>7. Unviewed(x) /\ Store(m) /\ Should(x, Spliced(u, i, s, i))
    BY <1>2, <1>4, <1>5 DEF ArrayInsertAt, Index, Spliced
  <1>8. Reachable(Len(s) + Len(value[x]) + 1)
    <2>1. Len(s) + Len(value[x]) + 1 = k + l + 1
      BY <1>2, <1>3, <1>6
    <2>2. k + l + 1 \in Nat /\ k + l + 1 <= 2 * MaxLength + 1
      BY <1>3, <1>6
    <2> QED
      BY <2>1, <2>2, ReachesTwice
  <1>9. HasAll(m, [value EXCEPT ![x] = Spliced(u, i, s, i)])
    <2>1. HasAll(Memory, value) /\ Alone(Memory, x)
      BY <1>7, Held
    <2>2. Index(value, x, index) \in 0..Len(value[x])
      BY IndexIs
    <2>3. Becomes(Memory, m, value, x, Spliced(value[x], Index(value, x, index), s, Index(value, x, index)))
      BY <1>1, <1>4, <1>5, <1>8, <2>1, <2>2, InsertMakes
    <2> QED
      BY <1>2, <1>4, <2>3 DEF Becomes
  <1>10. PICK w : w = Spliced(u, i, s, i)
    OBVIOUS
  <1>11. w \in Seq(Element) /\ Len(w) <= MaxLength
    <2>1. IsSpliced(w, u, i, s, i)
      BY <1>1, <1>3, <1>4, <1>10, SplicedIs
    <2>2. w \in Seq(Element) /\ Len(w) = i + k + l - i
      BY <1>3, <1>6, <2>1 DEF IsSpliced
    <2> QED
      BY <1>3, <1>4, <1>6, <2>2
  <1> QED
    BY <1>7, <1>9, <1>10, <1>11, OneChanges

LEMMA RemoveAtKeeps ==
    ASSUME ArrayInv, NEW x \in Arrays, NEW index \in Indices(x), ArrayRemoveAt(x, index)
    PROVE  ArrayInv'
  <1>1. index \in EndIndices(x)
    BY IndexIsEnd
  <1>2. PICK u \in Seq(Element) : u = value[x]
    BY Held
  <1>3. PICK l \in Nat : l = Len(u) /\ l <= MaxLength /\ MaxLength \in Nat
    BY <1>2, Held
  <1>4. Index(value, x, index) \in 0..(l - 1) /\ index \in Int
    BY <1>1, <1>2, <1>3, IndexIs
  <1>5. PICK i \in Nat : i = Index(value, x, index) /\ i < l
    BY <1>4
  <1>6. PICK j \in Nat : j = i + 1 /\ j <= l /\ i <= j
    BY <1>5
  <1>7. PICK m : m = RemovedAt(Memory, x, index)
    OBVIOUS
  <1>8. PICK w : w = Spliced(u, i, <<>>, j)
    OBVIOUS
  <1>9. w = SubSeq(u, 1, i) \o SubSeq(u, j + 1, Len(u)) /\ w \in Seq(Element) /\ Len(w) <= l /\ Len(w) \in Nat
    <2>1. i <= j /\ j <= Len(u)
      BY <1>3, <1>6
    <2>2. IsWithout(w, u, i, j)
      BY <1>8, <2>1, SplicedNothing
    <2>3. w = SubSeq(u, 1, i) \o SubSeq(u, j + 1, Len(u))
      BY <2>2 DEF IsWithout
    <2>w. w \in Seq(Element)
      BY <2>2 DEF IsWithout
    <2>4. Len(w) <= l
      BY <1>3, <2>2 DEF IsWithout
    <2>5. Len(w) \in Nat
      BY <2>w
    <2> QED
      BY <2>3, <2>4, <2>5, <2>w
  <1>10. RemoveAt(u, j) = w
    <2>1. j - 1 = i
      BY <1>6
    <2> QED
      BY <1>9, <2>1 DEF RemoveAt
  <1>11. Unviewed(x) /\ Store(m) /\ Should(x, w)
    <2>1. TranslateIndex(index, Len(value[x])) + 1 = j
      BY <1>5, <1>6 DEF Index
    <2> QED
      BY <1>2, <1>7, <1>10, <2>1 DEF ArrayRemoveAt
  <1>12. Reachable(Len(value[x]) + 1)
    <2>1. l + 1 \in Nat /\ l + 1 <= 2 * MaxLength + 1
      BY <1>3
    <2> QED
      BY <1>2, <1>3, <2>1, ReachesTwice
  <1>13. HasAll(m, [value EXCEPT ![x] = w])
    <2>1. HasAll(Memory, value) /\ Alone(Memory, x)
      BY <1>11, Held
    <2>2. Index(value, x, index) \in 0..(Len(value[x]) - 1)
      BY <1>2, <1>3, <1>4
    <2>3. Becomes(Memory, m, value, x,
                  Spliced(value[x], Index(value, x, index), <<>>, Index(value, x, index) + 1))
      BY <1>4, <1>7, <1>12, <2>1, <2>2, RemoveAtMakes
    <2> QED
      BY <1>2, <1>5, <1>6, <1>8, <2>3 DEF Becomes
  <1>14. Len(w) <= MaxLength
    <2>1. PICK n \in Nat : n = Len(w)
      BY <1>9
    <2>2. n <= l /\ l <= MaxLength /\ MaxLength \in Nat
      BY <1>3, <1>9, <2>1
    <2>3. n <= MaxLength
      BY <2>2
    <2> QED
      BY <2>1, <2>3
  <1> QED
    BY <1>9, <1>11, <1>13, <1>14, OneChanges

LEMMA RemoveUnorderedKeeps ==
    ASSUME ArrayInv, NEW x \in Arrays, NEW index \in Indices(x), ArrayRemoveUnordered(x, index)
    PROVE  ArrayInv'
  <1>1. index \in EndIndices(x)
    BY IndexIsEnd
  <1>2. PICK u \in Seq(Element) : u = value[x]
    BY Held
  <1>3. PICK l \in Nat : l = Len(u) /\ l <= MaxLength /\ MaxLength \in Nat
    BY <1>2, Held
  <1>4. Index(value, x, index) \in 0..(l - 1) /\ index \in Int
    BY <1>1, <1>2, <1>3, IndexIs
  <1>5. PICK i \in Nat : i = Index(value, x, index) /\ i < l
    BY <1>4
  <1>6. PICK j \in 1..l : j = i + 1
    BY <1>5
  <1>7. PICK m : m = RemovedUnordered(Memory, x, index)
    OBVIOUS
  <1>8. l - 1 \in Nat
    BY <1>5
  <1>9. PICK n \in Nat : n = l - 1
    BY <1>8
  <1>10. PICK e \in Element : e = u[l] /\ e = Last(u)
    BY <1>3, <1>6 DEF Last
  <1>11. PICK t \in Seq(Element) : t = [u EXCEPT ![j] = e] /\ Len(t) = l /\ t[j] = e /\ \A p \in 1..l : p # j => t[p] = u[p]
    <2>1. /\ [u EXCEPT ![j] = e] \in Seq(Element) /\ Len([u EXCEPT ![j] = e]) = l /\ [u EXCEPT ![j] = e][j] = e
          /\ \A p \in 1..l : p # j => [u EXCEPT ![j] = e][p] = u[p]
      BY <1>3, ExceptSeq
    <2> QED
      BY <2>1
  <1>12. PICK w \in Seq(Element) : w = SubSeq(t, 1, n) /\ Len(w) = n /\ \A p \in 1..n : w[p] = t[p]
    <2>1. n <= Len(t)
      BY <1>9, <1>11
    <2> QED
      BY <2>1, FirstPart
  <1>13. Front(ReplaceAt(u, j, Last(u))) = w
    BY <1>9, <1>10, <1>11, <1>12 DEF Front, ReplaceAt
  <1>14. LastMovedTo(w, u, i)
    <2>1. ASSUME NEW p \in 1..n PROVE w[p] = IF p = i + 1 THEN u[n + 1] ELSE u[p]
      <3>1. w[p] = t[p] /\ p \in 1..l /\ n + 1 = l /\ j = i + 1
        BY <1>6, <1>9, <1>12
      <3>2. CASE p = j
        BY <1>10, <1>11, <3>1, <3>2
      <3>3. CASE p # j
        BY <1>11, <3>1, <3>3
      <3> QED
        BY <3>2, <3>3
    <2> QED
      BY <1>3, <1>9, <1>12, <2>1 DEF LastMovedTo
  <1>15. Unviewed(x) /\ Store(m) /\ Should(x, w)
    <2>1. TranslateIndex(index, Len(value[x])) + 1 = j
      BY <1>5, <1>6 DEF Index
    <2> QED
      BY <1>2, <1>7, <1>13, <2>1 DEF ArrayRemoveUnordered
  <1>16. Reachable(Len(value[x]) + 1)
    <2>1. l + 1 \in Nat /\ l + 1 <= 2 * MaxLength + 1
      BY <1>3
    <2> QED
      BY <1>2, <1>3, <2>1, ReachesTwice
  <1>17. HasAll(m, [value EXCEPT ![x] = w])
    <2>1. HasAll(Memory, value) /\ Alone(Memory, x)
      BY <1>15, Held
    <2>2. i < Len(value[x]) /\ LastMovedTo(w, value[x], i)
      BY <1>2, <1>3, <1>5, <1>14
    <2>3. Becomes(Memory, m, value, x, w)
      BY <1>4, <1>5, <1>7, <1>16, <2>1, <2>2, RemoveUnorderedMakes
    <2> QED
      BY <2>3 DEF Becomes
  <1>18. Len(w) <= MaxLength
    BY <1>3, <1>9, <1>12
  <1> QED
    BY <1>15, <1>17, <1>18, OneChanges

LEMMA RemoveRangeKeeps ==
    ASSUME ArrayInv, NEW x \in Arrays, NEW begin \in Indices(x), NEW end \in EndIndices(x),
           ArrayRemoveRange(x, begin, end)
    PROVE  ArrayInv'
  <1>1. begin \in EndIndices(x)
    BY IndexIsEnd
  <1>2. PICK u \in Seq(Element) : u = value[x]
    BY Held
  <1>3. PICK l \in Nat : l = Len(u) /\ l <= MaxLength /\ MaxLength \in Nat
    BY <1>2, Held
  <1>4. PICK i \in Nat : i = Index(value, x, begin) /\ i <= l /\ begin \in Int
    BY <1>1, <1>2, <1>3, IndexIs
  <1>5. PICK j \in Nat : j = Index(value, x, end) /\ j <= l /\ end \in Int
    BY <1>2, <1>3, IndexIs
  <1>6. i <= j
    BY <1>4, <1>5 DEF ArrayRemoveRange, Index
  <1>7. PICK m : m = RemovedRange(Memory, x, begin, end)
    OBVIOUS
  <1>8. PICK w : w = Spliced(u, i, <<>>, j)
    OBVIOUS
  <1>9. w = SubSeq(u, 1, i) \o SubSeq(u, j + 1, Len(u)) /\ w \in Seq(Element) /\ Len(w) <= l /\ Len(w) \in Nat
    <2>1. j <= Len(u)
      BY <1>3, <1>5
    <2>2. IsWithout(w, u, i, j)
      BY <1>6, <1>8, <2>1, SplicedNothing
    <2>3. w = SubSeq(u, 1, i) \o SubSeq(u, j + 1, Len(u))
      BY <2>2 DEF IsWithout
    <2>w. w \in Seq(Element)
      BY <2>2 DEF IsWithout
    <2>4. Len(w) <= l
      BY <1>3, <2>2 DEF IsWithout
    <2>5. Len(w) \in Nat
      BY <2>w
    <2> QED
      BY <2>3, <2>4, <2>5, <2>w
  <1>10. Unviewed(x) /\ Store(m) /\ Should(x, w)
    BY <1>2, <1>4, <1>5, <1>7, <1>9 DEF ArrayRemoveRange, Index
  <1>11. Reachable(Len(value[x]) + 1)
    <2>1. l + 1 \in Nat /\ l + 1 <= 2 * MaxLength + 1
      BY <1>3
    <2> QED
      BY <1>2, <1>3, <2>1, ReachesTwice
  <1>12. HasAll(m, [value EXCEPT ![x] = w])
    <2>1. HasAll(Memory, value) /\ Alone(Memory, x)
      BY <1>10, Held
    <2>2. /\ Index(value, x, begin) \in 0..Len(value[x]) /\ Index(value, x, end) \in 0..Len(value[x])
          /\ Index(value, x, begin) <= Index(value, x, end)
      BY <1>2, <1>3, <1>4, <1>5, <1>6
    <2>3. Becomes(Memory, m, value, x, Spliced(value[x], Index(value, x, begin), <<>>, Index(value, x, end)))
      BY <1>4, <1>5, <1>7, <1>11, <2>1, <2>2, RemoveRangeMakes
    <2> QED
      BY <1>2, <1>4, <1>5, <1>8, <2>3 DEF Becomes
  <1>13. Len(w) <= MaxLength
    <2>1. PICK n \in Nat : n = Len(w)
      BY <1>9
    <2>2. n <= l /\ l <= MaxLength /\ MaxLength \in Nat
      BY <1>3, <1>9, <2>1
    <2>3. n <= MaxLength
      BY <2>2
    <2> QED
      BY <2>1, <2>3
  <1> QED
    BY <1>9, <1>10, <1>12, <1>13, OneChanges

LEMMA SetKeeps ==
    ASSUME ArrayInv, NEW x \in Arrays, NEW index \in Indices(x), NEW e \in Element,
           ArraySet(x, index, e)
    PROVE  ArrayInv'
  <1>1. index \in EndIndices(x)
    BY IndexIsEnd
  <1>2. HasAll(Memory, value) /\ \A y \in Arrays : Len(value[y]) <= MaxLength
    BY DEF ArrayInv
  <1>3. PICK l \in Nat : l = Len(value[x])
    BY Held
  <1>4. PICK i \in Nat : i = TranslateIndex(index, Len(value[x])) /\ i < l
    BY <1>1, <1>3, IndexIs
  <1>5. PICK q : q = Memory.arr[x].first + i + 1
    OBVIOUS
  <1>6. PICK m : m = Put(Memory, x, i, <<e>>)
    OBVIOUS
  <1>7. PICK v : v = SetIn(Memory.arr, value, Memory.arr[x].of, q, e)
    OBVIOUS
  <1>8. HasAll(m, v) /\ \A y \in Arrays : Len(v[y]) = Len(value[y])
    BY <1>2, <1>3, <1>4, <1>5, <1>6, <1>7, SetMakes
  <1>9. Memory.arr = arr
    BY DEF Memory
  <1>10. Store(m) /\ value' = v
    <2>1. v = SetIn(arr, value, arr[x].of, arr[x].first + i + 1, e)
      BY <1>5, <1>7, <1>9
    <2>2. /\ Store(m)
          /\ value' = [y \in Arrays |->
                          IF arr[y].of = arr[x].of /\ arr[x].first + i + 1 - arr[y].first \in DOMAIN value[y]
                           THEN [value[y] EXCEPT ![arr[x].first + i + 1 - arr[y].first] = e] ELSE value[y]]
      BY <1>4, <1>6 DEF ArraySet
    <2>3. DOMAIN v = Arrays /\ DOMAIN (value') = Arrays /\ v = [y \in Arrays |-> v[y]] /\ value' = [y \in Arrays |-> (value')[y]]
      BY <2>1, <2>2 DEF SetIn
    <2>4. PICK first : first = arr[x].first + i + 1
      OBVIOUS
    <2>5. ASSUME NEW y \in Arrays PROVE v[y] = (value')[y]
      <3>1. v[y] = IF arr[y].of = arr[x].of /\ first - arr[y].first \in DOMAIN value[y]
                   THEN [value[y] EXCEPT ![first - arr[y].first] = e] ELSE value[y]
        BY <2>1, <2>4 DEF SetIn
      <3>2. (value')[y] = IF arr[y].of = arr[x].of /\ first - arr[y].first \in DOMAIN value[y]
                          THEN [value[y] EXCEPT ![first - arr[y].first] = e] ELSE value[y]
        <4>1. (value')[y] = IF arr[y].of = arr[x].of /\ arr[x].first + i + 1 - arr[y].first \in DOMAIN value[y]
                            THEN [value[y] EXCEPT ![arr[x].first + i + 1 - arr[y].first] = e] ELSE value[y]
          BY <2>2, Zenon
        <4>2. arr[x].first + i + 1 - arr[y].first = first - arr[y].first
          <5>1. arr \in [Arrays -> Structs]
            BY <1>2, <1>9 DEF HasAll, IsMemory
          <5>2. arr[x].first \in Nat /\ arr[y].first \in Nat
            BY <5>1 DEF Structs
          <5> QED
            BY <2>4, <5>2
        <4> QED
          BY <4>1, <4>2, Zenon
      <3> QED
        BY <3>1, <3>2
    <2> QED
      BY <2>2, <2>3, <2>5
  <1>11. \A y \in Arrays : Len(v[y]) <= MaxLength
    BY <1>2, <1>8
  <1> QED
    BY <1>8, <1>10, <1>11, Stored

LEMMA ReplaceKeeps ==
    ASSUME ArrayInv, NEW x \in Arrays, NEW needle \in Needles, NEW by \in Inputs,
           ArrayReplaceAll(x, needle, by)
    PROVE  ArrayInv'
  <1>1. PICK done : done = ReplacedAll(Memory, x, needle, by)
    OBVIOUS
  <1>2. PICK w : w = AllReplaced(value[x], needle, by)
    OBVIOUS
  <1>3. /\ Unviewed(x) /\ ~done.undefined /\ Len(w) <= MaxLength
        /\ Store(done.m) /\ Should(x, w)
    BY <1>1, <1>2 DEF ArrayReplaceAll
  <1>4. HasAll(Memory, value) /\ Alone(Memory, x) /\ Len(value[x]) <= MaxLength
    BY <1>3, Held
  <1>5. HasAll(done.m, [value EXCEPT ![x] = w])
    BY <1>1, <1>2, <1>3, <1>4, ReplaceMakes
  <1>6. w \in Seq(Element)
    <2>1. PICK u \in Seq(Element) : u = value[x]
      BY Held
    <2>2. needle \in Seq(Element) /\ needle # <<>> /\ by \in Seq(Element)
      BY ArrayAssumption
    <2>3. PICK f : RewrittenUpTo(f, u, needle, by, Len(u)) /\ w = f[Len(u)]
      BY <1>2, <2>1, <2>2, ReplacedIs
    <2>4. Len(u) \in 0..Len(u)
      OBVIOUS
    <2> QED
      BY <2>3, <2>4 DEF RewrittenUpTo
  <1> QED
    BY <1>3, <1>5, <1>6, OneChanges

LEMMA ReserveKeepsAll ==
    ASSUME ArrayInv, NEW x \in Arrays, NEW n \in 0..MaxLength, ArrayReserve(x, n)
    PROVE  ArrayInv'
  <1>1. PICK l \in Nat : l = Len(value[x]) /\ l <= MaxLength /\ MaxLength \in Nat
    BY Held
  <1>2. PICK m : m = Reserve(Memory, x, n)
    OBVIOUS
  <1>3. Unviewed(x) /\ Store(m) /\ value' = value /\ n \in Nat
    BY <1>1, <1>2 DEF ArrayReserve
  <1>4. Reachable(n + Len(value[x]) + 1)
    <2>1. n + l + 1 \in Nat /\ n + l + 1 <= 2 * MaxLength + 1
      BY <1>1, <1>3
    <2> QED
      BY <1>1, <2>1, ReachesTwice
  <1>5. HasAll(Memory, value) /\ Alone(Memory, x)
    BY <1>3, Held
  <1>6. HasAll(m, value)
    BY <1>2, <1>3, <1>4, <1>5, ReserveKeeps
  <1>7. \A y \in Arrays : Len(value[y]) <= MaxLength
    BY DEF ArrayInv
  <1> QED
    BY <1>3, <1>6, <1>7, Stored

\* Both leave nothing in an array; one of them frees its block.
LEMMA EmptyKeeps ==
    ASSUME ArrayInv, NEW x \in Arrays, ArrayReset(x) \/ Free(x)
    PROVE  ArrayInv'
  <1>1. PICK s \in Seq(Element) : s = <<>> /\ Len(s) = 0
    BY EmptySeq
  <1>2. Unviewed(x) /\ Should(x, s)
    BY <1>1 DEF ArrayReset, Free
  <1>3. HasAll(Memory, value) /\ Alone(Memory, x)
    BY <1>2, Held
  <1>4. MaxLength \in Nat /\ Len(s) <= MaxLength
    BY <1>1, Held
  <1>5. PICK m : m = WithoutElements(Memory, x)
    OBVIOUS
  <1>6. PICK n : n = [block |-> [block EXCEPT ![x] = <<>>], arr |-> [arr EXCEPT ![x] = NoData]]
    OBVIOUS
  <1>7. HasAll(m, [value EXCEPT ![x] = s]) /\ HasAll(n, [value EXCEPT ![x] = s])
    <2>1. Memory.block = block /\ Memory.arr = arr
      BY DEF Memory
    <2> QED
      BY <1>1, <1>3, <1>5, <1>6, <2>1, EmptyMakes DEF Becomes
  <1>8. Store(m) \/ Store(n)
    BY <1>5, <1>6 DEF ArrayReset, Free
  <1> QED
    BY <1>2, <1>4, <1>7, <1>8, OneChanges

\* What an array looks like to Clone.
LEMMA ContentsAre ==
    ASSUME NEW m, NEW v, HasAll(m, v), NEW x \in Arrays
    PROVE  Contents(m, x) = v[x]
  <1>1. HasAt(m, x, v[x]) /\ m.arr[x] \in Structs /\ v[x] \in Seq(Element)
    BY DEF HasAll, IsMemory
  <1>2. PICK l \in Nat : l = Len(v[x])
    BY <1>1
  <1>3. PICK a \in Nat : a = m.arr[x].first
    BY <1>1 DEF Structs
  <1>4. m.arr[x].Count = l /\ \A i \in 1..l : m.block[m.arr[x].of][a + i] = v[x][i]
    BY <1>1, <1>2, <1>3 DEF HasAt
  <1>5. \A i \in 1..l : Cell(m, x, 0 + i - 1) = v[x][i]
    <2> TAKE i \in 1..l
    <2>1. a + (0 + i - 1) + 1 = a + i
      OBVIOUS
    <2> QED
      BY <1>3, <1>4, <2>1 DEF Cell
  <1>6. Contents(m, x) = [i \in 1..l |-> v[x][i]]
    BY <1>4, <1>5 DEF Contents, Elements
  <1> QED
    BY <1>1, <1>2, <1>6

LEMMA CloneKeeps ==
    ASSUME ArrayInv, NEW dest \in Arrays, NEW src \in Arrays, Clone(dest, src)
    PROVE  ArrayInv'
  <1>1. PICK s \in Seq(Element) : s = value[src]
    BY Held
  <1>2. PICK l \in Nat : l = Len(s) /\ l <= MaxLength /\ MaxLength \in Nat
    BY <1>1, Held
  <1>3. Unviewed(dest)
    BY DEF Clone
  <1>4. HasAll(Memory, value) /\ Alone(Memory, dest) /\ value \in [Arrays -> Seq(Element)]
    BY <1>3, Held
  <1>5. PICK none \in Seq(Element) : none = <<>> /\ Len(none) = 0
    BY EmptySeq
  <1>6. PICK m0 : m0 = WithoutElements(Memory, dest)
    OBVIOUS
  <1>7. PICK v0 : v0 = [value EXCEPT ![dest] = none]
    OBVIOUS
  <1>8. HasAll(m0, v0) /\ Alone(m0, dest)
    BY <1>4, <1>5, <1>6, <1>7, EmptyMakes DEF Becomes
  <1>9. PICK m : m = InsertedAt(m0, dest, 0, s)
    OBVIOUS
  <1>10. v0[dest] = none
    BY <1>4, <1>7
  <1>11. Index(v0, dest, 0) = 0
    BY <1>10 DEF Index, TranslateIndex
  <1>12. Reachable(Len(s) + Len(v0[dest]) + 1)
    <2>1. Len(s) + Len(v0[dest]) + 1 = l + 1
      BY <1>2, <1>5, <1>10
    <2>2. l + 1 \in Nat /\ l + 1 <= 2 * MaxLength + 1
      BY <1>2
    <2> QED
      BY <2>1, <2>2, ReachesTwice
  <1>13. Becomes(m0, m, v0, dest, Spliced(none, 0, s, 0))
    <2>1. Index(v0, dest, 0) \in 0..Len(v0[dest]) /\ 0 \in Int
      BY <1>5, <1>10, <1>11
    <2>2. Becomes(m0, m, v0, dest, Spliced(v0[dest], Index(v0, dest, 0), s, Index(v0, dest, 0)))
      BY <1>8, <1>9, <1>12, <2>1, InsertMakes
    <2> QED
      BY <1>10, <1>11, <2>2
  <1>14. Spliced(none, 0, s, 0) = s
    <2>1. SubSeq(none, 1, 0) = <<>> /\ SubSeq(none, 0 + 1, Len(none)) = <<>>
      BY <1>5, SubSeqEmpty
    <2>2. <<>> \o s = s /\ s \o <<>> = s
      BY ConcatEmptySeq
    <2> QED
      BY <2>1, <2>2 DEF Spliced
  <1>15. [v0 EXCEPT ![dest] = s] = [value EXCEPT ![dest] = s]
    BY <1>4, <1>7
  <1>16. HasAll(m, [value EXCEPT ![dest] = s])
    BY <1>13, <1>14, <1>15 DEF Becomes
  <1>17. Contents(Memory, src) = s
    BY <1>1, <1>4, ContentsAre
  <1>18. Store(m) /\ Should(dest, s)
    BY <1>1, <1>6, <1>9, <1>17 DEF Clone
  <1> QED
    BY <1>2, <1>16, <1>18, OneChanges

LEMMA ViewKeeps ==
    ASSUME ArrayInv, NEW x \in Arrays, NEW y \in Arrays, NEW o \in 0..MaxLength, NEW n \in 1..MaxLength,
           MakeView(x, y, o, n)
    PROVE  ArrayInv'
  <1>1. MaxLength \in Nat /\ HasAll(Memory, value) /\ arr[y].Count = Len(value[y])
    BY Held
  <1>2. PICK w : w = SubSeq(value[y], o + 1, o + n)
    OBVIOUS
  <1>3. PICK m : m = [block |-> block,
                      arr |-> [arr EXCEPT ![x] = [of |-> y, first |-> o, Count |-> n, Allocated |-> 0]]]
    OBVIOUS
  <1>4. /\ arr[x].Allocated = 0 /\ arr[y].Allocated # 0 /\ o + n <= Len(value[y])
        /\ Store(m) /\ Should(x, w)
    BY <1>1, <1>2, <1>3 DEF MakeView, Store
  <1>5. Memory.block = block /\ Memory.arr = arr
    BY DEF Memory
  <1>6. o \in Nat /\ n \in Nat /\ n <= MaxLength
    BY <1>1
  <1>7. HasAll(m, [value EXCEPT ![x] = w]) /\ w \in Seq(Element) /\ Len(w) = n
    <2>1. Memory.arr[x].Allocated = 0 /\ Memory.arr[y].Allocated # 0
      BY <1>4, <1>5
    <2>2. m = [block |-> Memory.block,
               arr |-> [Memory.arr EXCEPT ![x] = [of |-> y, first |-> o, Count |-> n, Allocated |-> 0]]]
      BY <1>3, <1>5
    <2>3. Views(Memory, value, x, y, o, n, w)
      <3>1. IsPart(w, value[y], o, n)
        BY <1>2 DEF IsPart
      <3>2. CanView(Memory, value, x, y, o, n, w)
        BY <1>1, <1>4, <1>6, <2>1, <3>1 DEF CanView
      <3> QED
        BY <3>2, ViewMakes
    <2> QED
      BY <2>2, <2>3 DEF Views, WithView
  <1> QED
    BY <1>4, <1>6, <1>7, OneChanges

-----------------------------------------------------------------------------
\* No array has a block at first, and every array is empty.
LEMMA ArrayInit == Init => ArrayInv
  <1> SUFFICES ASSUME Init
               PROVE  ArrayInv
    OBVIOUS
  <1>1. PICK s \in Seq(Element) : s = <<>> /\ Len(s) = 0
    BY EmptySeq
  <1>2. <<>> \in Seq(ArrayCells)
    BY EmptySeq
  <1>3. /\ Memory = [block |-> block, arr |-> arr]
        /\ Memory.block = [x \in Arrays |-> <<>>]
        /\ Memory.arr = [x \in Arrays |-> [of |-> Nobody, first |-> 0, Count |-> 0, Allocated |-> 0]]
    BY DEF Init, Memory, NoData
  <1>4. value = [x \in Arrays |-> s]
    BY <1>1 DEF Init
  <1>5. \A x \in Arrays : HasAt(Memory, x, value[x])
    BY <1>1, <1>3, <1>4 DEF HasAt
  <1>6. IsMemory(Memory)
    <2>1. Memory.block \in Blocks
      BY <1>2, <1>3 DEF Blocks
    <2>2. Memory.arr \in [Arrays -> Structs]
      BY <1>3 DEF Structs
    <2>3. Memory = [block |-> Memory.block, arr |-> Memory.arr]
      BY DEF Memory
    <2> QED
      BY <2>1, <2>2, <2>3 DEF IsMemory
  <1>7. MaxLength \in Nat
    BY ArrayAssumption
  <1> QED
    BY <1>1, <1>4, <1>5, <1>6, <1>7 DEF ArrayInv, HasAll

\* Every operation keeps the invariant, and the invariant says what ContentsAgree does.
LEMMA ArrayStep ==
    ASSUME ArrayInv, Next
    PROVE  ArrayInv'
  <1>1. PICK x \in Arrays : Operation(x)
    BY DEF Next
  <1>2. CASE \E i \in EndIndices(x), s \in Inputs : ArrayInsertAt(x, i, s)
    BY <1>2, InsertKeeps
  <1>3. CASE \E i \in Indices(x) : ArrayRemoveAt(x, i) \/ ArrayRemoveUnordered(x, i)
    BY <1>3, RemoveAtKeeps, RemoveUnorderedKeeps
  <1>4. CASE \E i \in Indices(x), j \in EndIndices(x) : ArrayRemoveRange(x, i, j)
    BY <1>4, RemoveRangeKeeps
  <1>5. CASE \E i \in Indices(x), e \in Element : ArraySet(x, i, e)
    BY <1>5, SetKeeps
  <1>6. CASE \E needle \in Needles, s \in Inputs : ArrayReplaceAll(x, needle, s)
    BY <1>6, ReplaceKeeps
  <1>7. CASE \E n \in 0..MaxLength : ArrayReserve(x, n)
    BY <1>7, ReserveKeepsAll
  <1>8. CASE ArrayReset(x) \/ Free(x)
    BY <1>8, EmptyKeeps
  <1>9. CASE \E y \in Arrays : Clone(x, y)
    BY <1>9, CloneKeeps
  <1>10. CASE \E y \in Arrays : \E o \in 0..MaxLength, n \in 1..MaxLength : MakeView(x, y, o, n)
    BY <1>10, ViewKeeps
  <1> QED
    BY <1>1, <1>2, <1>3, <1>4, <1>5, <1>6, <1>7, <1>8, <1>9, <1>10 DEF Operation

LEMMA ArrayAgrees == ArrayInv => ContentsAgree
  <1> SUFFICES ASSUME ArrayInv, NEW x \in Arrays
               PROVE  Contents(Memory, x) = value[x]
    BY DEF ContentsAgree
  <1> QED
    BY ContentsAre DEF ArrayInv

-----------------------------------------------------------------------------
(***************************************************************************)
(* In the whole system only a step of an array changes an array.           *)
(***************************************************************************)
LEMMA ArrayUnchanged ==
    ASSUME ArrayInv, UNCHANGED vars
    PROVE  ArrayInv'
  <1>1. block' = block /\ arr' = arr /\ value' = value
    BY DEF vars
  <1>2. Memory' = Memory
    BY <1>1 DEF Memory
  <1> QED
    BY <1>1, <1>2 DEF ArrayInv, HasAll, HasAt, IsMemory

\* array.h: whatever arrays, elements, searched and inserted sequences there are and however
\* inserting, removing, replacing, setting, reserving, resetting, freeing, cloning and views of
\* other arrays follow each other, every array has the elements the operations should have left:
\* a view never changes the array it looks at unless an element is set through it.
THEOREM ArraysHoldTheirValues == Spec => []ContentsAgree
  <1>1. Init => ArrayInv
    BY ArrayInit
  <1>2. ArrayInv => ContentsAgree
    BY ArrayAgrees DEF ContentsAgree
  <1>3. ArrayInv /\ [Next]_vars => ArrayInv'
    BY ArrayStep, ArrayUnchanged
  <1> QED
    BY <1>1, <1>2, <1>3, PTL DEF Spec

-----------------------------------------------------------------------------
(***************************************************************************)
(* The instances of MCSystem: the bytes of a stack dynamic buffer are      *)
(* Element, what user code inserts is Inputs, and fresh memory holds       *)
(* Fresh.                                                                  *)
(***************************************************************************)
CONSTANTS Buffer, Base, NoBuffer, BUFFER_SIZE, Texts, MaxBuilt, MaxIndirections,
          StackSize, MinimumBlock, MaxHeld

VARIABLES buffers, live, builder, written,
          data, allocated, count, held

Building == INSTANCE StringBuilder
Growing == INSTANCE StackDynamicBuffer WITH Garbage <- Fresh, Inserts <- Inputs

-----------------------------------------------------------------------------
(***************************************************************************)
(* The stack dynamic buffer.                                               *)
(***************************************************************************)
\* The cells d hold h, and there are as many as the buffer takes them for; a block is larger than
\* the cells in the buffer.
Buffered(d, a, h) ==
    /\ h \in Seq(Element) /\ Len(h) <= MaxHeld /\ HoldsFirst(d, h)
    /\ a \in Nat /\ (a # 0 => StackSize < a)
    /\ d # <<>> => Len(d) = IF a = 0 THEN StackSize ELSE a

\* The inductive invariant.
BufferInv == Buffered(data, allocated, held) /\ count = Len(held)

\* reserve computes a number that is large enough.
LEMMA BlockReaches ==
    ASSUME Growing!BufferAssumption, NEW x \in Nat, x # 0, x <= 2 * MaxHeld + 1
    PROVE  Growing!CeilPowOf2(x) \in Nat /\ x <= Growing!CeilPowOf2(x)
  <1>1. MaxHeld \in Nat /\ \A i \in 0..2 * MaxHeld + 1 : 2^i \in Nat
    BY DEF Growing!BufferAssumption
  <1>2. CASE x <= 1
    BY <1>2 DEF Growing!CeilPowOf2
  <1>3. CASE x > 1
    <2>1. x \in 2..2 * MaxHeld + 1
      BY <1>1, <1>3
    <2>2. PICK i \in 0..x : x <= 2^i /\ 2^i < 2 * x
      BY <2>1 DEF Growing!BufferAssumption
    <2>3. \E p \in {2^e : e \in 0..x} : x <= p /\ p < 2 * x
      BY <2>2
    <2>4. Growing!CeilPowOf2(x) \in {2^e : e \in 0..x} /\ x <= Growing!CeilPowOf2(x)
      BY <1>3, <2>3 DEF Growing!CeilPowOf2
    <2>5. \A e \in 0..x : e \in 0..2 * MaxHeld + 1
      BY <1>1
    <2>6. PICK e \in 0..x : Growing!CeilPowOf2(x) = 2^e
      BY <2>4
    <2>7. 2^e \in Nat
      BY <1>1, <2>5
    <2> QED
      BY <2>4, <2>6, <2>7
  <1> QED
    BY <1>2, <1>3

\* The cells reserve chooses hold what the buffer held, and are at least as many as it was told.
LEMMA ReservedHolds ==
    ASSUME Growing!BufferAssumption, BufferInv, NEW n \in Nat, n <= MaxHeld, Growing!Reserved(n) # <<>>
    PROVE  /\ Buffered(Growing!Reserved(n), Growing!Allocated(n), held)
           /\ n <= Len(Growing!Reserved(n))
  <1>1. /\ held \in Seq(Element) /\ Len(held) <= MaxHeld /\ HoldsFirst(data, held)
        /\ allocated \in Nat /\ (allocated # 0 => StackSize < allocated)
        /\ data # <<>> => Len(data) = IF allocated = 0 THEN StackSize ELSE allocated
        /\ count = Len(held)
    BY DEF BufferInv, Buffered
  <1>2. StackSize \in Nat /\ MinimumBlock \in Nat /\ MaxHeld \in Nat
    BY DEF Growing!BufferAssumption
  <1>3. PICK k \in Nat : k = count /\ k = Len(held) /\ k <= MaxHeld
    BY <1>1
  <1>4. data \in Seq(ArrayCells) /\ k <= Len(data) /\ \A i \in 1..k : data[i] = held[i]
    BY <1>1, <1>3 DEF HoldsFirst
  <1>5. CASE Growing!Suffices(n)
    <2>1. Growing!Reserved(n) = data /\ Growing!Allocated(n) = allocated
      BY <1>5 DEF Growing!Reserved, Growing!Allocated
    <2>2. n < StackSize \/ k + n < allocated
      BY <1>3, <1>5 DEF Growing!Suffices
    <2>3. Len(data) = IF allocated = 0 THEN StackSize ELSE allocated
      BY <1>1, <2>1
    <2>4. n <= Len(data)
      BY <1>1, <1>2, <1>3, <2>2, <2>3
    <2> QED
      BY <1>1, <2>1, <2>4 DEF Buffered
  <1>6. CASE ~Growing!Suffices(n)
    <2>1. PICK x \in Nat : x = n + k + 1 /\ x # 0
      OBVIOUS
    <2>2. x <= 2 * MaxHeld + 1
      BY <1>2, <1>3, <2>1
    <2>3. PICK power \in Nat : power = Growing!CeilPowOf2(x) /\ x <= power
      BY <2>1, <2>2, BlockReaches
    <2>4. PICK m \in Nat : m = Max({power, MinimumBlock}) /\ power <= m
      <3>1. PICK t \in {power, MinimumBlock} : t >= power /\ t >= MinimumBlock
        BY <1>2
      <3>2. \A q \in {power, MinimumBlock} : q <= t
        BY <1>2, <3>1
      <3>3. Max({power, MinimumBlock}) \in {power, MinimumBlock} /\ Max({power, MinimumBlock}) >= power
        BY <3>1, <3>2 DEF Max
      <3> QED
        BY <1>2, <3>3
    <2>5. PICK kept : kept = IF allocated # 0 THEN data ELSE SubSeq(data, 1, count)
      OBVIOUS
    <2>6. PICK g : g = Growing!Cells(kept, m)
      OBVIOUS
    <2>7. Growing!Reserved(n) = g /\ Growing!Allocated(n) = Len(g)
      <3>1. Growing!Grown(n) = g
        <4>1. n + count + 1 = x
          BY <1>3, <2>1
        <4>2. Growing!Max({power, MinimumBlock}) = m
          BY <2>4 DEF Growing!Max, Max
        <4>3. Growing!Grown(n) = Growing!Cells(kept, Growing!Max({Growing!CeilPowOf2(n + count + 1), MinimumBlock}))
          BY <2>5 DEF Growing!Grown
        <4> QED
          BY <2>3, <2>6, <4>1, <4>2, <4>3
      <3> QED
        BY <1>6, <3>1 DEF Growing!Reserved, Growing!Allocated
    <2>8. kept \in Seq(ArrayCells) /\ k <= Len(kept) /\ \A i \in 1..k : kept[i] = held[i]
      <3>1. CASE allocated # 0
        BY <1>4, <2>5, <3>1
      <3>2. CASE allocated = 0
        <4>1. kept = SubSeq(data, 1, k)
          BY <1>3, <2>5, <3>2
        <4>2. PICK d \in Nat : d = Len(data) /\ k <= d
          BY <1>4
        <4>3. \A i \in 1..k : data[i] \in ArrayCells
          BY <1>4, <4>2
        <4>4. 1 \in 1..(d + 1) /\ k \in (1 - 1)..d
          BY <4>2
        <4>5. SubSeq(data, 1, k) \in Seq(ArrayCells) /\ Len(SubSeq(data, 1, k)) = k
              /\ \A i \in 1..k : SubSeq(data, 1, k)[i] = data[i]
          BY <1>4, <4>2, <4>3
        <4> QED
          BY <1>4, <4>1, <4>5
      <3> QED
        BY <3>1, <3>2
    <2>9. g \in [1..m -> ArrayCells] /\ \A i \in 1..k : g[i] = held[i]
      <3>1. PICK l \in Nat : l = Len(kept) /\ k <= l
        BY <2>8
      <3>2. k <= m
        BY <2>1, <2>3, <2>4
      <3>3. \A i \in 1..m : i <= l => kept[i] \in ArrayCells
        BY <2>8, <3>1
      <3>4. g = [i \in 1..m |-> IF i <= l THEN kept[i] ELSE Fresh]
        BY <2>6, <3>1 DEF Growing!Cells
      <3>5. g \in [1..m -> ArrayCells]
        BY <3>3, <3>4 DEF ArrayCells
      <3>6. \A i \in 1..k : g[i] = kept[i]
        BY <3>1, <3>2, <3>4
      <3> QED
        BY <2>8, <3>5, <3>6
    <2>10. g \in Seq(ArrayCells) /\ Len(g) = m
      BY <2>9
    <2>11. StackSize < m /\ n <= m /\ k <= m
      <3>1. ~(n < StackSize)
        BY <1>6 DEF Growing!Suffices
      <3> QED
        BY <1>2, <2>1, <2>3, <2>4, <3>1
    <2>12. HoldsFirst(g, held)
      BY <1>3, <2>9, <2>10, <2>11 DEF HoldsFirst
    <2>13. m # 0
      BY <1>2, <2>11
    <2> QED
      BY <1>1, <2>7, <2>10, <2>11, <2>12, <2>13 DEF Buffered
  <1> QED
    BY <1>5, <1>6

\* What is put and what is moved, as of an array.
LEMMA PutIs ==
    ASSUME NEW b \in Seq(ArrayCells), NEW offset \in Int, NEW s \in Seq(ArrayCells)
    PROVE  Growing!Put(b, offset, s) = PutAt(b, offset, s)
  <1>1. DOMAIN b = 1..Len(b) /\ DOMAIN s = 1..Len(s)
    OBVIOUS
  <1> QED
    BY <1>1 DEF Growing!Put, PutAt

LEMMA MovedIs ==
    ASSUME NEW b \in Seq(ArrayCells), NEW to \in Nat, NEW from \in Nat, NEW n \in Nat, from + n <= Len(b)
    PROVE  /\ Growing!Moved(b, to, from, n) = PutAt(b, to, CellsFrom(b, from, n))
           /\ CellsFrom(b, from, n) \in Seq(ArrayCells) /\ Len(CellsFrom(b, from, n)) = n
  <1>1. PICK h \in Nat : h = Len(b) /\ DOMAIN b = 1..h
    OBVIOUS
  <1>2. PICK c : c = CellsFrom(b, from, n)
    OBVIOUS
  <1>3. c = [p \in 1..n |-> b[from + p]]
    BY <1>2 DEF CellsFrom
  <1>4. ASSUME NEW p \in 1..n PROVE b[from + p] \in ArrayCells
    <2>1. PICK q \in Nat : q = from + p /\ q \in 1..h
      BY <1>1
    <2> QED
      BY <1>1, <2>1
  <1>5. c \in [1..n -> ArrayCells]
    BY <1>3, <1>4
  <1>6. c \in Seq(ArrayCells) /\ Len(c) = n
    BY <1>5
  <1>7. ASSUME NEW p \in 1..h, p - to \in 1..n PROVE c[p - to] = b[p - to + from]
    <2>1. PICK q \in 1..n : q = p - to
      BY <1>7
    <2>2. from + q = q + from
      OBVIOUS
    <2> QED
      BY <1>3, <2>1, <2>2
  <1>8. Growing!Moved(b, to, from, n) = [p \in 1..h |-> IF p - to \in 1..n THEN b[p - to + from] ELSE b[p]]
    BY <1>1 DEF Growing!Moved
  <1>9. PutAt(b, to, c) = [p \in 1..h |-> IF p - to \in 1..n THEN c[p - to] ELSE b[p]]
    BY <1>1, <1>6 DEF PutAt
  <1>10. Growing!Moved(b, to, from, n) = PutAt(b, to, c)
    BY <1>7, <1>8, <1>9
  <1> QED
    BY <1>2, <1>6, <1>10

\* What is behind is moved and s is put in front of it.
LEMMA EditHolds ==
    ASSUME NEW b, NEW v \in Seq(Element), NEW s \in Seq(Element), NEW i \in Nat, NEW j \in Nat,
           i <= j, j <= Len(v), HoldsFirst(b, v), i + Len(s) + Len(v) - j <= Len(b)
    PROVE  /\ HoldsFirst(Growing!Put(Growing!Moved(b, i + Len(s), j, Len(v) - j), i, s), Spliced(v, i, s, j))
           /\ Len(Growing!Put(Growing!Moved(b, i + Len(s), j, Len(v) - j), i, s)) = Len(b)
  <1>1. b \in Seq(ArrayCells) /\ Len(v) <= Len(b) /\ s \in Seq(ArrayCells)
    BY DEF HoldsFirst, ArrayCells
  <1>2. PICK n \in Nat : n = Len(v) - j
    <2>1. PICK l \in Nat : l = Len(v)
      OBVIOUS
    <2>2. l - j \in Nat
      BY <2>1
    <2> QED
      BY <2>1, <2>2
  <1>3. PICK to \in Nat : to = i + Len(s)
    OBVIOUS
  <1>4. j + n <= Len(b)
    BY <1>1, <1>2
  <1>5. /\ Growing!Moved(b, to, j, n) = PutAt(b, to, CellsFrom(b, j, n))
        /\ CellsFrom(b, j, n) \in Seq(ArrayCells)
    BY <1>1, <1>4, MovedIs
  <1>6. PICK c : c = PutAt(b, to, CellsFrom(b, j, n))
    OBVIOUS
  <1>7. c \in Seq(ArrayCells)
    <2>1. IsPutAt(c, b, to, CellsFrom(b, j, n))
      BY <1>1, <1>5, <1>6, PutAtIs
    <2> QED
      BY <2>1 DEF IsPutAt
  <1>8. Growing!Put(c, i, s) = PutAt(c, i, s)
    BY <1>1, <1>7, PutIs
  <1>9. /\ HoldsFirst(PutAt(PutAt(b, i + Len(s), CellsFrom(b, j, Len(v) - j)), i, s), Spliced(v, i, s, j))
        /\ Len(PutAt(PutAt(b, i + Len(s), CellsFrom(b, j, Len(v) - j)), i, s)) = Len(b)
    BY SplicedBlock
  <1>10. Growing!Put(Growing!Moved(b, i + Len(s), j, Len(v) - j), i, s)
             = PutAt(PutAt(b, i + Len(s), CellsFrom(b, j, Len(v) - j)), i, s)
    BY <1>2, <1>3, <1>5, <1>6, <1>8
  <1> QED
    BY <1>9, <1>10

\* Putting nothing changes nothing.
LEMMA NothingPut ==
    ASSUME NEW c \in Seq(ArrayCells), NEW i \in Nat
    PROVE  Growing!Put(c, i, <<>>) = c
  <1>1. DOMAIN <<>> = {} /\ c = [p \in DOMAIN c |-> c[p]]
    OBVIOUS
  <1> QED
    BY <1>1 DEF Growing!Put

\* What the invariant says of the buffer, and what is to show of the next one.
LEMMA BufferHeld ==
    ASSUME BufferInv
    PROVE  /\ held \in Seq(Element) /\ count = Len(held) /\ count \in Nat /\ count <= MaxHeld
           /\ HoldsFirst(data, held) /\ data \in Seq(ArrayCells) /\ count <= Len(data)
  BY DEF BufferInv, Buffered, HoldsFirst

LEMMA BufferIndex ==
    ASSUME BufferInv, NEW index \in -count..count
    PROVE  /\ Growing!TranslateIndex(index, count) \in 0..count
           /\ index \in -count..count - 1 => Growing!TranslateIndex(index, count) \in 0..(count - 1)
  <1>1. PICK l \in Nat : l = count
    BY BufferHeld
  <1>2. index \in -l..l
    BY <1>1
  <1> QED
    BY <1>1, <1>2 DEF Growing!TranslateIndex

\* A cell for a cell: as many cells, that hold something else.
LEMMA SameCells ==
    ASSUME BufferInv, NEW d \in Seq(ArrayCells), Len(d) = Len(data),
           NEW h \in Seq(Element), Len(h) <= MaxHeld, HoldsFirst(d, h)
    PROVE  Buffered(d, allocated, h)
  <1>1. data \in Seq(ArrayCells)
    BY BufferHeld
  <1>2. d # <<>> => data # <<>>
    BY <1>1
  <1> QED
    BY <1>2 DEF BufferInv, Buffered

LEMMA BufferInserts ==
    ASSUME Growing!BufferAssumption, BufferInv,
           NEW s \in Inputs, NEW index \in -count..count, Growing!Insert(index, s)
    PROVE  BufferInv'
  <1>1. s \in Seq(Element)
    BY ArrayAssumption
  <1>2. PICK i \in Nat : i = Growing!TranslateIndex(index, count) /\ i <= count
    BY BufferHeld, BufferIndex
  <1>3. PICK t \in Nat : t = count + Len(s) /\ t = Growing!Required(Len(s))
    BY <1>1, BufferHeld DEF Growing!Required
  <1>4. PICK c : c = Growing!Reserved(t)
    OBVIOUS
  <1>5. PICK d : d = Growing!Put(Growing!Moved(c, i + Len(s), i, count - i), i, s)
    OBVIOUS
  <1>6. /\ Len(held) + Len(s) <= MaxHeld /\ c # <<>>
        /\ data' = d /\ allocated' = Growing!Allocated(t) /\ count' = count + Len(s)
        /\ held' = SubSeq(held, 1, i) \o s \o SubSeq(held, i + 1, Len(held))
    BY <1>2, <1>3, <1>4, <1>5 DEF Growing!Insert
  <1>7. t <= MaxHeld
    BY <1>1, <1>3, <1>6, BufferHeld
  <1>8. Buffered(c, Growing!Allocated(t), held) /\ t <= Len(c)
    BY <1>4, <1>6, <1>7, ReservedHolds
  <1>9. PICK w : w = Spliced(held, i, s, i)
    OBVIOUS
  <1>10. HoldsFirst(d, w) /\ Len(d) = Len(c)
    <2>1. PICK k \in Nat : k = Len(s)
      BY <1>1
    <2>2. HoldsFirst(c, held) /\ held \in Seq(Element) /\ count = Len(held)
      BY <1>8, BufferHeld DEF Buffered
    <2>3. PICK l \in Nat : l = Len(held) /\ i <= l /\ l = count
      BY <1>2, <2>2
    <2>4. c \in Seq(ArrayCells)
      BY <2>2 DEF HoldsFirst
    <2>5. i + Len(s) + Len(held) - i <= Len(c)
      BY <1>3, <1>8, <2>1, <2>3, <2>4
    <2>6. i <= i /\ i <= Len(held)
      BY <2>3
    <2>7. /\ HoldsFirst(Growing!Put(Growing!Moved(c, i + Len(s), i, Len(held) - i), i, s), Spliced(held, i, s, i))
          /\ Len(Growing!Put(Growing!Moved(c, i + Len(s), i, Len(held) - i), i, s)) = Len(c)
      BY <1>1, <2>2, <2>5, <2>6, EditHolds
    <2> QED
      BY <1>5, <1>9, <2>2, <2>7
  <1>11. w \in Seq(Element) /\ Len(w) = t
    <2>1. PICK l \in Nat : l = Len(held) /\ i <= l /\ l = count
      BY <1>2, BufferHeld
    <2>2. IsSpliced(w, held, i, s, i)
      <3>1. held \in Seq(Element) /\ i <= i /\ i <= Len(held)
        BY <2>1, BufferHeld
      <3> QED
        BY <1>1, <1>9, <3>1, SplicedIs
    <2>3. w \in Seq(Element) /\ Len(w) = i + Len(s) + Len(held) - i
      BY <2>2 DEF IsSpliced
    <2>4. PICK k \in Nat : k = Len(s)
      BY <1>1
    <2>5. i + k + l - i = l + k
      BY <2>1
    <2> QED
      BY <1>3, <2>1, <2>3, <2>4, <2>5
  <1>12. held' = w
    BY <1>6, <1>9 DEF Spliced
  <1>13. Buffered(d, Growing!Allocated(t), w)
    <2>1. d # <<>> => c # <<>>
      BY <1>6
    <2> QED
      BY <1>7, <1>8, <1>10, <1>11, <2>1 DEF Buffered
  <1> QED
    BY <1>3, <1>6, <1>11, <1>12, <1>13 DEF BufferInv

LEMMA BufferReserves ==
    ASSUME Growing!BufferAssumption, BufferInv, NEW n \in 0..MaxHeld, Growing!Reserve(n)
    PROVE  BufferInv'
  <1>1. n \in Nat /\ n <= MaxHeld /\ MaxHeld \in Nat
    BY DEF Growing!BufferAssumption
  <1>2. data # <<>> /\ data' = Growing!Reserved(n) /\ allocated' = Growing!Allocated(n) /\ count' = count /\ held' = held
    BY DEF Growing!Reserve
  <1>3. Growing!Reserved(n) # <<>>
    <2>1. CASE Growing!Suffices(n)
      BY <1>2, <2>1 DEF Growing!Reserved
    <2>2. CASE ~Growing!Suffices(n)
      <3>1. PICK k \in Nat : k = count /\ k <= MaxHeld
        BY BufferHeld
      <3>2. PICK x \in Nat : x = n + k + 1 /\ x # 0 /\ x <= 2 * MaxHeld + 1
        BY <1>1, <3>1
      <3>3. PICK power \in Nat : power = Growing!CeilPowOf2(x) /\ x <= power
        BY <3>2, BlockReaches
      <3>4. PICK least \in Nat : least = MinimumBlock
        BY DEF Growing!BufferAssumption
      <3>5. PICK m \in Nat : m = Max({power, MinimumBlock}) /\ m # 0
        <4>1. PICK t \in {power, least} : t >= power /\ t >= least
          OBVIOUS
        <4>2. \A q \in {power, least} : q <= t
          BY <4>1
        <4>3. Max({power, least}) \in {power, least} /\ Max({power, least}) >= power
          BY <4>1, <4>2 DEF Max
        <4> QED
          BY <3>2, <3>3, <3>4, <4>3
      <3>6. PICK kept : Growing!Grown(n) = Growing!Cells(kept, m)
        <4>1. n + count + 1 = x
          BY <3>1, <3>2
        <4>2. Growing!Max({power, MinimumBlock}) = m
          BY <3>5 DEF Growing!Max, Max
        <4>3. PICK kept : Growing!Grown(n) = Growing!Cells(kept, Growing!Max({Growing!CeilPowOf2(n + count + 1), MinimumBlock}))
          BY DEF Growing!Grown
        <4> QED
          BY <3>3, <4>1, <4>2, <4>3
      <3>7. 1 \in DOMAIN Growing!Cells(kept, m)
        BY <3>5 DEF Growing!Cells
      <3>8. Growing!Cells(kept, m) # <<>>
        BY <3>7
      <3> QED
        BY <2>2, <3>6, <3>8 DEF Growing!Reserved
    <2> QED
      BY <2>1, <2>2
  <1>4. Buffered(Growing!Reserved(n), Growing!Allocated(n), held)
    BY <1>1, <1>3, ReservedHolds
  <1> QED
    BY <1>2, <1>4, BufferHeld DEF BufferInv

LEMMA BufferRemoves ==
    ASSUME Growing!BufferAssumption, BufferInv, NEW index \in -count..count - 1, Growing!RemoveByte(index)
    PROVE  BufferInv'
  <1>1. PICK l \in Nat : l = count /\ l = Len(held) /\ l <= MaxHeld /\ l <= Len(data)
    BY BufferHeld
  <1>2. PICK i \in Nat : i = Growing!TranslateIndex(index, count) /\ i < l
    <2>1. index \in -count..count
      BY <1>1
    <2> QED
      BY <1>1, <2>1, BufferIndex
  <1>3. PICK j \in Nat : j = i + 1 /\ j <= l
    BY <1>2
  <1>4. PICK s \in Seq(Element) : s = <<>> /\ Len(s) = 0
    BY EmptySeq
  <1>5. PICK c : c = Growing!Moved(data, i, j, l - j)
    OBVIOUS
  <1>6. data' = c /\ count' = l - 1 /\ held' = Growing!RemoveAt(held, j) /\ allocated' = allocated
    <2>1. l - i - 1 = l - j
      BY <1>3
    <2> QED
      BY <1>1, <1>2, <1>3, <1>5, <2>1 DEF Growing!RemoveByte
  <1>7. PICK d : d = Growing!Put(Growing!Moved(data, i + Len(s), j, Len(held) - j), i, s)
    OBVIOUS
  <1>8. PICK w : w = Spliced(held, i, s, j)
    OBVIOUS
  <1>9. HoldsFirst(d, w) /\ Len(d) = Len(data)
    <2>1. i <= j /\ j <= Len(held)
      BY <1>1, <1>3
    <2>2. i + Len(s) + Len(held) - j <= Len(data)
      BY <1>1, <1>3, <1>4, BufferHeld
    <2> QED
      BY <1>7, <1>8, <2>1, <2>2, BufferHeld, EditHolds
  <1>10. c \in Seq(ArrayCells) /\ d = c
    <2>1. i + Len(s) = i /\ Len(held) - j = l - j
      BY <1>1, <1>4
    <2>2. PICK n \in Nat : n = l - j
      BY <1>3
    <2>3. j + n <= Len(data)
      BY <1>1, <2>2, BufferHeld
    <2>4. /\ c = PutAt(data, i, CellsFrom(data, j, n))
          /\ CellsFrom(data, j, n) \in Seq(ArrayCells)
      BY <1>5, <2>2, <2>3, BufferHeld, MovedIs
    <2>5. IsPutAt(c, data, i, CellsFrom(data, j, n))
      BY <2>4, BufferHeld, PutAtIs
    <2>6. c \in Seq(ArrayCells)
      BY <2>5 DEF IsPutAt
    <2>7. d = Growing!Put(c, i, <<>>)
      BY <1>4, <1>5, <1>7, <2>1
    <2> QED
      BY <2>6, <2>7, NothingPut
  <1>11. w \in Seq(Element) /\ Len(w) = l - 1
    <2>1. i <= j /\ j <= Len(held)
      BY <1>1, <1>3
    <2>2. IsSpliced(w, held, i, s, j)
      BY <1>8, <2>1, BufferHeld, SplicedIs
    <2>3. w \in Seq(Element) /\ Len(w) = i + Len(s) + Len(held) - j
      BY <2>2 DEF IsSpliced
    <2> QED
      BY <1>1, <1>3, <1>4, <2>3
  <1>12. Growing!RemoveAt(held, j) = w
    <2>1. IsWithout(Spliced(held, i, <<>>, j), held, i, j)
      <3>1. i <= j /\ j <= Len(held)
        BY <1>1, <1>3
      <3> QED
        BY <3>1, BufferHeld, SplicedNothing
    <2>2. w = SubSeq(held, 1, i) \o SubSeq(held, j + 1, Len(held))
      BY <1>4, <1>8, <2>1 DEF IsWithout
    <2>3. j - 1 = i
      BY <1>3
    <2> QED
      BY <2>2, <2>3 DEF Growing!RemoveAt
  <1>13. Buffered(c, allocated, w)
    <2>1. Len(w) <= MaxHeld
      <3>1. MaxHeld \in Nat
        BY DEF Growing!BufferAssumption
      <3> QED
        BY <1>1, <1>2, <1>11, <3>1
    <2> QED
      BY <1>9, <1>10, <1>11, <2>1, SameCells
  <1> QED
    BY <1>6, <1>11, <1>12, <1>13 DEF BufferInv

LEMMA BufferSets ==
    ASSUME BufferInv, NEW index \in -count..count - 1, NEW b \in Element, Growing!Set(index, b)
    PROVE  BufferInv'
  <1>1. PICK l \in Nat : l = count /\ l = Len(held) /\ l <= Len(data)
    BY BufferHeld
  <1>2. PICK i \in Nat : i = Growing!TranslateIndex(index, count) /\ i < l
    <2>1. index \in -count..count
      BY <1>1
    <2> QED
      BY <1>1, <2>1, BufferIndex
  <1>3. PICK d : d = Growing!Put(data, i, <<b>>)
    OBVIOUS
  <1>4. PICK h : h = [held EXCEPT ![i + 1] = b]
    OBVIOUS
  <1>5. data' = d /\ held' = h /\ allocated' = allocated /\ count' = count
    BY <1>2, <1>3, <1>4 DEF Growing!Set
  <1>6. h \in Seq(Element) /\ Len(h) = l /\ \A p \in 1..l : h[p] = IF p = i + 1 THEN b ELSE held[p]
    <2>1. held \in Seq(Element)
      BY BufferHeld
    <2> QED
      BY <1>1, <1>2, <1>4, <2>1
  <1>7. d \in Seq(ArrayCells) /\ Len(d) = Len(data)
        /\ \A p \in 1..Len(data) : d[p] = IF p - i \in 1..1 THEN b ELSE data[p]
    <2>1. PICK s \in Seq(ArrayCells) : s = <<b>> /\ Len(s) = 1 /\ s[1] = b
      <3>1. b \in ArrayCells
        BY DEF ArrayCells
      <3>2. <<b>> \in Seq(ArrayCells) /\ Len(<<b>>) = 1 /\ <<b>>[1] = b
        BY <3>1
      <3> QED
        BY <3>2, Zenon
    <2>2. data \in Seq(ArrayCells) /\ i \in Int /\ Len(data) \in Nat
      BY BufferHeld
    <2>3. IsPutAt(d, data, i, s)
      <3>1. d = PutAt(data, i, s)
        BY <1>3, <2>1, <2>2, PutIs
      <3> QED
        BY <2>2, <3>1, PutAtIs
    <2>4. /\ d \in Seq(ArrayCells) /\ Len(d) = Len(data)
          /\ \A p \in 1..Len(data) : d[p] = IF p - i \in 1..1 THEN s[p - i] ELSE data[p]
      BY <2>1, <2>3 DEF IsPutAt
    <2>5. \A p \in 1..Len(data) : p - i \in 1..1 => p - i = 1
      OBVIOUS
    <2> QED
      BY <2>1, <2>4, <2>5
  <1>8. HoldsFirst(d, h)
    <2>1. \A p \in 1..l : data[p] = held[p]
      BY <1>1, BufferHeld DEF HoldsFirst
    <2>2. ASSUME NEW p \in 1..l PROVE d[p] = h[p]
      <3>1. p \in 1..Len(data)
        BY <1>1, BufferHeld
      <3>2. p - i \in 1..1 <=> p = i + 1
        OBVIOUS
      <3> QED
        BY <1>6, <1>7, <2>1, <3>1, <3>2
    <2> QED
      BY <1>1, <1>6, <1>7, <2>2 DEF HoldsFirst
  <1>9. Len(h) <= MaxHeld
    BY <1>1, <1>6 DEF BufferInv, Buffered
  <1>10. Buffered(d, allocated, h)
    BY <1>6, <1>7, <1>8, <1>9, SameCells
  <1> QED
    BY <1>1, <1>5, <1>6, <1>10 DEF BufferInv

\* Nothing is held: when it is made, emptied and freed.
LEMMA NothingHeld ==
    ASSUME Growing!BufferAssumption, NEW d \in Seq(ArrayCells), NEW a \in Nat, a # 0 => StackSize < a,
           d # <<>> => Len(d) = IF a = 0 THEN StackSize ELSE a
    PROVE  Buffered(d, a, <<>>)
  <1>1. PICK h \in Seq(Element) : h = <<>> /\ Len(h) = 0
    BY EmptySeq
  <1>2. MaxHeld \in Nat
    BY DEF Growing!BufferAssumption
  <1>3. HoldsFirst(d, h)
    BY <1>1 DEF HoldsFirst
  <1> QED
    BY <1>1, <1>2, <1>3 DEF Buffered

LEMMA BufferBegins ==
    ASSUME Growing!BufferAssumption, Growing!Init
    PROVE  BufferInv
  <1>1. StackSize \in Nat
    BY DEF Growing!BufferAssumption
  <1>2. data = [i \in 1..StackSize |-> Fresh] /\ allocated = 0 /\ count = 0 /\ held = <<>>
    <2>1. \A i \in 1..StackSize : ~(i <= Len(<<>>))
      BY <1>1
    <2> QED
      BY <2>1 DEF Growing!Init, Growing!Cells
  <1>3. data \in [1..StackSize -> ArrayCells]
    BY <1>2 DEF ArrayCells
  <1>4. data \in Seq(ArrayCells) /\ Len(data) = StackSize
    BY <1>1, <1>3
  <1> QED
    BY <1>1, <1>2, <1>4, NothingHeld DEF BufferInv

LEMMA BufferEmpties ==
    ASSUME Growing!BufferAssumption, BufferInv, Growing!ResetBuffer \/ Growing!Free
    PROVE  BufferInv'
  <1>1. CASE Growing!ResetBuffer
    <2>1. count' = 0 /\ held' = <<>> /\ data' = data /\ allocated' = allocated
      BY <1>1 DEF Growing!ResetBuffer
    <2>2. Buffered(data, allocated, <<>>)
      BY BufferHeld, NothingHeld DEF BufferInv, Buffered
    <2> QED
      BY <2>1, <2>2 DEF BufferInv
  <1>2. CASE Growing!Free
    <2>1. count' = 0 /\ held' = <<>> /\ data' = <<>> /\ allocated' = 0
      BY <1>2 DEF Growing!Free
    <2>2. <<>> \in Seq(ArrayCells)
      BY EmptySeq
    <2>3. Buffered(<<>>, 0, <<>>)
      BY <2>2, NothingHeld
    <2> QED
      BY <2>1, <2>3 DEF BufferInv
  <1> QED
    BY <1>1, <1>2

\* What user code sets a byte to is a byte it could insert.
LEMMA BufferStep ==
    ASSUME Growing!BufferAssumption, BufferInv, Growing!Next
    PROVE  BufferInv'
  <1>1. CASE \E s \in Inputs : \E index \in -count..count : Growing!Insert(index, s)
    BY <1>1, BufferInserts
  <1>2. CASE \E n \in 0..MaxHeld : Growing!Reserve(n)
    BY <1>2, BufferReserves
  <1>3. CASE \E index \in -count..count - 1 : Growing!RemoveByte(index)
    BY <1>3, BufferRemoves
  <1>4. CASE \E index \in -count..count - 1 : \E s \in Inputs : s # <<>> /\ Growing!Set(index, s[1])
    <2>1. PICK index \in -count..count - 1, s \in Inputs : s # <<>> /\ Growing!Set(index, s[1])
      BY <1>4
    <2>2. s[1] \in Element
      <3>1. s \in Seq(Element)
        BY ArrayAssumption
      <3> QED
        BY <2>1, <3>1
    <2> QED
      BY <2>1, <2>2, BufferSets
  <1>5. CASE Growing!ResetBuffer \/ Growing!Free
    BY <1>5, BufferEmpties
  <1> QED
    BY <1>1, <1>2, <1>3, <1>4, <1>5 DEF Growing!Next

LEMMA BufferAgrees == BufferInv => Growing!HoldsInserted
  <1> SUFFICES ASSUME BufferInv
               PROVE  Growing!HoldsInserted
    OBVIOUS
  <1>1. PICK k \in Nat : k = count /\ k = Len(held)
    BY BufferHeld
  <1>2. data \in Seq(ArrayCells) /\ held \in Seq(Element) /\ k <= Len(data) /\ \A i \in 1..k : data[i] = held[i]
    BY <1>1, BufferHeld DEF HoldsFirst
  <1>3. SubSeq(data, 1, k) = held
    <2>1. PICK d \in Nat : d = Len(data) /\ k <= d
      BY <1>2
    <2>2. \A i \in 1..k : data[i] \in ArrayCells
      BY <1>2, <2>1
    <2>3. PICK p : p = SubSeq(data, 1, k)
      OBVIOUS
    <2>4. p \in Seq(ArrayCells) /\ Len(p) = k /\ \A i \in 1..k : p[i] = data[i]
      BY <1>2, <2>1, <2>2, <2>3
    <2>5. held \in Seq(ArrayCells)
      BY <1>2 DEF ArrayCells
    <2>6. p = held
      BY <1>1, <1>2, <2>4, <2>5, SeqEqual
    <2> QED
      BY <2>3, <2>6
  <1> QED
    BY <1>1, <1>2, <1>3 DEF Growing!HoldsInserted, BufferInv, Buffered

-----------------------------------------------------------------------------
(***************************************************************************)
(* The string builder.                                                     *)
(***************************************************************************)
Built == Building!Bytes
BuiltBuffers == [Buffer -> [Data : Seq(Built), Next : Buffer \cup {NoBuffer}]]
BuilderMemories == [buffers : BuiltBuffers, live : SUBSET Buffer,
                    builder : [CurrentBuffer : Buffer \cup {NoBuffer}, IndirectionCount : Nat]]

\* Next leads to a lower rank, below n: no buffers point at each other in a circle.
Ranked(bs, r, n) == /\ n \in Nat /\ r \in [Buffer -> 0..n - 1]
                    /\ \A b \in Buffer : bs[b].Next # NoBuffer => r[bs[b].Next] < r[b]

\* The buffers q are those from Base on.
IsChainOf(bs, q) ==
    /\ q \in Seq(Buffer) /\ Len(q) # 0 /\ q[1] = Base
    /\ \A i \in 1..Len(q) : bs[q[i]].Next = IF i = Len(q) THEN NoBuffer ELSE q[i + 1]
    /\ \A i, k \in 1..Len(q) : q[i] = q[k] => i = k

\* f[c] are the buffers from c on, of those c with a rank below k.
ChainsBelow(f, bs, r, k) ==
    /\ f \in [Buffer \cup {NoBuffer} -> Seq(Buffer)] /\ f[NoBuffer] = <<>>
    /\ \A b \in Buffer : r[b] < k => f[b] = <<b>> \o f[bs[b].Next]

LEMMA ChainsExist ==
    ASSUME Building!BuilderAssumption, NEW bs \in BuiltBuffers, NEW r, NEW n, Ranked(bs, r, n)
    PROVE  \E f : ChainsBelow(f, bs, r, n)
  <1> DEFINE Counts == {k \in 0..n : \E f : ChainsBelow(f, bs, r, k)}
  <1>1. /\ n \in Nat /\ NoBuffer \notin Buffer
        /\ \A b \in Buffer : r[b] \in 0..n - 1 /\ bs[b].Next \in Buffer \cup {NoBuffer}
        /\ \A b \in Buffer : bs[b].Next # NoBuffer => r[bs[b].Next] < r[b]
    BY DEF Building!BuilderAssumption, BuiltBuffers, Ranked
  <1>2. 0 \in Counts
    <2>1. PICK f : f = [c \in Buffer \cup {NoBuffer} |-> <<>>]
      OBVIOUS
    <2>2. f \in [Buffer \cup {NoBuffer} -> Seq(Buffer)] /\ f[NoBuffer] = <<>>
      BY <2>1, EmptySeq
    <2>3. \A b \in Buffer : ~(r[b] < 0)
      BY <1>1
    <2>4. ChainsBelow(f, bs, r, 0)
      BY <2>2, <2>3 DEF ChainsBelow
    <2> QED
      BY <1>1, <2>4
  <1>3. ASSUME NEW k \in 0..n - 1, k \in Counts PROVE k + 1 \in Counts
    <2>1. PICK f : ChainsBelow(f, bs, r, k)
      BY <1>3
    <2>2. PICK g : g = [c \in Buffer \cup {NoBuffer} |->
                            IF c \in Buffer /\ r[c] = k THEN <<c>> \o f[bs[c].Next] ELSE f[c]]
      OBVIOUS
    <2>3. \A c \in Buffer \cup {NoBuffer} : f[c] \in Seq(Buffer)
      BY <2>1 DEF ChainsBelow
    <2>4. g \in [Buffer \cup {NoBuffer} -> Seq(Buffer)]
      <3>1. ASSUME NEW c \in Buffer PROVE <<c>> \o f[bs[c].Next] \in Seq(Buffer)
        <4>1. <<c>> \in Seq(Buffer) /\ f[bs[c].Next] \in Seq(Buffer)
          BY <1>1, <2>3
        <4> QED
          BY <4>1
      <3> QED
        BY <2>2, <2>3, <3>1
    <2>5. g[NoBuffer] = <<>>
      BY <1>1, <2>1, <2>2 DEF ChainsBelow
    <2>6. ASSUME NEW b \in Buffer, r[b] < k + 1 PROVE g[b] = <<b>> \o g[bs[b].Next]
      <3>1. g[bs[b].Next] = f[bs[b].Next]
        <4>1. CASE bs[b].Next = NoBuffer
          BY <1>1, <2>2, <4>1
        <4>2. CASE bs[b].Next # NoBuffer
          <5>1. bs[b].Next \in Buffer /\ r[bs[b].Next] < r[b] /\ r[b] \in Int /\ r[bs[b].Next] \in Int
            BY <1>1, <4>2
          <5>2. r[bs[b].Next] # k
            BY <2>6, <5>1
          <5> QED
            BY <2>2, <5>1, <5>2
        <4> QED
          BY <4>1, <4>2
      <3>2. CASE r[b] = k
        BY <2>2, <3>1, <3>2
      <3>3. CASE r[b] # k
        <4>1. r[b] < k
          BY <1>1, <2>6, <3>3
        <4>2. f[b] = <<b>> \o f[bs[b].Next]
          BY <2>1, <4>1 DEF ChainsBelow
        <4> QED
          BY <2>2, <3>1, <3>3, <4>2
      <3> QED
        BY <3>2, <3>3
    <2>7. ChainsBelow(g, bs, r, k + 1)
      BY <2>4, <2>5, <2>6 DEF ChainsBelow
    <2> QED
      BY <1>1, <2>7
  <1> HIDE DEF Counts
  <1>4. \A k \in 0..n : k \in Counts
    BY <1>1, <1>2, <1>3, CountUp
  <1>5. n \in Counts
    BY <1>1, <1>4
  <1> QED
    BY <1>5 DEF Counts

\* What the definition of Chain chooses gives the buffers from Base on.
LEMMA ChainIs ==
    ASSUME Building!BuilderAssumption, buffers \in BuiltBuffers, NEW r, NEW n, Ranked(buffers, r, n),
           NEW q, IsChainOf(buffers, q)
    PROVE  Building!Chain(Base) = q
  <1> DEFINE IsFrom(f) == f = [c \in Buffer \cup {NoBuffer} |->
                                   IF c = NoBuffer THEN <<>> ELSE <<c>> \o f[buffers[c].Next]]
             from == CHOOSE f : IsFrom(f)
  <1>1. NoBuffer \notin Buffer /\ n \in Nat /\ (\A b \in Buffer : r[b] < n)
        /\ \A b \in Buffer : buffers[b].Next \in Buffer \cup {NoBuffer}
    BY DEF Building!BuilderAssumption, BuiltBuffers, Ranked
  <1>2. PICK f : ChainsBelow(f, buffers, r, n)
    BY ChainsExist
  <1>3. IsFrom(f)
    <2>1. f = [c \in Buffer \cup {NoBuffer} |-> f[c]]
      BY <1>2 DEF ChainsBelow
    <2>2. ASSUME NEW c \in Buffer \cup {NoBuffer}
          PROVE  f[c] = IF c = NoBuffer THEN <<>> ELSE <<c>> \o f[buffers[c].Next]
      BY <1>1, <1>2 DEF ChainsBelow
    <2>3. f = [c \in Buffer \cup {NoBuffer} |-> IF c = NoBuffer THEN <<>> ELSE <<c>> \o f[buffers[c].Next]]
      BY <2>1, <2>2
    <2> QED
      BY <2>3
  <1>4. IsFrom(from)
    <2> HIDE DEF IsFrom
    <2> QED
      BY <1>3
  <1>5. Building!Chain(Base) = from[Base]
    BY Zenon DEF Building!Chain
  <1>6. PICK g : g = from /\ IsFrom(g)
    <2> HIDE DEF from, IsFrom
    <2> QED
      BY <1>4
  <1> HIDE DEF from
  <1>7. g[NoBuffer] = <<>> /\ \A b \in Buffer : g[b] = <<b>> \o g[buffers[b].Next]
    BY <1>1, <1>6
  <1> HIDE DEF IsFrom
  <1>8. PICK l \in Nat : l = Len(q) /\ l # 0
    BY DEF IsChainOf
  <1>9. /\ q \in Seq(Buffer) /\ q[1] = Base
        /\ \A i \in 1..l : q[i] \in Buffer /\ buffers[q[i]].Next = IF i = l THEN NoBuffer ELSE q[i + 1]
    BY <1>8 DEF IsChainOf
  <1> DEFINE Counts == {d \in 0..l - 1 : g[q[l - d]] = SubSeq(q, l - d, l)}
  <1>10. 0 \in Counts
    <2>1. g[q[l]] = <<q[l]>> \o <<>>
      <3>1. l \in 1..l
        BY <1>8
      <3>2. q[l] \in Buffer /\ buffers[q[l]].Next = NoBuffer
        BY <1>9, <3>1
      <3> QED
        BY <1>7, <3>2
    <2>2. PICK x \in Buffer : x = q[l]
      BY <1>8, <1>9
    <2>3. <<x>> \o <<>> = <<x>>
      OBVIOUS
    <2>4. SubSeq(q, l, l) = <<x>>
      <3>1. l \in 1..Len(q)
        BY <1>8
      <3>2. SubSeq(q, l, l) \in Seq(Buffer) /\ Len(SubSeq(q, l, l)) = 1 /\ SubSeq(q, l, l)[1] = x
        BY <1>9, <2>2, <3>1
      <3>3. PICK s : s = SubSeq(q, l, l)
        OBVIOUS
      <3>4. PICK o \in Seq(Buffer) : o = <<x>> /\ Len(o) = 1 /\ o[1] = x
        <4>1. <<x>> \in Seq(Buffer) /\ Len(<<x>>) = 1 /\ <<x>>[1] = x
          OBVIOUS
        <4> QED
          BY <4>1, Zenon
      <3>5. s \in Seq(Buffer) /\ Len(s) = 1 /\ s[1] = x
        BY <3>2, <3>3
      <3>6. s = o
        BY <3>4, <3>5, SeqEqual
      <3> QED
        BY <3>3, <3>4, <3>6
    <2> QED
      BY <1>8, <2>1, <2>2, <2>3, <2>4
  <1>11. ASSUME NEW d \in 0..(l - 1) - 1, d \in Counts PROVE d + 1 \in Counts
    <2>1. PICK i \in 1..l : i = l - (d + 1) /\ i # l /\ l - d = i + 1
      <3>1. PICK i \in Int : i = l - (d + 1)
        <4>1. d \in Int /\ l \in Int
          BY <1>8
        <4> QED
          BY <4>1
      <3>2. d \in Int /\ 0 <= d /\ d <= (l - 1) - 1 /\ l \in Int
        BY <1>8
      <3>3. 1 <= i /\ i <= l /\ i # l /\ l - d = i + 1
        BY <3>1, <3>2
      <3> QED
        BY <3>1, <3>3
    <2>2. g[q[i + 1]] = SubSeq(q, i + 1, l)
      BY <1>11, <2>1
    <2>3. g[q[i]] = <<q[i]>> \o SubSeq(q, i + 1, l)
      BY <1>7, <1>9, <2>1, <2>2
    <2>4. SubSeq(q, i, l) = <<q[i]>> \o SubSeq(q, i + 1, l)
      <3>1. PICK s : s = SubSeq(q, i, l)
        OBVIOUS
      <3>2. PICK t : t = SubSeq(q, i + 1, l)
        OBVIOUS
      <3>3. PICK o \in Seq(Buffer) : o = <<q[i]>> /\ Len(o) = 1 /\ o[1] = q[i]
        <4>1. q[i] \in Buffer
          BY <1>9
        <4>2. <<q[i]>> \in Seq(Buffer) /\ Len(<<q[i]>>) = 1 /\ <<q[i]>>[1] = q[i]
          BY <4>1
        <4> QED
          BY <4>2, Zenon
      <3>4. s \in Seq(Buffer) /\ Len(s) = l - i + 1 /\ \A p \in 1..l - i + 1 : s[p] = q[i + p - 1]
        <4>1. Len(s) = l - i + 1 /\ \A p \in 1..l - i + 1 : s[p] = q[i + p - 1]
          BY <1>8, <1>9, <2>1, <3>1
        <4>2. s \in Seq(Buffer)
          BY <1>8, <1>9, <2>1, <3>1
        <4> QED
          BY <4>1, <4>2
      <3>5. t \in Seq(Buffer) /\ Len(t) = l - i /\ \A p \in 1..l - i : t[p] = q[i + p]
        <4>1. Len(t) = l - i /\ \A p \in 1..l - i : t[p] = q[i + p]
          BY <1>8, <1>9, <2>1, <3>2
        <4>2. t \in Seq(Buffer)
          BY <1>8, <1>9, <2>1, <3>2
        <4> QED
          BY <4>1, <4>2
      <3>6. PICK w : w = o \o t
        OBVIOUS
      <3>7. w \in Seq(Buffer) /\ Len(w) = l - i + 1
            /\ \A p \in 1..l - i + 1 : w[p] = IF p = 1 THEN q[i] ELSE t[p - 1]
        <4>1. w \in Seq(Buffer) /\ Len(w) = Len(o) + Len(t)
              /\ \A p \in 1..Len(o) + Len(t) : w[p] = IF p <= Len(o) THEN o[p] ELSE t[p - Len(o)]
          <5>1. t \in Seq(Buffer)
            BY <3>5
          <5>2. /\ o \o t \in Seq(Buffer) /\ Len(o \o t) = Len(o) + Len(t)
                /\ \A p \in 1..Len(o) + Len(t) : (o \o t)[p] = IF p <= Len(o) THEN o[p] ELSE t[p - Len(o)]
            BY <5>1, ConcatProperties
          <5> QED
            BY <3>6, <5>2, Zenon
        <4>2. PICK k \in Nat : k = l - i
          BY <1>8, <2>1
        <4>3. Len(o) + Len(t) = k + 1 /\ l - i + 1 = k + 1
          BY <1>8, <3>3, <3>5, <4>2
        <4>4. ASSUME NEW p \in 1..k + 1 PROVE w[p] = IF p = 1 THEN q[i] ELSE t[p - 1]
          <5>1. p <= 1 <=> p = 1
            BY <4>2
          <5> QED
            BY <3>3, <4>1, <4>3, <5>1
        <4> QED
          BY <4>1, <4>3, <4>4
      <3>8. ASSUME NEW p \in 1..l - i + 1 PROVE s[p] = w[p]
        <4>1. CASE p = 1
          BY <3>4, <3>7, <4>1
        <4>2. CASE p # 1
          <5>1. PICK k \in 1..l - i : k = p - 1 /\ i + p - 1 = i + k
            BY <4>2
          <5> QED
            BY <3>4, <3>5, <3>7, <4>2, <5>1
        <4> QED
          BY <4>1, <4>2
      <3> QED
        BY <3>1, <3>2, <3>3, <3>4, <3>6, <3>7, <3>8, SeqEqual
    <2> QED
      BY <2>1, <2>3, <2>4
  <1> HIDE DEF Counts
  <1>12. \A d \in 0..l - 1 : d \in Counts
    <2>1. l - 1 \in Nat
      BY <1>8
    <2> QED
      BY <1>10, <1>11, <2>1, CountUp
  <1>13. l - 1 \in Counts
    BY <1>8, <1>12
  <1>14. g[q[1]] = SubSeq(q, 1, l)
    BY <1>8, <1>13 DEF Counts
  <1>15. SubSeq(q, 1, l) = q
    BY <1>8, <1>9
  <1> QED
    BY <1>5, <1>6, <1>9, <1>14, <1>15

\* g[i] are the first i of the l sequences in ss, one behind the other.
JoinsAll(g, ss, l) == /\ g = [i \in 1..l |-> g[i]]
                      /\ \A i \in 1..l : g[i] = IF i = 1 THEN ss[i] ELSE g[i - 1] \o ss[i]

LEMMA FlattenIs ==
    ASSUME NEW ss, NEW l \in Nat, l # 0, Len(ss) = l, NEW g, JoinsAll(g, ss, l)
    PROVE  Building!FlattenSeq(ss) = g[l]
  <1> DEFINE IsIt(f) == f = [i \in 1..Len(ss) |-> IF i = 1 THEN ss[i] ELSE f[i - 1] \o ss[i]]
             chosen == CHOOSE f : IsIt(f)
  <1>1. IsIt(g)
    BY DEF JoinsAll
  <1>2. IsIt(chosen)
    <2> HIDE DEF IsIt
    <2> QED
      BY <1>1
  <1>3. Building!FlattenSeq(ss) = chosen[Len(ss)]
    <2>1. Len(ss) # 0
      OBVIOUS
    <2>2. Building!FlattenSeq(ss) = IF Len(ss) = 0 THEN ss ELSE chosen[Len(ss)]
      BY Zenon DEF Building!FlattenSeq
    <2> HIDE DEF chosen
    <2> QED
      BY <2>1, <2>2
  <1>4. PICK f : f = chosen /\ IsIt(f)
    <2> HIDE DEF chosen, IsIt
    <2> QED
      BY <1>2
  <1> HIDE DEF chosen
  <1>5. \A i \in 1..l : f[i] = IF i = 1 THEN ss[i] ELSE f[i - 1] \o ss[i]
    BY <1>4
  <1> HIDE DEF IsIt
  <1> DEFINE Counts == {d \in 0..l - 1 : f[d + 1] = g[d + 1]}
  <1>6. 0 \in Counts
    <2>1. 1 \in 1..l /\ 0 \in 0..l - 1 /\ 0 + 1 = 1
      OBVIOUS
    <2>2. f[1] = ss[1] /\ g[1] = ss[1]
      BY <1>5, <2>1 DEF JoinsAll
    <2>3. f[0 + 1] = g[0 + 1]
      BY <2>1, <2>2
    <2> QED
      BY <2>1, <2>3
  <1>7. ASSUME NEW d \in 0..(l - 1) - 1, d \in Counts PROVE d + 1 \in Counts
    <2>1. PICK i \in Nat : i = d + 1
      OBVIOUS
    <2>2. PICK k \in 1..l : k = i + 1 /\ k # 1 /\ k - 1 = i
      BY <2>1
    <2>3. f[i] = g[i]
      BY <1>7, <2>1
    <2>4. f[k] = f[i] \o ss[k] /\ g[k] = g[i] \o ss[k]
      BY <1>5, <2>2 DEF JoinsAll
    <2>5. i \in 0..l - 1 /\ f[i + 1] = g[i + 1]
      <3>1. f[k] = g[k]
        BY <2>3, <2>4
      <3>2. k <= l /\ l \in Nat
        BY <2>2
      <3> QED
        BY <2>1, <2>2, <3>1, <3>2
    <2> QED
      BY <2>1, <2>5
  <1> HIDE DEF Counts
  <1>8. l - 1 \in Counts
    <2>1. PICK n \in Nat : n = l - 1
      OBVIOUS
    <2>2. \A d \in 0..n : d \in Counts
      BY <1>6, <1>7, <2>1, CountUp
    <2> QED
      BY <2>1, <2>2
  <1>9. f[l] = g[l]
    BY <1>8 DEF Counts
  <1> QED
    BY <1>3, <1>4, <1>9

\* g[i] is what the first i of the buffers q hold.
Joined(bs, q, g, j) ==
    /\ g \in [1..j -> Seq(Built)]
    /\ \A i \in 1..j : g[i] = IF i = 1 THEN bs[q[i]].Data ELSE g[i - 1] \o bs[q[i]].Data

\* All buffers behind the j-th are empty.
EmptyBehind(bs, q, j) == \A i \in 1..Len(q) : i > j => bs[q[i]].Data = <<>>

LEMMA CombinedIs ==
    ASSUME Building!BuilderAssumption, buffers \in BuiltBuffers, NEW r, NEW n, Ranked(buffers, r, n),
           NEW q, IsChainOf(buffers, q), NEW j \in 1..Len(q), NEW g, Joined(buffers, q, g, j),
           EmptyBehind(buffers, q, j)
    PROVE  Building!Combined = g[j]
  <1>1. PICK l \in Nat : l = Len(q) /\ l # 0 /\ j \in 1..l
    BY DEF IsChainOf
  <1>2. q \in Seq(Buffer) /\ \A i \in 1..l : q[i] \in Buffer /\ buffers[q[i]].Data \in Seq(Built)
    BY <1>1 DEF IsChainOf, BuiltBuffers
  <1>3. PICK ss : ss = [i \in 1..l |-> buffers[q[i]].Data]
    OBVIOUS
  <1>4. Building!Combined = Building!FlattenSeq(ss)
    <2>1. Building!Chain(Base) = q
      BY ChainIs
    <2>2. DOMAIN q = 1..l
      BY <1>1, <1>2
    <2> QED
      BY <1>3, <2>1, <2>2 DEF Building!Combined
  <1>5. Len(ss) = l
    BY <1>3
  <1>6. PICK h : h = [i \in 1..l |-> IF i <= j THEN g[i] ELSE g[j]]
    OBVIOUS
  <1>7. ASSUME NEW i \in 1..l
        PROVE  h[i] = IF i = 1 THEN ss[i] ELSE h[i - 1] \o ss[i]
    <2>1. ss[i] = buffers[q[i]].Data
      BY <1>3
    <2>2. CASE i <= j
      <3>1. i \in 1..j
        BY <1>1, <2>2
      <3>2. h[i] = g[i] /\ (i # 1 => h[i - 1] = g[i - 1])
        BY <1>1, <1>6, <2>2
      <3> QED
        BY <2>1, <3>1, <3>2 DEF Joined
    <2>3. CASE ~(i <= j)
      <3>1. PICK k \in 1..l : k = i - 1 /\ k >= j /\ i # 1 /\ i > j
        BY <1>1, <2>3
      <3>2. h[i] = g[j] /\ h[k] = g[j]
        BY <1>1, <1>6, <3>1
      <3>3. ss[i] = <<>>
        BY <1>1, <2>1, <3>1 DEF EmptyBehind
      <3>4. g[j] \in Seq(Built)
        BY <1>1 DEF Joined
      <3>5. g[j] \o <<>> = g[j]
        BY <3>4, ConcatEmptySeq
      <3> QED
        BY <3>1, <3>2, <3>3, <3>5
    <2> QED
      BY <2>2, <2>3
  <1>8. JoinsAll(h, ss, l)
    <2>1. h = [i \in 1..l |-> h[i]]
      BY <1>6
    <2> QED
      BY <1>7, <2>1 DEF JoinsAll
  <1>9. Building!FlattenSeq(ss) = h[l]
    BY <1>1, <1>5, <1>8, FlattenIs
  <1>10. h[l] = g[j]
    BY <1>1, <1>6
  <1> QED
    BY <1>4, <1>9, <1>10

\* In the memory m the first j of the buffers q, up to the current one, hold v together.
Placed(m, v, q, j, g) ==
    /\ IsChainOf(m.buffers, q) /\ j \in 1..Len(q) /\ j <= m.builder.IndirectionCount + 1
    /\ q[j] = Building!Current(m) /\ \A i \in 1..j : q[i] \in m.live
    /\ Joined(m.buffers, q, g, j) /\ g[j] = v
    /\ Len(v) <= (j - 1) * BUFFER_SIZE + Len(m.buffers[q[j]].Data)
    /\ (\A i \in 1..Len(q) : q[i] \in m.live) => EmptyBehind(m.buffers, q, j)

\* Of any memory: no buffer has more than it has room for, and none is behind itself.
SoundMemory(m) ==
    /\ m \in BuilderMemories
    /\ \A b \in Buffer : Len(m.buffers[b].Data) <= BUFFER_SIZE
    /\ \E r, n : Ranked(m.buffers, r, n)

BuilderHas(m, v) ==
    /\ SoundMemory(m) /\ v \in Seq(Built)
    /\ \E q, j, g : Placed(m, v, q, j, g)

\* Where only what the buffers hold changes, ranks and chains stay.
LEMMA SameChain ==
    ASSUME NEW bs \in BuiltBuffers, NEW cs \in BuiltBuffers, \A b \in Buffer : cs[b].Next = bs[b].Next
    PROVE  /\ \A r, n : Ranked(bs, r, n) => Ranked(cs, r, n)
           /\ \A q : IsChainOf(bs, q) => IsChainOf(cs, q)
  <1>1. ASSUME NEW r, NEW n, Ranked(bs, r, n) PROVE Ranked(cs, r, n)
    BY <1>1 DEF Ranked
  <1>2. ASSUME NEW q, IsChainOf(bs, q) PROVE IsChainOf(cs, q)
    <2>1. \A i \in 1..Len(q) : q[i] \in Buffer
      BY <1>2 DEF IsChainOf
    <2> QED
      BY <1>2, <2>1 DEF IsChainOf
  <1> QED
    BY <1>1, <1>2

LEMMA BuilderCurrent ==
    ASSUME Building!BuilderAssumption, NEW m \in BuilderMemories
    PROVE  Building!Current(m) \in Buffer
  BY DEF Building!BuilderAssumption, BuilderMemories, Building!Current

LEMMA BuiltThree ==
    ASSUME NEW s \in Seq(Built), NEW t \in Seq(Built), NEW u \in Seq(Built)
    PROVE  (s \o t) \o u = s \o (t \o u)
  BY ConcatAssociative

\* The current buffer has room for t.
WriteFits(m, t) == Len(m.buffers[Building!Current(m)].Data) + Len(t) <= BUFFER_SIZE

LEMMA WriteHas ==
    ASSUME Building!BuilderAssumption, NEW m, NEW v, BuilderHas(m, v), NEW t \in Seq(Built), WriteFits(m, t)
    PROVE  /\ BuilderHas(Building!Write(m, Building!Current(m), t), v \o t)
           /\ Building!Write(m, Building!Current(m), t).live = m.live
  <1>1. PICK x \in Buffer : x = Building!Current(m)
    BY BuilderCurrent DEF BuilderHas, SoundMemory
  <1>2. PICK w : w = Building!Write(m, x, t)
    OBVIOUS
  <1>3. /\ m \in BuilderMemories /\ v \in Seq(Built) /\ m.buffers \in BuiltBuffers
        /\ \A b \in Buffer : m.buffers[b].Data \in Seq(Built) /\ Len(m.buffers[b].Data) <= BUFFER_SIZE
        /\ BUFFER_SIZE \in Nat
    BY DEF BuilderHas, SoundMemory, BuilderMemories, BuiltBuffers, Building!BuilderAssumption
  <1>4. PICK d \in Seq(Built) : d = m.buffers[x].Data \o t /\ Len(d) = Len(m.buffers[x].Data) + Len(t)
    <2>1. m.buffers[x].Data \in Seq(Built)
      BY <1>3
    <2> QED
      BY <2>1, ConcatProperties
  <1>5. /\ w \in BuilderMemories /\ w.live = m.live /\ w.builder = m.builder
        /\ \A b \in Buffer : /\ w.buffers[b].Next = m.buffers[b].Next
                             /\ w.buffers[b].Data = IF b = x THEN d ELSE m.buffers[b].Data
    BY <1>2, <1>3, <1>4 DEF Building!Write, BuilderMemories, BuiltBuffers
  <1>6. w.buffers \in BuiltBuffers
    BY <1>5 DEF BuilderMemories
  <1>7. SoundMemory(w)
    <2>1. PICK r, n : Ranked(m.buffers, r, n)
      BY DEF BuilderHas, SoundMemory
    <2>2. Ranked(w.buffers, r, n)
      BY <1>3, <1>5, <1>6, <2>1, SameChain
    <2>3. \A b \in Buffer : Len(w.buffers[b].Data) <= BUFFER_SIZE
      BY <1>1, <1>3, <1>4, <1>5 DEF WriteFits
    <2> QED
      BY <1>5, <2>2, <2>3 DEF SoundMemory
  <1>8. PICK q, j, g : Placed(m, v, q, j, g)
    BY DEF BuilderHas
  <1>9. PICK l \in Nat : l = Len(q) /\ j \in 1..l
    BY <1>8 DEF Placed, IsChainOf
  <1>10. /\ IsChainOf(m.buffers, q) /\ j <= m.builder.IndirectionCount + 1 /\ q[j] = x
         /\ \A i \in 1..j : q[i] \in m.live
         /\ Joined(m.buffers, q, g, j) /\ g[j] = v
         /\ Len(v) <= (j - 1) * BUFFER_SIZE + Len(m.buffers[q[j]].Data)
         /\ (\A i \in 1..l : q[i] \in m.live) => EmptyBehind(m.buffers, q, j)
    BY <1>1, <1>8, <1>9 DEF Placed
  <1>11. \A i \in 1..l : q[i] \in Buffer /\ (q[i] = x <=> i = j)
    BY <1>9, <1>10 DEF IsChainOf
  <1>12. PICK h : h = [i \in 1..j |-> IF i = j THEN v \o t ELSE g[i]]
    OBVIOUS
  <1>13. PICK u \in Seq(Built) : u = v \o t /\ Len(u) = Len(v) + Len(t)
    BY <1>3, ConcatProperties
  <1>14. Joined(w.buffers, q, h, j)
    <2>1. \A i \in 1..j : g[i] \in Seq(Built)
      BY <1>10 DEF Joined
    <2>2. h \in [1..j -> Seq(Built)]
      BY <1>12, <1>13, <2>1
    <2>4. \A i \in 1..j : h[i] = IF i = j THEN u ELSE g[i]
      BY <1>12, <1>13
    <2>3. ASSUME NEW i \in 1..j
          PROVE  h[i] = IF i = 1 THEN w.buffers[q[i]].Data ELSE h[i - 1] \o w.buffers[q[i]].Data
      <3>1. i \in 1..l /\ g[i] = IF i = 1 THEN m.buffers[q[i]].Data ELSE g[i - 1] \o m.buffers[q[i]].Data
        <4>1. i \in 1..l
          BY <1>9
        <4>2. g[i] = IF i = 1 THEN m.buffers[q[i]].Data ELSE g[i - 1] \o m.buffers[q[i]].Data
          BY <1>10 DEF Joined
        <4> QED
          BY <4>1, <4>2
      <3>2. i # 1 => i - 1 \in 1..j /\ i - 1 # j
        BY <1>9
      <3>3. i # 1 => h[i - 1] = g[i - 1]
        BY <2>4, <3>2
      <3>4. CASE i # j
        <4>1. w.buffers[q[i]].Data = m.buffers[q[i]].Data
          BY <1>5, <1>11, <3>1, <3>4
        <4>2. h[i] = g[i]
          BY <2>4, <3>4
        <4> QED
          BY <3>1, <3>3, <4>1, <4>2, Zenon
      <3>5. CASE i = j
        <4>1. w.buffers[q[i]].Data = m.buffers[q[i]].Data \o t /\ g[i] = v /\ h[i] = v \o t
          <5>1. w.buffers[q[i]].Data = m.buffers[q[i]].Data \o t
            BY <1>4, <1>5, <1>11, <3>1, <3>5
          <5>2. g[i] = v
            BY <1>10, <3>5
          <5>3. h[i] = v \o t
            BY <1>13, <2>4, <3>5
          <5> QED
            BY <5>1, <5>2, <5>3
        <4>2. PICK e \in Seq(Built) : e = m.buffers[q[i]].Data
          BY <1>3, <1>11, <3>1
        <4>3. CASE i = 1
          BY <3>1, <4>1, <4>3, Zenon
        <4>4. CASE i # 1
          <5>1. PICK f \in Seq(Built) : f = g[i - 1]
            BY <2>1, <3>2, <4>4
          <5>2. v = f \o e
            BY <3>1, <4>1, <4>2, <4>4, <5>1, Zenon
          <5>3. (f \o e) \o t = f \o (e \o t)
            BY <4>2, <5>1, BuiltThree
          <5> QED
            BY <3>3, <4>1, <4>2, <4>4, <5>1, <5>2, <5>3, Zenon
        <4> QED
          BY <4>3, <4>4, Zenon
      <3> QED
        BY <3>4, <3>5
    <2> QED
      BY <2>2, <2>3 DEF Joined
  <1>15. Len(u) <= (j - 1) * BUFFER_SIZE + Len(w.buffers[q[j]].Data)
    <2>1. PICK p \in Int : p = (j - 1) * BUFFER_SIZE
      BY <1>3, <1>9
    <2>2. PICK a \in Nat, c \in Nat, k \in Nat : a = Len(v) /\ c = Len(m.buffers[x].Data) /\ k = Len(t)
      <3>1. m.buffers[x].Data \in Seq(Built)
        BY <1>3
      <3> QED
        BY <1>3, <3>1
    <2>3. w.buffers[q[j]].Data = d /\ Len(d) = c + k /\ Len(u) = a + k /\ a <= p + c
      <3>1. w.buffers[q[j]].Data = d
        BY <1>5, <1>10
      <3>2. Len(d) = c + k
        BY <1>4, <2>2
      <3>3. Len(u) = a + k
        BY <1>13, <2>2
      <3>4. a <= p + c
        BY <1>10, <2>1, <2>2
      <3> QED
        BY <3>1, <3>2, <3>3, <3>4
    <2>4. a + k <= p + (c + k)
      <3>1. a <= p + c
        BY <2>3
      <3> QED
        BY <3>1
    <2>5. Len(u) = a + k /\ Len(w.buffers[q[j]].Data) = c + k
      BY <2>3
    <2> QED
      BY <2>1, <2>4, <2>5, Zenon
  <1>16. Placed(w, u, q, j, h)
    <2>1. IsChainOf(w.buffers, q)
      BY <1>3, <1>5, <1>6, <1>10, SameChain
    <2>2. Building!Current(w) = x
      BY <1>1, <1>5 DEF Building!Current
    <2>3. EmptyBehind(m.buffers, q, j) => EmptyBehind(w.buffers, q, j)
      <3>1. \A i \in 1..l : i > j => q[i] \in Buffer /\ q[i] # x
        BY <1>9, <1>11
      <3> QED
        BY <1>5, <1>9, <3>1 DEF EmptyBehind
    <2>4. h[j] = u
      BY <1>9, <1>12, <1>13
    <2> QED
      BY <1>5, <1>9, <1>10, <1>14, <1>15, <2>1, <2>2, <2>3, <2>4 DEF Placed
  <1>17. BuilderHas(w, u)
    BY <1>7, <1>16 DEF BuilderHas
  <1> QED
    BY <1>1, <1>2, <1>5, <1>13, <1>17

\* A new buffer behind the current one.
LEMMA ChainedHas ==
    ASSUME Building!BuilderAssumption, NEW m, NEW v, BuilderHas(m, v), NEW y \in Buffer, y \notin m.live,
           NEW c, c = Building!Chained(m)
    PROVE  /\ BuilderHas(c, v) /\ c.buffers[Building!Current(c)].Data = <<>>
           /\ \E b \in Buffer : b \notin m.live /\ c.live = m.live \cup {b}
  <1>1. PICK x \in Buffer : x = Building!Current(m)
    BY BuilderCurrent DEF BuilderHas, SoundMemory
  <1>2. PICK b : b \in Buffer /\ b \notin m.live /\ b = CHOOSE e \in Buffer : e \notin m.live
    OBVIOUS
  <1>3. /\ m \in BuilderMemories /\ v \in Seq(Built) /\ m.buffers \in BuiltBuffers
        /\ m.builder.IndirectionCount \in Nat /\ NoBuffer \notin Buffer
        /\ BUFFER_SIZE \in Nat /\ Built = Building!Bytes
        /\ \A e \in Buffer : Len(m.buffers[e].Data) <= BUFFER_SIZE
    BY DEF BuilderHas, SoundMemory, BuilderMemories, Building!BuilderAssumption, Built
  <1>4. PICK q, j, g : Placed(m, v, q, j, g)
    BY DEF BuilderHas
  <1>5. PICK l \in Nat : l = Len(q) /\ j \in 1..l
    BY <1>4 DEF Placed, IsChainOf
  <1>6. /\ IsChainOf(m.buffers, q) /\ j <= m.builder.IndirectionCount + 1 /\ q[j] = x
        /\ \A i \in 1..j : q[i] \in m.live
        /\ Joined(m.buffers, q, g, j) /\ g[j] = v
        /\ Len(v) <= (j - 1) * BUFFER_SIZE + Len(m.buffers[q[j]].Data)
    BY <1>1, <1>4 DEF Placed
  <1>7. x # b
    BY <1>2, <1>5, <1>6
  <1>8. PICK z : z = Building!NewBuffer /\ z.Data = <<>> /\ z.Next = NoBuffer
                 /\ z \in [Data : Seq(Built), Next : Buffer \cup {NoBuffer}]
    <2>1. <<>> \in Seq(Built)
      BY EmptySeq
    <2>2. PICK z : z = Building!NewBuffer
      OBVIOUS
    <2>3. z = [Data |-> <<>>, Next |-> NoBuffer]
      BY <2>2 DEF Building!NewBuffer
    <2>4. z.Data = <<>> /\ z.Next = NoBuffer /\ z \in [Data : Seq(Built), Next : Buffer \cup {NoBuffer}]
      BY <2>1, <2>3
    <2> QED
      BY <2>2, <2>4
  <1>9. c = [buffers |-> [m.buffers EXCEPT ![b] = z, ![x].Next = b], live |-> m.live \cup {b},
             builder |-> [CurrentBuffer |-> b, IndirectionCount |-> m.builder.IndirectionCount + 1]]
    BY <1>1, <1>2, <1>8, Zenon DEF Building!Chained
  <1>10. PICK bs : bs = [m.buffers EXCEPT ![b] = z, ![x].Next = b]
    OBVIOUS
  <1>11. /\ c.buffers = bs /\ c.live = m.live \cup {b} /\ c.builder.CurrentBuffer = b
         /\ c.builder.IndirectionCount = m.builder.IndirectionCount + 1
         /\ c.builder = [CurrentBuffer |-> b, IndirectionCount |-> m.builder.IndirectionCount + 1]
         /\ c = [buffers |-> bs, live |-> m.live \cup {b}, builder |-> c.builder]
    BY <1>9, <1>10
  <1>12. \A e \in Buffer : /\ m.buffers[e] \in [Data : Seq(Built), Next : Buffer \cup {NoBuffer}]
                           /\ bs[e] = IF e = b THEN z ELSE IF e = x THEN [m.buffers[e] EXCEPT !.Next = b]
                                      ELSE m.buffers[e]
    BY <1>1, <1>2, <1>3, <1>7, <1>10 DEF BuiltBuffers
  <1>13. \A e \in Buffer : /\ bs[e].Next = IF e = b THEN NoBuffer ELSE IF e = x THEN b ELSE m.buffers[e].Next
                           /\ bs[e].Data = IF e = b THEN <<>> ELSE m.buffers[e].Data
    BY <1>7, <1>8, <1>12
  <1>14. bs \in BuiltBuffers
    <2>1. \A e \in Buffer : bs[e] \in [Data : Seq(Built), Next : Buffer \cup {NoBuffer}]
      BY <1>2, <1>8, <1>12
    <2>2. bs = [e \in Buffer |-> bs[e]]
      BY <1>3, <1>10 DEF BuiltBuffers
    <2> QED
      BY <2>1, <2>2 DEF BuiltBuffers
  <1>15. c \in BuilderMemories
    BY <1>2, <1>3, <1>11, <1>14 DEF BuilderMemories
  <1>16. SoundMemory(c)
    <2>1. PICK r, n : Ranked(m.buffers, r, n)
      BY DEF BuilderHas, SoundMemory
    <2>2. n \in Nat /\ \A e \in Buffer : r[e] \in 0..n - 1 /\ (m.buffers[e].Next # NoBuffer => r[m.buffers[e].Next] < r[e])
      BY <2>1 DEF Ranked
    <2>3. PICK p : p = [e \in Buffer |-> IF e = b THEN 0 ELSE r[e] + 1]
      OBVIOUS
    <2>4. p \in [Buffer -> 0..(n + 1) - 1]
      BY <2>2, <2>3
    <2>5. ASSUME NEW e \in Buffer, bs[e].Next # NoBuffer PROVE p[bs[e].Next] < p[e]
      <3>1. e # b /\ p[e] = r[e] + 1 /\ r[e] \in Nat
        BY <1>13, <2>2, <2>3, <2>5
      <3>2. CASE e = x
        BY <1>2, <1>7, <1>13, <2>3, <3>1, <3>2
      <3>3. CASE e # x
        <4>1. PICK k \in Buffer : k = bs[e].Next /\ k = m.buffers[e].Next
          BY <1>12, <1>13, <2>5, <3>1, <3>3
        <4>2. r[k] < r[e] /\ r[k] \in Nat
          BY <1>3, <2>2, <4>1
        <4>3. p[k] <= r[k] + 1
          BY <2>3, <4>2
        <4>4. p[k] \in Int
          BY <2>4
        <4> QED
          BY <3>1, <4>1, <4>2, <4>3, <4>4
      <3> QED
        BY <3>2, <3>3
    <2>6. Ranked(bs, p, n + 1)
      BY <2>2, <2>4, <2>5 DEF Ranked
    <2>7. \A e \in Buffer : Len(bs[e].Data) <= BUFFER_SIZE
      <3>1. Len(<<>>) = 0
        BY EmptySeq
      <3> QED
        BY <1>3, <1>13, <3>1
    <2> QED
      BY <1>11, <1>15, <2>6, <2>7 DEF SoundMemory
  <1>17. PICK n \in Nat : n = j + 1 /\ n - 1 = j /\ j \in 1..n
    BY <1>5
  <1>18. PICK p : p = [i \in 1..n |-> IF i = n THEN b ELSE q[i]]
    OBVIOUS
  <1>19. \A i \in 1..n : (i # n => i \in 1..j /\ i \in 1..l) /\ p[i] = IF i = n THEN b ELSE q[i]
    BY <1>5, <1>17, <1>18
  <1>20. \A i \in 1..l : q[i] \in Buffer
    BY <1>5, <1>6 DEF IsChainOf
  <1>21. p \in Seq(Buffer) /\ Len(p) = n
    BY <1>2, <1>18, <1>19, <1>20
  <1>22. IsChainOf(bs, p)
    <2>1. p[1] = Base
      <3>1. 1 \in 1..n /\ 1 # n
        BY <1>5, <1>17
      <3> QED
        BY <1>6, <1>19, <3>1 DEF IsChainOf
    <2>2. ASSUME NEW i \in 1..n PROVE bs[p[i]].Next = IF i = n THEN NoBuffer ELSE p[i + 1]
      <3>1. CASE i = n
        BY <1>2, <1>13, <1>19, <3>1
      <3>2. CASE i # n
        <4>1. i \in 1..j /\ i \in 1..l /\ p[i] = q[i] /\ q[i] \in Buffer /\ q[i] # b
          BY <1>2, <1>6, <1>19, <1>20, <3>2
        <4>2. i + 1 \in 1..n
          BY <1>17, <3>2
        <4>3. CASE i = j
          <5>1. i + 1 = n /\ q[i] = x
            BY <1>6, <1>17, <4>3
          <5>2. p[i + 1] = b
            BY <1>19, <4>2, <5>1
          <5> QED
            BY <1>13, <3>2, <4>1, <5>1, <5>2
        <4>4. CASE i # j
          <5>1. i + 1 # n /\ i # l
            BY <1>5, <1>17, <4>1, <4>4
          <5>2. p[i + 1] = q[i + 1]
            BY <1>19, <4>2, <5>1
          <5>3. j \in 1..l /\ q[i] # x
            BY <1>5, <1>6, <4>1, <4>4 DEF IsChainOf
          <5>4. m.buffers[q[i]].Next = q[i + 1]
            BY <1>5, <1>6, <4>1, <5>1 DEF IsChainOf
          <5> QED
            BY <1>13, <3>2, <4>1, <5>2, <5>3, <5>4
        <4> QED
          BY <4>3, <4>4
      <3> QED
        BY <3>1, <3>2
    <2>3. ASSUME NEW i \in 1..n, NEW k \in 1..n, p[i] = p[k] PROVE i = k
      <3>1. \A e \in 1..n : e # n => e \in 1..l /\ p[e] = q[e] /\ q[e] # b
        BY <1>2, <1>6, <1>19
      <3>2. p[n] = b /\ n \in 1..n
        BY <1>5, <1>17, <1>19
      <3>3. \A e, f \in 1..l : q[e] = q[f] => e = f
        BY <1>5, <1>6 DEF IsChainOf
      <3> QED
        BY <2>3, <3>1, <3>2, <3>3
    <2>4. n # 0
      BY <1>17, <1>5
    <2> QED
      BY <1>21, <2>1, <2>2, <2>3, <2>4 DEF IsChainOf
  <1>23. PICK h : h = [i \in 1..n |-> IF i = n THEN v ELSE g[i]]
    OBVIOUS
  <1>24. Joined(bs, p, h, n)
    <2>1. \A i \in 1..j : g[i] \in Seq(Built) /\ g[i] = IF i = 1 THEN m.buffers[q[i]].Data
                                                      ELSE g[i - 1] \o m.buffers[q[i]].Data
      BY <1>6 DEF Joined
    <2>2. h \in [1..n -> Seq(Built)]
      BY <1>3, <1>19, <1>23, <2>1
    <2>3. ASSUME NEW i \in 1..n
          PROVE  h[i] = IF i = 1 THEN bs[p[i]].Data ELSE h[i - 1] \o bs[p[i]].Data
      <3>1. CASE i = n
        <4>1. i # 1 /\ i - 1 = j /\ j \in 1..n /\ j # n
          BY <1>5, <1>17, <3>1
        <4>2. h[j] = v /\ h[i] = v
          BY <1>6, <1>23, <3>1, <4>1
        <4>3. bs[p[i]].Data = <<>>
          BY <1>2, <1>13, <1>19, <3>1
        <4>4. v \o <<>> = v
          BY <1>3, ConcatEmptySeq
        <4> QED
          BY <4>1, <4>2, <4>3, <4>4
      <3>2. CASE i # n
        <4>1. i \in 1..j /\ p[i] = q[i] /\ q[i] \in Buffer /\ q[i] # b
          BY <1>2, <1>6, <1>19, <1>20, <3>2
        <4>2. bs[p[i]].Data = m.buffers[q[i]].Data /\ h[i] = g[i]
          BY <1>13, <1>23, <3>2, <4>1
        <4>3. CASE i = 1
          BY <2>1, <4>1, <4>2, <4>3
        <4>4. CASE i # 1
          <5>1. i - 1 \in 1..n /\ i - 1 # n
            BY <1>17, <4>4
          <5>2. h[i - 1] = g[i - 1]
            BY <1>23, <5>1
          <5> QED
            BY <2>1, <4>1, <4>2, <4>4, <5>2
        <4> QED
          BY <4>3, <4>4
      <3> QED
        BY <3>1, <3>2
    <2> QED
      BY <2>2, <2>3 DEF Joined
  <1>25. Len(v) <= (n - 1) * BUFFER_SIZE + Len(bs[p[n]].Data)
    <2>1. PICK s \in Nat : s = BUFFER_SIZE
      BY <1>3
    <2>2. PICK a \in Nat, d \in Nat : a = Len(v) /\ d = Len(m.buffers[x].Data) /\ d <= s
      <3>1. m.buffers[x].Data \in Seq(Built)
        BY <1>3 DEF BuiltBuffers
      <3> QED
        BY <1>3, <2>1, <3>1
    <2>3. a <= (j - 1) * s + d
      BY <1>6, <2>1, <2>2
    <2>4. j \in Int /\ (j - 1) * s + s = j * s
      BY <1>5
    <2>5. PICK k \in Int : k = (j - 1) * s
      BY <2>4
    <2>6. a <= j * s
      <3>1. a <= k + d /\ k + s = j * s
        BY <2>3, <2>4, <2>5
      <3> QED
        BY <2>2, <2>5, <3>1
    <2>7. Len(bs[p[n]].Data) = 0
      <3>1. p[n] = b
        BY <1>5, <1>17, <1>19
      <3>2. Len(<<>>) = 0
        BY EmptySeq
      <3> QED
        BY <1>2, <1>13, <3>1, <3>2
    <2>8. PICK e \in Int : e = j * s /\ a <= e + 0
      BY <2>2, <2>4, <2>6
    <2>9. e = (n - 1) * BUFFER_SIZE /\ a = Len(v)
      <3>1. n - 1 = j
        BY <1>17
      <3>2. a = Len(v)
        BY <2>2
      <3> QED
        BY <2>1, <2>8, <3>1, <3>2, Zenon
    <2> QED
      BY <2>7, <2>8, <2>9, Zenon
  <1>26. Building!Current(c) = b
    BY <1>2, <1>3, <1>11 DEF Building!Current
  <1>27. Placed(c, v, p, n, h)
    <2>1. n \in 1..Len(p) /\ n <= c.builder.IndirectionCount + 1
      BY <1>3, <1>5, <1>6, <1>11, <1>17, <1>21
    <2>2. p[n] = b /\ h[n] = v
      BY <1>19, <1>23, <2>1, <1>21
    <2>3. \A i \in 1..n : p[i] \in c.live
      BY <1>6, <1>11, <1>19
    <2>4. EmptyBehind(c.buffers, p, n)
      BY <1>21 DEF EmptyBehind
    <2> QED
      BY <1>11, <1>22, <1>24, <1>25, <1>26, <2>1, <2>2, <2>3, <2>4 DEF Placed
  <1>28. c.buffers[Building!Current(c)].Data = <<>>
    BY <1>2, <1>11, <1>13, <1>26
  <1> QED
    BY <1>2, <1>3, <1>11, <1>16, <1>27, <1>28 DEF BuilderHas

-----------------------------------------------------------------------------
(***************************************************************************)
(* string_append, buffer by buffer.                                        *)
(***************************************************************************)
FirstPiece(m, s, a) == Building!Write(m, Building!Current(m), Building!Part(s, 0, a))
NextPiece(m, s, from) == Building!Write(Building!Chained(m), Building!Current(Building!Chained(m)),
                                        Building!Part(s, from, BUFFER_SIZE))

\* f[k] is the memory with k more buffers; the first piece has room for a bytes.
Pieces(f, m, s, a, n) ==
    /\ DOMAIN f = 0..n /\ f[0] = FirstPiece(m, s, a)
    /\ \A k \in 0..n - 1 : f[k + 1] = NextPiece(f[k], s, a + k * BUFFER_SIZE)

LEMMA PiecesExist ==
    ASSUME NEW m, NEW s, NEW a, NEW n \in Nat
    PROVE  \E f : Pieces(f, m, s, a, n)
  <1> DEFINE Counts == {k \in 0..n : \E f : Pieces(f, m, s, a, k)}
  <1>1. 0 \in Counts
    <2>1. PICK f : f = [k \in 0..0 |-> FirstPiece(m, s, a)]
      OBVIOUS
    <2>2. DOMAIN f = 0..0 /\ f[0] = FirstPiece(m, s, a) /\ 0..(0 - 1) = {}
      BY <2>1
    <2>3. Pieces(f, m, s, a, 0)
      BY <2>2 DEF Pieces
    <2> QED
      BY <2>3
  <1>2. ASSUME NEW k \in 0..(n - 1), k \in Counts PROVE k + 1 \in Counts
    <2>1. PICK f : Pieces(f, m, s, a, k)
      BY <1>2
    <2>2. PICK o \in Nat : o = k + 1
      OBVIOUS
    <2>3. PICK y : y = NextPiece(f[k], s, a + k * BUFFER_SIZE)
      OBVIOUS
    <2>4. PICK g : g = [t \in 0..o |-> IF t = o THEN y ELSE f[t]]
      OBVIOUS
    <2>5. g[o] = y /\ DOMAIN g = 0..o /\ \A t \in 0..k : g[t] = f[t]
      BY <2>2, <2>4
    <2>6. g[0] = FirstPiece(m, s, a)
      BY <2>1, <2>5 DEF Pieces
    <2>7. ASSUME NEW t \in 0..(o - 1) PROVE g[t + 1] = NextPiece(g[t], s, a + t * BUFFER_SIZE)
      <3>1. t \in 0..k /\ g[t] = f[t]
        BY <2>2, <2>5
      <3>2. CASE t = k
        BY <2>2, <2>3, <2>5, <3>1, <3>2
      <3>3. CASE t # k
        <4>1. t \in 0..(k - 1) /\ t + 1 \in 0..k
          BY <3>1, <3>3
        <4> QED
          BY <2>1, <2>5, <3>1, <4>1 DEF Pieces
      <3> QED
        BY <3>2, <3>3
    <2>8. Pieces(g, m, s, a, o)
      BY <2>5, <2>6, <2>7 DEF Pieces
    <2> QED
      BY <2>2, <2>8
  <1> HIDE DEF Counts
  <1>3. \A k \in 0..n : k \in Counts
    BY <1>1, <1>2, CountUp
  <1>4. n \in Counts
    BY <1>3
  <1> QED
    BY <1>4 DEF Counts

LEMMA DivIs ==
    ASSUME NEW x \in Int, NEW b \in Nat, b # 0
    PROVE  x \div b \in Int /\ (x \div b) * b <= x /\ x < (x \div b) * b + b
  OBVIOUS

LEMMA MoreTimes ==
    ASSUME NEW x \in Int, NEW y \in Int, x <= y, NEW b \in Nat
    PROVE  x * b <= y * b
  OBVIOUS

LEMMA LargerOf ==
    ASSUME NEW x \in Int, NEW y \in Int
    PROVE  Building!Max({x, y}) = IF x < y THEN y ELSE x
  <1>1. PICK z \in {x, y} : z = IF x < y THEN y ELSE x
    OBVIOUS
  <1>2. z \in {x, y} /\ \A w \in {x, y} : z >= w
    BY <1>1
  <1>3. \A u \in {x, y} : (\A w \in {x, y} : u >= w) => u = z
    BY <1>2
  <1> QED
    BY <1>1, <1>2, <1>3 DEF Building!Max

LEMMA SmallerOf ==
    ASSUME NEW x \in Int, NEW y \in Int
    PROVE  Building!Min({x, y}) = IF x < y THEN x ELSE y
  <1>1. PICK z \in {x, y} : z = IF x < y THEN x ELSE y
    OBVIOUS
  <1>2. z \in {x, y} /\ \A w \in {x, y} : z <= w
    BY <1>1
  <1>3. \A u \in {x, y} : (\A w \in {x, y} : u <= w) => u = z
    BY <1>2
  <1> QED
    BY <1>1, <1>2, <1>3 DEF Building!Min

\* As many new buffers as l bytes need that find room for a in the current one.
PiecesOf(l, a, b) == Building!Max({(l - a + b - 1) \div b, 0})

LEMMA PiecesNeeded ==
    ASSUME NEW l \in Nat, NEW a \in Nat, NEW b \in Nat, b # 0, NEW free \in Nat, l <= free * b,
           NEW n, n = PiecesOf(l, a, b)
    PROVE  /\ n \in Nat /\ n <= free /\ l <= a + n * b
           /\ \A k \in Nat : k < n => a + k * b < l
  <1>1. PICK x \in Int : x = l - a + b - 1
    OBVIOUS
  <1>2. PICK d \in Int : d = x \div b /\ d * b <= x /\ x < d * b + b
    BY DivIs
  <1>3. n = (IF d < 0 THEN 0 ELSE d) /\ n \in Nat
    <2>1. n = Building!Max({d, 0})
      BY <1>1, <1>2 DEF PiecesOf
    <2> QED
      BY <2>1, LargerOf
  <1>4. PICK e \in Int : e = d * b /\ e <= x /\ x < e + b
    BY <1>2
  <1>5. n <= free
    <2>1. SUFFICES ASSUME ~(n <= free)
                   PROVE  FALSE
      OBVIOUS
    <2>2. n = d /\ free + 1 <= d
      BY <1>3, <2>1
    <2>3. (free + 1) * b <= e
      BY <1>4, <2>2, MoreTimes
    <2>4. PICK p \in Int : p = free * b /\ (free + 1) * b = p + b
      OBVIOUS
    <2> QED
      BY <1>1, <1>4, <2>3, <2>4
  <1>6. l <= a + n * b
    <2>1. e <= n * b
      BY <1>3, <1>4, MoreTimes
    <2>2. PICK p \in Int : p = n * b
      BY <1>3
    <2> QED
      BY <1>1, <1>4, <2>1, <2>2
  <1>7. ASSUME NEW k \in Nat, k < n PROVE a + k * b < l
    <2>1. n = d /\ k <= d - 1
      BY <1>3, <1>7
    <2>2. k * b <= (d - 1) * b
      BY <2>1, MoreTimes
    <2>3. PICK p \in Int : p = k * b
      OBVIOUS
    <2>4. (d - 1) * b = e - b
      BY <1>4
    <2> QED
      BY <1>1, <1>4, <2>2, <2>3, <2>4
  <1> QED
    BY <1>3, <1>5, <1>6, <1>7

\* What is written of s into a buffer, behind what was written before.
LEMMA PartIs ==
    ASSUME NEW s \in Seq(Built), NEW from \in Nat, from <= Len(s), NEW c \in Nat
    PROVE  \E t \in Nat : /\ from <= t /\ t <= Len(s) /\ t <= from + c /\ (t = Len(s) \/ t = from + c)
                          /\ Building!Part(s, from, c) \in Seq(Built)
                          /\ Len(Building!Part(s, from, c)) = t - from
                          /\ SubSeq(s, 1, from) \o Building!Part(s, from, c) = SubSeq(s, 1, t)
  <1>1. PICK l \in Nat : l = Len(s)
    OBVIOUS
  <1>2. PICK t \in Nat : t = IF from + c < l THEN from + c ELSE l
    <2>1. (IF from + c < l THEN from + c ELSE l) \in Nat
      OBVIOUS
    <2> QED
      BY <2>1
  <1>3. from <= t /\ t <= l /\ t <= from + c /\ (t = l \/ t = from + c)
    BY <1>1, <1>2
  <1>4. PICK p : p = Building!Part(s, from, c)
    OBVIOUS
  <1>5. p = SubSeq(s, from + 1, t)
    <2>1. Building!Min({from + c, l}) = t
      BY <1>1, <1>2, SmallerOf
    <2> QED
      BY <1>1, <1>4, <2>1 DEF Building!Part
  <1>6. p \in Seq(Built) /\ Len(p) = t - from
    BY <1>1, <1>3, <1>5
  <1>7. SubSeq(s, 1, from) \o p = SubSeq(s, 1, t)
    BY <1>1, <1>3, <1>5, ConcatAdjacentSubSeq
  <1> QED
    BY <1>1, <1>3, <1>4, <1>6, <1>7

LEMMA AppendedIs ==
    ASSUME NEW m, NEW s, NEW a \in Int, a = BUFFER_SIZE - Len(m.buffers[Building!Current(m)].Data),
           NEW n \in Nat, n = PiecesOf(Len(s), a, BUFFER_SIZE),
           BUFFER_SIZE \in Nat
    PROVE  \E f : Pieces(f, m, s, a, n) /\ Building!Appended(m, s) = f[n]
  <1> DEFINE IsIt(g) == g = [k \in 0..n |-> IF k = 0 THEN FirstPiece(m, s, a)
                                            ELSE NextPiece(g[k - 1], s, a + (k - 1) * BUFFER_SIZE)]
             chosen == CHOOSE g : IsIt(g)
  <1>1. PICK f : Pieces(f, m, s, a, n)
    BY PiecesExist
  <1>2. PICK h : h = [t \in 0..n |-> f[t]]
    OBVIOUS
  <1>3. ASSUME NEW t \in 0..n
        PROVE  h[t] = IF t = 0 THEN FirstPiece(m, s, a) ELSE NextPiece(h[t - 1], s, a + (t - 1) * BUFFER_SIZE)
    <2>1. CASE t = 0
      BY <1>1, <1>2, <2>1 DEF Pieces
    <2>2. CASE t # 0
      <3>1. PICK u \in 0..(n - 1) : u = t - 1
        BY <2>2
      <3>2. u + 1 = t /\ u \in 0..n
        BY <3>1
      <3>3. f[t] = NextPiece(f[u], s, a + u * BUFFER_SIZE)
        BY <1>1, <3>1, <3>2 DEF Pieces
      <3>4. h[t] = f[t] /\ h[t - 1] = f[u]
        BY <1>2, <3>1, <3>2
      <3> QED
        BY <2>2, <3>1, <3>3, <3>4
    <2> QED
      BY <2>1, <2>2
  <1>4. IsIt(h)
    <2>1. h = [t \in 0..n |-> h[t]]
      BY <1>2
    <2>2. h = [t \in 0..n |-> IF t = 0 THEN FirstPiece(m, s, a)
                              ELSE NextPiece(h[t - 1], s, a + (t - 1) * BUFFER_SIZE)]
      BY <1>3, <2>1
    <2> QED
      BY <2>2
  <1>5. IsIt(chosen)
    <2> HIDE DEF IsIt
    <2> QED
      BY <1>4
  <1>6. Building!Appended(m, s) = chosen[n]
    BY Zenon DEF Building!Appended, FirstPiece, NextPiece, PiecesOf
  <1>7. PICK g : g = chosen /\ IsIt(g)
    BY <1>5
  <1> HIDE DEF chosen
  <1>8. DOMAIN g = 0..n /\ g[0] = FirstPiece(m, s, a)
    BY <1>7
  <1>9. ASSUME NEW t \in 0..(n - 1) PROVE g[t + 1] = NextPiece(g[t], s, a + t * BUFFER_SIZE)
    <2>1. PICK o \in 0..n : o = t + 1 /\ o # 0 /\ o - 1 = t
      OBVIOUS
    <2>2. g[o] = NextPiece(g[o - 1], s, a + (o - 1) * BUFFER_SIZE)
      BY <1>7, <2>1
    <2> QED
      BY <2>1, <2>2
  <1> HIDE DEF IsIt
  <1>10. Pieces(g, m, s, a, n)
    BY <1>8, <1>9 DEF Pieces
  <1>11. Building!Appended(m, s) = g[n]
    BY <1>6, <1>7
  <1> QED
    BY <1>10, <1>11

\* The buffers that are not allocated have room for s.
Leaves(m, s) == Building!Cardinality(Buffer \ m.live) * BUFFER_SIZE >= Len(s)

\* string_append: what the builder holds, and s behind it.
LEMMA AppendHas ==
    ASSUME Building!BuilderAssumption, NEW m, NEW v, BuilderHas(m, v), NEW s \in Seq(Built), Leaves(m, s)
    PROVE  BuilderHas(Building!Appended(m, s), v \o s)
  <1>1. PICK b \in Nat : b = BUFFER_SIZE /\ b # 0
    BY DEF Building!BuilderAssumption
  <1>2. PICK x \in Buffer : x = Building!Current(m)
    BY BuilderCurrent DEF BuilderHas, SoundMemory
  <1>3. m.buffers[x].Data \in Seq(Built) /\ Len(m.buffers[x].Data) <= b /\ m.live \subseteq Buffer
        /\ v \in Seq(Built)
    BY <1>1 DEF BuilderHas, SoundMemory, BuilderMemories, BuiltBuffers
  <1>4. PICK a \in Nat : a = b - Len(m.buffers[x].Data)
    <2>1. PICK d \in Nat : d = Len(m.buffers[x].Data) /\ d <= b
      BY <1>3
    <2>2. b - d \in Nat
      BY <2>1
    <2> QED
      BY <2>1, <2>2
  <1>5. IsFiniteSet(Buffer)
    BY Zenon DEF Building!BuilderAssumption, Building!IsFiniteSet, IsFiniteSet
  <1>6. \A T : Building!Cardinality(T) = Cardinality(T)
    BY Zenon DEF Building!Cardinality, Cardinality, Building!IsFiniteSet, IsFiniteSet
  <1>7. PICK l \in Nat : l = Len(s)
    OBVIOUS
  <1>8. PICK free \in Nat : free = Cardinality(Buffer \ m.live) /\ l <= free * b
    <2>1. Cardinality(Buffer \ m.live) \in Nat
      BY <1>5, FS_Difference, FS_CardinalityType
    <2>2. Cardinality(Buffer \ m.live) * b >= l
      BY <1>1, <1>6, <1>7 DEF Leaves
    <2>3. PICK free \in Nat : free = Cardinality(Buffer \ m.live)
      BY <2>1
    <2>4. free * b >= l
      BY <2>2, <2>3
    <2> QED
      BY <2>3, <2>4
  <1>9. PICK n : n = PiecesOf(l, a, b)
    OBVIOUS
  <1>10. n \in Nat /\ n <= free /\ l <= a + n * b /\ \A k \in Nat : k < n => a + k * b < l
    BY <1>1, <1>8, <1>9, PiecesNeeded
  <1>11. PICK f : Pieces(f, m, s, a, n) /\ Building!Appended(m, s) = f[n]
    <2>1. a = BUFFER_SIZE - Len(m.buffers[Building!Current(m)].Data)
      BY <1>1, <1>2, <1>4
    <2>2. n = PiecesOf(Len(s), a, BUFFER_SIZE) /\ n \in Nat /\ BUFFER_SIZE \in Nat
      BY <1>1, <1>7, <1>9, <1>10
    <2> QED
      BY <2>1, <2>2, AppendedIs
  <1> DEFINE Stands(k, t) ==
                 /\ BuilderHas(f[k], v \o SubSeq(s, 1, t))
                 /\ t <= l /\ (t = a + k * b \/ (t = l /\ l <= a + k * b))
                 /\ n - k <= Cardinality(Buffer \ f[k].live)
             Counts == {k \in 0..n : \E t \in Nat : Stands(k, t)}
  <1> HIDE DEF Stands
  <1>12. 0 \in Counts
    <2>1. PICK t \in Nat : /\ t <= l /\ t <= 0 + a /\ (t = l \/ t = 0 + a)
                           /\ Building!Part(s, 0, a) \in Seq(Built) /\ Len(Building!Part(s, 0, a)) = t - 0
                           /\ SubSeq(s, 1, 0) \o Building!Part(s, 0, a) = SubSeq(s, 1, t)
      <3>1. PICK from \in Nat : from = 0 /\ from <= Len(s)
        BY <1>7
      <3>2. \E t \in Nat : /\ from <= t /\ t <= Len(s) /\ t <= from + a /\ (t = Len(s) \/ t = from + a)
                           /\ Building!Part(s, from, a) \in Seq(Built)
                           /\ Len(Building!Part(s, from, a)) = t - from
                           /\ SubSeq(s, 1, from) \o Building!Part(s, from, a) = SubSeq(s, 1, t)
        BY <3>1, PartIs
      <3> QED
        BY <1>7, <3>1, <3>2, Zenon
    <2>2. PICK p \in Seq(Built) : p = Building!Part(s, 0, a) /\ Len(p) = t
      BY <2>1
    <2>3. p = SubSeq(s, 1, t)
      <3>1. SubSeq(s, 1, 0) = <<>>
        BY SubSeqEmpty
      <3>2. <<>> \o p = p
        BY ConcatEmptySeq
      <3> QED
        BY <2>1, <2>2, <3>1, <3>2
    <2>4. f[0] = Building!Write(m, Building!Current(m), p)
      BY <1>11, <2>2 DEF Pieces, FirstPiece
    <2>5. WriteFits(m, p)
      <3>1. PICK d \in Nat : d = Len(m.buffers[x].Data)
        BY <1>3
      <3>2. d + t <= b
        BY <1>4, <2>1, <3>1
      <3>3. Len(m.buffers[Building!Current(m)].Data) = d /\ Len(p) = t
        BY <1>2, <2>2, <3>1
      <3> QED
        BY <1>1, <1>2, <3>2, <3>3 DEF WriteFits
    <2>6. BuilderHas(f[0], v \o p) /\ f[0].live = m.live
      BY <2>4, <2>5, WriteHas
    <2>7. n - 0 <= Cardinality(Buffer \ f[0].live)
      BY <1>8, <1>10, <2>6
    <2>8. a + 0 * b = a /\ 0 + a = a /\ 0 \in 0..n
      BY <1>10
    <2>9. Stands(0, t)
      <3>1. t = a + 0 * b \/ (t = l /\ l <= a + 0 * b)
        BY <2>1, <2>8
      <3>2. BuilderHas(f[0], v \o SubSeq(s, 1, t))
        BY <2>3, <2>6
      <3> QED
        BY <2>1, <2>7, <3>1, <3>2 DEF Stands
    <2> QED
      BY <2>8, <2>9
  <1>13. ASSUME NEW k \in 0..n - 1, k \in Counts PROVE k + 1 \in Counts
    <2>1. PICK t \in Nat : Stands(k, t)
      BY <1>13
    <2>2. k \in Nat /\ k < n /\ n \in Nat /\ n - k >= 1
      BY <1>10
    <2>3. PICK from \in Nat : from = t /\ from = a + k * b /\ from < l
      <3>1. a + k * b < l
        BY <1>10, <2>2
      <3>2. PICK e \in Int : e = k * b
        BY <2>2
      <3>3. t = a + e
        BY <2>1, <3>1, <3>2 DEF Stands
      <3> QED
        BY <3>1, <3>2, <3>3
    <2>4. PICK g : g = f[k]
      OBVIOUS
    <2>5. BuilderHas(g, v \o SubSeq(s, 1, from)) /\ n - k <= Cardinality(Buffer \ g.live)
      BY <2>1, <2>3, <2>4 DEF Stands
    <2>6. \E y \in Buffer : y \notin g.live
      <3>1. SUFFICES ASSUME Buffer \ g.live = {}
                     PROVE  FALSE
        OBVIOUS
      <3>2. Cardinality(Buffer \ g.live) = 0
        BY <3>1, FS_EmptySet
      <3> QED
        BY <2>2, <2>5, <3>2
    <2>7. PICK c : c = Building!Chained(g)
      OBVIOUS
    <2>8. PICK u : u = v \o SubSeq(s, 1, from)
      OBVIOUS
    <2>9. /\ BuilderHas(c, u) /\ c.buffers[Building!Current(c)].Data = <<>>
          /\ \E y \in Buffer : y \notin g.live /\ c.live = g.live \cup {y}
      BY <2>5, <2>6, <2>7, <2>8, ChainedHas
    <2>10. PICK o \in Nat : /\ from <= o /\ o <= l /\ o <= from + b /\ (o = l \/ o = from + b)
                            /\ Building!Part(s, from, b) \in Seq(Built)
                            /\ Len(Building!Part(s, from, b)) = o - from
                            /\ SubSeq(s, 1, from) \o Building!Part(s, from, b) = SubSeq(s, 1, o)
      <3>1. from <= Len(s)
        BY <1>7, <2>3
      <3>2. \E o \in Nat : /\ from <= o /\ o <= Len(s) /\ o <= from + b /\ (o = Len(s) \/ o = from + b)
                           /\ Building!Part(s, from, b) \in Seq(Built)
                           /\ Len(Building!Part(s, from, b)) = o - from
                           /\ SubSeq(s, 1, from) \o Building!Part(s, from, b) = SubSeq(s, 1, o)
        BY <3>1, PartIs
      <3> QED
        BY <1>7, <3>2
    <2>11. PICK p \in Seq(Built) : p = Building!Part(s, from, b) /\ Len(p) <= b
      BY <2>10
    <2>12. f[k + 1] = Building!Write(c, Building!Current(c), p)
      BY <1>1, <1>11, <2>3, <2>4, <2>7, <2>11 DEF Pieces, NextPiece
    <2>13. WriteFits(c, p)
      <3>1. Len(<<>>) = 0 /\ Len(p) \in Nat
        BY EmptySeq
      <3> QED
        BY <1>1, <2>9, <2>11, <3>1 DEF WriteFits
    <2>14. BuilderHas(f[k + 1], u \o p) /\ f[k + 1].live = c.live
      <3>1. BuilderHas(c, u)
        BY <2>9
      <3>2. PICK w : w = Building!Write(c, Building!Current(c), p)
        OBVIOUS
      <3>3. BuilderHas(w, u \o p) /\ w.live = c.live
        BY <2>13, <3>1, <3>2, WriteHas
      <3> QED
        BY <2>12, <3>2, <3>3
    <2>15. u \o p = v \o SubSeq(s, 1, o)
      <3>1. PICK z \in Seq(Built) : z = SubSeq(s, 1, from)
        <4>1. \A i \in 1..from : s[i] \in Built
          BY <1>7, <2>3
        <4>2. SubSeq(s, 1, from) \in Seq(Built)
          BY <2>3, <4>1, SubSeqProperties
        <4> QED
          BY <4>2
      <3>2. (v \o z) \o p = v \o (z \o p)
        <4>1. v \in Seq(Built)
          BY <1>3
        <4> QED
          BY <4>1, BuiltThree
      <3> QED
        BY <2>8, <2>10, <2>11, <3>1, <3>2
    <2>16. n - (k + 1) <= Cardinality(Buffer \ f[k + 1].live)
      <3>1. PICK y \in Buffer : y \notin g.live /\ c.live = g.live \cup {y}
        BY <2>9
      <3>2. Buffer \ f[k + 1].live = (Buffer \ g.live) \ {y}
        BY <2>14, <3>1
      <3>3. IsFiniteSet(Buffer \ g.live)
        BY <1>5, FS_Difference
      <3>4. PICK w \in Nat : w = Cardinality(Buffer \ g.live)
        BY <3>3, FS_CardinalityType
      <3>5. Cardinality((Buffer \ g.live) \ {y}) = w - 1
        BY <3>1, <3>3, <3>4, FS_RemoveElement
      <3> QED
        <4>1. n - k <= w /\ Cardinality(Buffer \ f[k + 1].live) = w - 1
          BY <2>5, <3>2, <3>4, <3>5
        <4>2. n - (k + 1) <= w - 1
          BY <2>2, <4>1
        <4> QED
          BY <4>1, <4>2
    <2>17. PICK i \in Nat : i = k + 1 /\ i \in 0..n /\ i * b = k * b + b
      BY <1>10, <2>2
    <2>18. o = a + i * b \/ (o = l /\ l <= a + i * b)
      <3>1. PICK e \in Int : e = k * b
        BY <2>2
      <3>2. PICK h \in Int : h = i * b /\ h = e + b
        BY <2>17, <3>1
      <3> QED
        <4>1. from = a + e /\ (o = l \/ o = from + b) /\ o <= from + b
          BY <2>3, <2>10, <3>1
        <4>2. from + b = a + h
          BY <2>3, <3>1, <3>2, <4>1
        <4> QED
          BY <3>2, <4>1, <4>2
    <2>19. Stands(i, o)
      BY <2>10, <2>14, <2>15, <2>16, <2>17, <2>18 DEF Stands
    <2> QED
      BY <2>17, <2>19
  <1> HIDE DEF Counts
  <1>14. n \in Counts
    <2>1. \A k \in 0..n : k \in Counts
      BY <1>10, <1>12, <1>13, CountUp
    <2> QED
      BY <1>10, <2>1
  <1>15. PICK t \in Nat : Stands(n, t)
    BY <1>14 DEF Counts
  <1>16. t = l
    <2>1. PICK e \in Int : e = n * b
      BY <1>10
    <2> QED
      BY <1>10, <1>15, <2>1 DEF Stands
  <1>17. SubSeq(s, 1, l) = s
    BY <1>7
  <1> QED
    BY <1>11, <1>15, <1>16, <1>17 DEF Stands

-----------------------------------------------------------------------------
(***************************************************************************)
(* The steps of the string builder.                                        *)
(***************************************************************************)
BuilderInv == BuilderHas(Building!Memory, written)

\* Of a builder with nothing in it.
LEMMA NothingBuilt ==
    ASSUME Building!BuilderAssumption, NEW m, SoundMemory(m), NEW q, IsChainOf(m.buffers, q),
           m.builder.CurrentBuffer = NoBuffer, Base \in m.live, m.buffers[Base].Data = <<>>,
           (\A i \in 1..Len(q) : q[i] \in m.live) => EmptyBehind(m.buffers, q, 1)
    PROVE  BuilderHas(m, <<>>)
  <1>1. PICK l \in Nat : l = Len(q) /\ l # 0 /\ 1 \in 1..l
    BY DEF IsChainOf
  <1>2. q[1] = Base /\ Building!Current(m) = Base
    BY DEF IsChainOf, Building!Current
  <1>3. PICK g : g = [i \in 1..1 |-> <<>>]
    OBVIOUS
  <1>4. <<>> \in Seq(Built) /\ Len(<<>>) = 0
    BY EmptySeq
  <1>5. Joined(m.buffers, q, g, 1) /\ g[1] = <<>>
    <2>1. g \in [1..1 -> Seq(Built)] /\ \A i \in 1..1 : i = 1 /\ g[i] = <<>>
      BY <1>3, <1>4
    <2>2. m.buffers[q[1]].Data = <<>>
      BY <1>2
    <2> QED
      BY <2>1, <2>2 DEF Joined
  <1>6. m.builder.IndirectionCount \in Nat /\ BUFFER_SIZE \in Nat
    BY DEF SoundMemory, BuilderMemories, Building!BuilderAssumption
  <1>7. 1 <= m.builder.IndirectionCount + 1 /\ (1 - 1) * BUFFER_SIZE = 0
    BY <1>6
  <1>8. Len(<<>>) <= (1 - 1) * BUFFER_SIZE + Len(m.buffers[q[1]].Data)
    BY <1>2, <1>4, <1>7
  <1>9. \A i \in 1..1 : q[i] \in m.live
    BY <1>2
  <1>10. Placed(m, <<>>, q, 1, g)
    BY <1>1, <1>2, <1>5, <1>7, <1>8, <1>9 DEF Placed
  <1> QED
    BY <1>4, <1>10 DEF BuilderHas

LEMMA BuilderIs ==
    ASSUME Building!BuilderAssumption, BuilderInv
    PROVE  /\ SoundMemory(Building!Memory) /\ buffers \in BuiltBuffers /\ live \subseteq Buffer
           /\ \A b \in Buffer : buffers[b].Data \in Seq(Built) /\ Len(buffers[b].Data) <= BUFFER_SIZE
           /\ builder \in [CurrentBuffer : Buffer \cup {NoBuffer}, IndirectionCount : Nat]
           /\ written \in Seq(Built) /\ Base \in Buffer /\ BUFFER_SIZE \in Nat
           /\ \E q, j, g : /\ Placed(Building!Memory, written, q, j, g) /\ IsChainOf(buffers, q)
                           /\ Building!Chain(Base) = q /\ Base \in live
                           /\ Building!ToSet(q) = {q[i] : i \in 1..Len(q)}
  <1>1. PICK m : m = Building!Memory
    OBVIOUS
  <1>2. m.buffers = buffers /\ m.live = live /\ m.builder = builder
    BY <1>1 DEF Building!Memory
  <1>3. SoundMemory(m) /\ written \in Seq(Built)
    BY <1>1 DEF BuilderInv, BuilderHas
  <1>4. buffers \in BuiltBuffers /\ live \subseteq Buffer
        /\ builder \in [CurrentBuffer : Buffer \cup {NoBuffer}, IndirectionCount : Nat]
        /\ \A b \in Buffer : Len(buffers[b].Data) <= BUFFER_SIZE
    BY <1>2, <1>3 DEF SoundMemory, BuilderMemories
  <1>5. \A b \in Buffer : buffers[b].Data \in Seq(Built)
    BY <1>4 DEF BuiltBuffers
  <1>6. Base \in Buffer /\ BUFFER_SIZE \in Nat
    BY DEF Building!BuilderAssumption
  <1>7. PICK q, j, g : Placed(m, written, q, j, g)
    BY <1>1 DEF BuilderInv, BuilderHas
  <1>8. IsChainOf(buffers, q)
    BY <1>2, <1>7 DEF Placed
  <1>9. PICK r, n : Ranked(buffers, r, n)
    BY <1>2, <1>3 DEF SoundMemory
  <1>10. Building!Chain(Base) = q
    BY <1>4, <1>8, <1>9, ChainIs
  <1>11. Base \in live
    <2>1. 1 \in 1..j /\ q[1] = Base
      BY <1>7 DEF Placed, IsChainOf
    <2> QED
      BY <1>2, <1>7, <2>1 DEF Placed
  <1>12. Building!ToSet(q) = {q[i] : i \in 1..Len(q)}
    <2>1. DOMAIN q = 1..Len(q)
      BY <1>8 DEF IsChainOf
    <2> QED
      BY <2>1 DEF Building!ToSet
  <1> QED
    BY <1>1, <1>3, <1>4, <1>5, <1>6, <1>7, <1>8, <1>10, <1>11, <1>12

LEMMA BuilderAppends ==
    ASSUME Building!BuilderAssumption, BuilderInv, NEW s \in Texts, Building!StringAppend(s)
    PROVE  BuilderInv'
  <1>1. s \in Seq(Built)
    BY DEF Building!BuilderAssumption, Built
  <1>2. PICK m : m = Building!Memory
    OBVIOUS
  <1>3. m.live = live
    BY <1>2 DEF Building!Memory
  <1>4. PICK w : w = Building!Appended(m, s)
    OBVIOUS
  <1>5. /\ Leaves(m, s)
        /\ buffers' = w.buffers /\ live' = w.live /\ builder' = w.builder /\ written' = written \o s
    BY <1>2, <1>3, <1>4 DEF Building!StringAppend, Building!Store, Leaves
  <1>6. BuilderHas(w, written \o s)
    BY <1>1, <1>2, <1>4, <1>5, AppendHas DEF BuilderInv
  <1>7. w = [buffers |-> w.buffers, live |-> w.live, builder |-> w.builder]
    BY <1>6 DEF BuilderHas, SoundMemory, BuilderMemories
  <1>8. Building!Memory' = w
    BY <1>5, <1>7 DEF Building!Memory
  <1> QED
    BY <1>5, <1>6, <1>8 DEF BuilderInv

\* A builder whose buffers changed in what they hold only, and that begins anew.
LEMMA BuilderBeginsAnew ==
    ASSUME Building!BuilderAssumption, BuilderInv, buffers' \in BuiltBuffers,
           \A b \in Buffer : /\ buffers'[b].Next = buffers[b].Next
                             /\ buffers'[b].Data \in {buffers[b].Data, <<>>},
           buffers'[Base].Data = <<>>, builder' = [builder EXCEPT !.CurrentBuffer = NoBuffer],
           written' = <<>>, live' \subseteq Buffer, Base \in live',
           NEW q, IsChainOf(buffers, q),
           (\A i \in 1..Len(q) : q[i] \in live') => EmptyBehind(buffers', q, 1)
    PROVE  BuilderInv'
  <1>1. PICK w : w = [buffers |-> buffers', live |-> live', builder |-> builder']
    OBVIOUS
  <1>2. Building!Memory' = w
    BY <1>1 DEF Building!Memory
  <1>3. w.buffers = buffers' /\ w.live = live' /\ w.builder = builder'
    BY <1>1
  <1>4. builder' \in [CurrentBuffer : Buffer \cup {NoBuffer}, IndirectionCount : Nat]
        /\ builder'.CurrentBuffer = NoBuffer
    BY BuilderIs
  <1>5. w \in BuilderMemories
    BY <1>1, <1>4 DEF BuilderMemories
  <1>6. SoundMemory(w)
    <2>1. PICK r, n : Ranked(buffers, r, n)
      <3>1. PICK m : m = Building!Memory
        OBVIOUS
      <3>2. m.buffers = buffers /\ SoundMemory(m)
        BY <3>1, BuilderIs DEF Building!Memory
      <3> QED
        BY <3>2 DEF SoundMemory
    <2>2. Ranked(buffers', r, n)
      BY <2>1, BuilderIs, SameChain
    <2>3. \A b \in Buffer : Len(buffers'[b].Data) <= BUFFER_SIZE
      <3>1. Len(<<>>) = 0
        BY EmptySeq
      <3> QED
        BY <3>1, BuilderIs
    <2> QED
      BY <1>3, <1>5, <2>2, <2>3 DEF SoundMemory
  <1>7. IsChainOf(buffers', q)
    BY BuilderIs, SameChain
  <1>8. BuilderHas(w, <<>>)
    BY <1>3, <1>4, <1>6, <1>7, NothingBuilt
  <1> QED
    BY <1>2, <1>8 DEF BuilderInv

LEMMA BuilderResets ==
    ASSUME Building!BuilderAssumption, BuilderInv, Building!Reset
    PROVE  BuilderInv'
  <1>1. PICK q : /\ IsChainOf(buffers, q) /\ Building!Chain(Base) = q /\ Base \in live
                 /\ Building!ToSet(q) = {q[i] : i \in 1..Len(q)}
    BY BuilderIs
  <1>2. PICK e : e = {q[i] : i \in 1..Len(q)}
    OBVIOUS
  <1>3. /\ buffers' = [b \in Buffer |-> IF b \in e THEN [buffers[b] EXCEPT !.Data = <<>>] ELSE buffers[b]]
        /\ builder' = [builder EXCEPT !.CurrentBuffer = NoBuffer] /\ written' = <<>> /\ live' = live
    BY <1>1, <1>2 DEF Building!Reset, Building!Emptied
  <1>4. \A b \in Buffer : buffers[b] \in [Data : Seq(Built), Next : Buffer \cup {NoBuffer}]
    BY BuilderIs DEF BuiltBuffers
  <1>5. \A b \in Buffer : /\ buffers'[b] \in [Data : Seq(Built), Next : Buffer \cup {NoBuffer}]
                          /\ buffers'[b].Next = buffers[b].Next
                          /\ buffers'[b].Data = IF b \in e THEN <<>> ELSE buffers[b].Data
    <2>1. <<>> \in Seq(Built)
      BY EmptySeq
    <2> QED
      BY <1>3, <1>4, <2>1
  <1>6. buffers' \in BuiltBuffers
    BY <1>3, <1>5 DEF BuiltBuffers
  <1>7. \A i \in 1..Len(q) : q[i] \in Buffer /\ q[i] \in e
    BY <1>1, <1>2 DEF IsChainOf
  <1>8. Base \in Buffer /\ Base \in e
    <2>1. 1 \in 1..Len(q) /\ q[1] = Base
      BY <1>1 DEF IsChainOf
    <2> QED
      BY <1>7, <2>1
  <1>9. EmptyBehind(buffers', q, 1)
    BY <1>5, <1>7 DEF EmptyBehind
  <1> QED
    BY <1>1, <1>3, <1>5, <1>6, <1>8, <1>9, BuilderIs, BuilderBeginsAnew

LEMMA BuilderFrees ==
    ASSUME Building!BuilderAssumption, BuilderInv, Building!FreeBuilder
    PROVE  BuilderInv'
  <1>1. PICK q : /\ IsChainOf(buffers, q) /\ Building!Chain(Base) = q /\ Base \in live
                 /\ Building!ToSet(q) = {q[i] : i \in 1..Len(q)}
    BY BuilderIs
  <1>2. /\ buffers' = [buffers EXCEPT ![Base].Data = <<>>]
        /\ builder' = [builder EXCEPT !.CurrentBuffer = NoBuffer] /\ written' = <<>>
        /\ live' = (live \ {q[i] : i \in 1..Len(q)}) \cup {Base}
    BY <1>1 DEF Building!FreeBuilder
  <1>3. buffers \in [Buffer -> [Data : Seq(Built), Next : Buffer \cup {NoBuffer}]]
    BY BuilderIs DEF BuiltBuffers
  <1>4. \A b \in Buffer : /\ buffers'[b] \in [Data : Seq(Built), Next : Buffer \cup {NoBuffer}]
                          /\ buffers'[b].Next = buffers[b].Next
                          /\ buffers'[b].Data = IF b = Base THEN <<>> ELSE buffers[b].Data
    <2>1. <<>> \in Seq(Built)
      BY EmptySeq
    <2> QED
      BY <1>2, <1>3, <2>1
  <1>5. buffers' \in BuiltBuffers
    <2>1. buffers' = [b \in Buffer |-> buffers'[b]]
      BY <1>2, <1>3
    <2> QED
      BY <1>4, <2>1 DEF BuiltBuffers
  <1>6. (\A i \in 1..Len(q) : q[i] \in live') => EmptyBehind(buffers', q, 1)
    <2>1. ASSUME NEW i \in 1..Len(q), i > 1 PROVE q[i] \notin live'
      <3>1. 1 \in 1..Len(q) /\ q[1] = Base /\ q[i] # q[1]
        BY <1>1, <2>1 DEF IsChainOf
      <3> QED
        BY <1>2, <3>1
    <2> QED
      BY <2>1 DEF EmptyBehind
  <1>7. Base \in Buffer /\ Base \in live' /\ live' \subseteq Buffer
    BY <1>2, BuilderIs
  <1> QED
    BY <1>1, <1>2, <1>4, <1>5, <1>6, <1>7, BuilderBeginsAnew

LEMMA BuilderBegins ==
    ASSUME Building!BuilderAssumption, Building!Init
    PROVE  BuilderInv
  <1>1. PICK m : m = Building!Memory
    OBVIOUS
  <1>2. /\ m = [buffers |-> buffers, live |-> live, builder |-> builder]
        /\ m.buffers = buffers /\ m.live = {Base} /\ written = <<>> /\ live = {Base}
        /\ builder = [CurrentBuffer |-> NoBuffer, IndirectionCount |-> 0]
        /\ buffers = [b \in Buffer |-> Building!NewBuffer]
        /\ m.builder.CurrentBuffer = NoBuffer
    BY <1>1 DEF Building!Memory, Building!Init
  <1>3. Base \in Buffer /\ BUFFER_SIZE \in Nat
    BY DEF Building!BuilderAssumption
  <1>4. <<>> \in Seq(Built) /\ Len(<<>>) = 0
    BY EmptySeq
  <1>5. \A b \in Buffer : /\ buffers[b] \in [Data : Seq(Built), Next : Buffer \cup {NoBuffer}]
                          /\ buffers[b].Data = <<>> /\ buffers[b].Next = NoBuffer
    BY <1>2, <1>4 DEF Building!NewBuffer
  <1>6. buffers \in BuiltBuffers
    BY <1>2, <1>5 DEF BuiltBuffers
  <1>7. m \in BuilderMemories
    BY <1>2, <1>3, <1>6 DEF BuilderMemories
  <1>8. SoundMemory(m)
    <2>1. PICK r : r = [b \in Buffer |-> 0]
      OBVIOUS
    <2>2. Ranked(buffers, r, 1)
      BY <1>5, <2>1 DEF Ranked
    <2>3. \A b \in Buffer : Len(buffers[b].Data) <= BUFFER_SIZE
      BY <1>3, <1>4, <1>5
    <2> QED
      BY <1>2, <1>7, <2>2, <2>3 DEF SoundMemory
  <1>9. PICK q \in Seq(Buffer) : q = <<Base>> /\ Len(q) = 1 /\ q[1] = Base
    <2>1. <<Base>> \in Seq(Buffer) /\ Len(<<Base>>) = 1 /\ <<Base>>[1] = Base
      BY <1>3
    <2> QED
      BY <2>1, Zenon
  <1>10. IsChainOf(buffers, q)
    BY <1>3, <1>5, <1>9 DEF IsChainOf
  <1>11. EmptyBehind(buffers, q, 1)
    BY <1>9 DEF EmptyBehind
  <1>12. BuilderHas(m, <<>>)
    BY <1>2, <1>3, <1>5, <1>8, <1>10, <1>11, NothingBuilt
  <1> QED
    BY <1>1, <1>2, <1>12 DEF BuilderInv

LEMMA BuilderAgrees ==
    ASSUME Building!BuilderAssumption, BuilderInv
    PROVE  Building!CombinesWritten
  <1>1. PICK m : m = Building!Memory /\ m.buffers = buffers /\ m.live = live /\ m.builder = builder
    <2>1. PICK m : m = Building!Memory
      OBVIOUS
    <2>2. m.buffers = buffers /\ m.live = live /\ m.builder = builder
      BY <2>1 DEF Building!Memory
    <2> QED
      BY <2>1, <2>2
  <1>2. PICK q, j, g : /\ Placed(m, written, q, j, g) /\ IsChainOf(buffers, q) /\ Building!Chain(Base) = q
                       /\ Building!ToSet(q) = {q[i] : i \in 1..Len(q)}
    BY <1>1, BuilderIs
  <1>3. /\ j \in 1..Len(q) /\ j <= builder.IndirectionCount + 1 /\ q[j] = Building!Current(m)
        /\ (\A i \in 1..j : q[i] \in live) /\ Joined(buffers, q, g, j) /\ g[j] = written
        /\ Len(written) <= (j - 1) * BUFFER_SIZE + Len(buffers[q[j]].Data)
        /\ (\A i \in 1..Len(q) : q[i] \in live) => EmptyBehind(buffers, q, j)
    BY <1>1, <1>2 DEF Placed
  <1>4. PICK l \in Nat : l = Len(q) /\ q \in Seq(Buffer)
    BY <1>2 DEF IsChainOf
  <1>5. Building!Current(Building!Memory) \in live
    <2>1. j \in 1..j
      BY <1>3, <1>4
    <2> QED
      BY <1>1, <1>3, <2>1
  <1>6. \A b \in live : Len(buffers[b].Data) <= BUFFER_SIZE
    BY BuilderIs
  <1>7. ASSUME Building!ToSet(Building!Chain(Base)) \subseteq live
        PROVE  Building!Combined = written /\ Len(Building!Combined) <= (builder.IndirectionCount + 1) * BUFFER_SIZE
    <2>1. EmptyBehind(buffers, q, j)
      BY <1>2, <1>3, <1>7
    <2>2. Building!Combined = written
      <3>1. PICK r, n : Ranked(buffers, r, n)
        BY <1>1, BuilderIs DEF SoundMemory
      <3> QED
        BY <1>2, <1>3, <2>1, <3>1, BuilderIs, CombinedIs
    <2>3. PICK b \in Nat, c \in Nat : b = BUFFER_SIZE /\ c = builder.IndirectionCount
      BY BuilderIs
    <2>4. PICK d \in Nat : d = Len(buffers[q[j]].Data) /\ d <= b
      <3>1. q[j] \in Buffer
        BY <1>3, <1>4
      <3> QED
        BY <2>3, <3>1, BuilderIs
    <2>5. PICK a \in Nat : a = Len(written)
      BY BuilderIs
    <2>6. j \in Int /\ j <= c + 1 /\ (j - 1) * b + b = j * b
      BY <1>3, <1>4, <2>3
    <2>7. PICK e \in Int : e = (j - 1) * b
      BY <2>6
    <2>8. PICK f \in Int : f = (c + 1) * b
      OBVIOUS
    <2>9. e + b <= f
      <3>1. j * b <= (c + 1) * b
        BY <2>6, MoreTimes
      <3> QED
        BY <2>6, <2>7, <2>8, <3>1
    <2>10. a <= e + d
      BY <1>3, <2>3, <2>4, <2>5, <2>7
    <2>11. a <= f
      BY <2>4, <2>9, <2>10
    <2> QED
      BY <2>2, <2>3, <2>5, <2>8, <2>11
  <1> QED
    BY <1>5, <1>6, <1>7 DEF Building!CombinesWritten

-----------------------------------------------------------------------------
(***************************************************************************)
(* A step of the builder, and both buffers together.                       *)
(***************************************************************************)
LEMMA BuilderStep ==
    ASSUME Building!BuilderAssumption, BuilderInv, [Building!Next]_Building!builderVars
    PROVE  BuilderInv'
  <1>1. CASE UNCHANGED Building!builderVars
    BY <1>1 DEF Building!builderVars, BuilderInv, Building!Memory
  <1>2. CASE \E s \in Texts : Building!StringAppend(s)
    BY <1>2, BuilderAppends
  <1>3. CASE Building!Reset
    BY <1>3, BuilderResets
  <1>4. CASE Building!FreeBuilder
    BY <1>4, BuilderFrees
  <1> QED
    BY <1>1, <1>2, <1>3, <1>4 DEF Building!Next

\* BuffersHold of MCSystem, whose steps are a step of each or leave it alone.
BuffersHold == Building!CombinesWritten /\ Growing!HoldsInserted

\* string_builder.cpp, stack_dynamic_buffer.h: whatever buffers there are and whatever sizes they have,
\* whatever is appended or inserted and however that, removals, reserving, setting, resetting and freeing
\* follow each other, combining a builder gives what was appended to it since it was empty, as long as no
\* freed buffer is in its chain, and a stack dynamic buffer holds what was inserted, in cells it has.
THEOREM BuffersHoldWritten ==
    Building!BuilderAssumption /\ Growing!BufferAssumption => (Building!Spec /\ Growing!Spec => []BuffersHold)
  <1> SUFFICES ASSUME Building!BuilderAssumption, Growing!BufferAssumption
               PROVE  Building!Spec /\ Growing!Spec => []BuffersHold
    OBVIOUS
  <1>1. Building!Init => BuilderInv
    BY BuilderBegins
  <1>2. BuilderInv /\ [Building!Next]_Building!builderVars => BuilderInv'
    BY BuilderStep
  <1>3. BuilderInv => Building!CombinesWritten
    BY BuilderAgrees
  <1>4. Growing!Init => BufferInv
    BY BufferBegins
  <1>5. BufferInv /\ [Growing!Next]_Growing!bufferVars => BufferInv'
    <2> SUFFICES ASSUME BufferInv, [Growing!Next]_Growing!bufferVars
                 PROVE  BufferInv'
      OBVIOUS
    <2>1. CASE UNCHANGED Growing!bufferVars
      BY <2>1 DEF Growing!bufferVars, BufferInv
    <2> QED
      BY <2>1, BufferStep
  <1>6. BufferInv => Growing!HoldsInserted
    BY BufferAgrees
  <1>7. Building!CombinesWritten /\ Growing!HoldsInserted => BuffersHold
    BY DEF BuffersHold
  <1> QED
    BY <1>1, <1>2, <1>3, <1>4, <1>5, <1>6, <1>7, PTL DEF Building!Spec, Growing!Spec
=============================================================================
