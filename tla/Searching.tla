----------------------------- MODULE Searching -----------------------------
(***************************************************************************)
(* Searches and comparisons of arrays (lstd/memory/array_like.h) and       *)
(* quick_sort (lstd/memory/stack_array.h).  Offsets count from 0.          *)
(***************************************************************************)
EXTENDS Calls, Integers, SequencesExt

CONSTANTS Items,      \* elements, numbers above 0
          Fronts,     \* what may lie in front of an array
          MaxItems    \* elements of an array

At(a, i) == a[i + 1]

\* From start on, or back to the front.
Offsets(a, start, reversed) ==
    LET i == IF start < 0 THEN Len(a) + start ELSE start
    IN  IF reversed THEN 0..i ELSE i..Len(a) - 1
First(offsets, reversed) ==
    IF offsets = {} THEN -1 ELSE IF reversed THEN Max(offsets) ELSE Min(offsets)

find(a, e, start, reversed) ==
    First({i \in Offsets(a, start, reversed) : At(a, i) = e}, reversed)
find_not(a, e, start, reversed) ==
    First({i \in Offsets(a, start, reversed) : At(a, i) # e}, reversed)
\* No set of elements allows or bans anything if it is empty.
find_any_of(a, s, start, reversed) ==
    First({i \in Offsets(a, start, reversed) : find(s, At(a, i), 0, FALSE) # -1}, reversed)
find_not_any_of(a, s, start, reversed) ==
    First({i \in Offsets(a, start, reversed) : s # <<>> /\ find(s, At(a, i), 0, FALSE) = -1}, reversed)

-----------------------------------------------------------------------------
\* The length of what two arrays have in common at their fronts.
Common(a, b) == Len(LongestCommonPrefix({a, b}))

compare(a, b) == IF a = b THEN -1 ELSE Common(a, b)

compare_lexicographically(a, b) ==
    LET i == Common(a, b)
    IN  CASE a = b        -> 0
          [] a # b /\ i = Len(a) -> -1
          [] a # b /\ i = Len(b) -> 1
          [] OTHER        -> IF At(a, i) < At(b, i) THEN -1 ELSE 1

-----------------------------------------------------------------------------
(***************************************************************************)
(* A partition goes up with first and down with last and puts the pivot    *)
(* where they cross, which it sees by the elements: of two on the wrong    *)
(* sides it ends early, and where elements are equal first may get behind  *)
(* the pivot.  last may get to the memory in front, of which cells has the *)
(* element at offset -1, with any value.  What happens when the pivot or   *)
(* that element is passed, the range is escaped, and is not followed.      *)
(***************************************************************************)
Cells(a, front) == [i \in -1..(Len(a) - 1) |-> IF i = -1 THEN front ELSE At(a, i)]
Swapped(c, i, j) == [c EXCEPT ![i] = c[j], ![j] = c[i]]

RECURSIVE Up(_, _, _)
Up(c, i, pivot) == IF i <= pivot /\ c[i] < c[pivot] THEN Up(c, i + 1, pivot) ELSE i
RECURSIVE Down(_, _, _)
Down(c, i, pivot) == IF i >= -1 /\ c[pivot] < c[i] THEN Down(c, i - 1, pivot) ELSE i

RECURSIVE Partition(_, _, _, _)
Partition(s, first, last, pivot) ==
    LET c == s.cells
        f == Up(c, first, pivot)
        l == Down(c, last - 1, pivot)
    IN  CASE f > pivot \/ l < -1 -> [s EXCEPT !.escaped = TRUE]
          [] f <= pivot /\ l >= -1 /\ c[f] > c[l] ->
                 [s EXCEPT !.cells = Swapped(c, pivot, f), !.at = f, !.early = @ \/ f < l]
          [] OTHER -> Partition([s EXCEPT !.cells = Swapped(c, f, l)], f + 1, l, pivot)

\* A faulty one leaves out the first element behind the pivot.
BehindNext(at) == at + 2
Behind(at) == at + 1

RECURSIVE QuickSort(_, _, _)
QuickSort(s, first, last) ==
    LET pivot == first + ((last - first) \div 2)
        p == Partition([s EXCEPT !.cells = Swapped(@, pivot, last - 1)], first, last - 1, last - 1)
    IN  IF first >= last \/ s.escaped THEN s
        ELSE QuickSort(QuickSort(p, first, p.at), Behind(p.at), last)

quick_sort(a, front) ==
    LET r == QuickSort([cells |-> Cells(a, front), at |-> 0, escaped |-> FALSE, early |-> FALSE], 0, Len(a))
    IN  [sorted |-> [i \in DOMAIN a |-> r.cells[i - 1]], escaped |-> r.escaped, early |-> r.early]

-----------------------------------------------------------------------------
Arrays == BoundedSeq(Items, MaxItems)

Find == \E a \in Arrays, s \in BoundedSeq(Items, 2), reversed \in BOOLEAN :
        \E start \in -Len(a)..(Len(a) - 1) :
    /\ s # <<>>
    /\ Call("find", [a |-> a, s |-> s, start |-> start, reversed |-> reversed],
            [one |-> find(a, s[1], start, reversed), not |-> find_not(a, s[1], start, reversed),
             any |-> find_any_of(a, s, start, reversed), notAny |-> find_not_any_of(a, s, start, reversed)])
Compare == \E a, b \in Arrays :
    Call("compare", <<a, b>>, [index |-> compare(a, b), order |-> compare_lexicographically(a, b)])
Sort == \E a \in BoundedSeq(Items, MaxItems + 2), front \in Fronts :
    Call("quick_sort", [a |-> a, front |-> front], quick_sort(a, front))

Next == Ready /\ (Find \/ Compare \/ Sort)

Spec == Init /\ [][Next]_call

-----------------------------------------------------------------------------
\* The offset found holds what was looked for, and none before it does.
IsFirst(in, found, Holds(_)) ==
    LET n == Len(in.a)
        from == IF in.start < 0 THEN n + in.start ELSE in.start
        before == IF in.reversed THEN (found + 1)..from ELSE IF found = -1 THEN from..(n - 1) ELSE from..(found - 1)
    IN  /\ \A i \in before : ~Holds(At(in.a, i))
        /\ found # -1 => Holds(At(in.a, found))

IsOrdered(a) == \A i \in 1..Len(a) - 1 : a[i] <= a[i + 1]
Count(a, e) == Cardinality({i \in DOMAIN a : a[i] = e})

\* Where the code may leave the range it sorts (stack_array.h 20, 22): nothing but the elements stops
\* its cursors.
MayEscape(a, front) == ~IsInjective(a) \/ \E i \in DOMAIN a : a[i] <= front

\* array_like.h, stack_array.h: searches find the first element from the start on; the index of
\* the first difference decides the order, which is total and agrees with equality; sorting
\* leaves a permutation in order, but where it may escape; and in order only where no partition
\* ended early, before its cursors crossed (23).
SortedAndFound ==
    LET in == call.in
        out == call.out
    IN  CASE call.of = "find" ->
               /\ IsFirst(in, out.one, LAMBDA e : e = in.s[1])
               /\ IsFirst(in, out.not, LAMBDA e : e # in.s[1])
               /\ IsFirst(in, out.any, LAMBDA e : e \in ToSet(in.s))
               /\ IsFirst(in, out.notAny, LAMBDA e : e \notin ToSet(in.s))
          [] call.of = "compare" ->
               LET a == in[1]
                   b == in[2]
               IN  /\ (out.order = 0) = (a = b) /\ (out.index = -1) = (a = b)
                   /\ out.order = -compare_lexicographically(b, a)
                   /\ out.order = -1 =>
                          \/ a = SubSeq(b, 1, out.index)
                          \/ At(a, out.index) < At(b, out.index) /\ SubSeq(a, 1, out.index) = SubSeq(b, 1, out.index)
          [] call.of = "quick_sort" ->
               MayEscape(in.a, in.front) \/
                   /\ ~out.escaped /\ \A e \in Items : Count(out.sorted, e) = Count(in.a, e)
                   /\ out.early \/ IsOrdered(out.sorted)
          [] OTHER -> TRUE
=============================================================================
