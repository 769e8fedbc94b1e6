----------------------------- MODULE HeaderList -----------------------------
(***************************************************************************)
(* The list of allocation headers of debug_memory                          *)
(* (lstd/memory/allocator.cpp).  It is doubly linked, DEBUG_Next ends in   *)
(* null, DEBUG_Previous of the first header is the LAST header, and a      *)
(* header alone in the list is its own DEBUG_Previous.                     *)
(*                                                                         *)
(* The list routines are operators on a record of the pointers: MCProcess  *)
(* drives them on their own, DebugHeap applies them inside the critical    *)
(* sections of the allocation functions.                                   *)
(***************************************************************************)
EXTENDS Integers, Sequences, FiniteSets

CONSTANTS Header,   \* the addresses a header can have
          Null      \* the null pointer

ASSUME HeaderAssumption == /\ IsFiniteSet(Header)
                           /\ Null \notin Header

Pointer == Header \cup {Null}

\* Head, and the two link fields of every header.
HeaderLists == [head : Pointer, next : [Header -> Pointer], prev : [Header -> Pointer]]

EmptyList == [head |-> Null,
              next |-> [h \in Header |-> Null],
              prev |-> [h \in Header |-> Null]]

\* encode_header: a new header starts without links.
ClearLinks(L, h) == [head |-> L.head,
                     next |-> [L.next EXCEPT ![h] = Null],
                     prev |-> [L.prev EXCEPT ![h] = Null]]

\* A faulty add_header: the old first header keeps the last one as its previous.
AddHeaderLeavesOldHead(L, h) ==
    [head |-> h,
     next |-> [L.next EXCEPT ![h] = L.head],
     prev |-> [L.prev EXCEPT ![h] = IF L.head = Null THEN h ELSE L.prev[L.head]]]

\* debug_memory::add_header.
AddHeader(L, h) ==
    [head |-> h,
     next |-> [L.next EXCEPT ![h] = L.head],
     prev |-> IF L.head = Null
              THEN [L.prev EXCEPT ![h] = h]
              ELSE [L.prev EXCEPT ![h] = L.prev[L.head], ![L.head] = h]]

\* A faulty unlink_header: removing the last header does not tell the first.
UnlinkHeaderKeepsLast(L, h) ==
    LET p == L.prev[h]
        n == L.next[h]
    IN  IF p = h THEN [L EXCEPT !.head = Null]
        ELSE [head |-> IF L.head = h THEN n ELSE L.head,
              next |-> IF L.head = h THEN L.next ELSE [L.next EXCEPT ![p] = n],
              prev |-> IF n = Null THEN L.prev ELSE [L.prev EXCEPT ![n] = p]]

\* debug_memory::unlink_header, the three cases of the code in its order: the
\* only header, the first header, any other.
UnlinkHeader(L, h) ==
    LET p == L.prev[h]
        n == L.next[h]
    IN  CASE p = h -> [L EXCEPT !.head = Null]
          [] p # h /\ L.head = h ->
                [head |-> n, next |-> L.next, prev |-> [L.prev EXCEPT ![n] = p]]
          [] OTHER ->
                [head |-> L.head,
                 next |-> [L.next EXCEPT ![p] = n],
                 prev |-> IF n # Null THEN [L.prev EXCEPT ![n] = p]
                                      ELSE [L.prev EXCEPT ![L.head] = p]]

\* The asserts of unlink_header, and its dereference of a null DEBUG_Next.
UnlinkFails(L, h) == \/ L.head = Null
                     \/ L.prev[h] = Null
                     \/ L.prev[h] # h /\ L.head = h /\ L.next[h] = Null

\* debug_memory::swap_header.
SwapHeader(L, o, n) ==
    LET p == L.prev[o]
        s == L.next[o]
        next1 == [L.next EXCEPT ![n] = s]
    IN  IF L.head = o
        THEN [head |-> n,
              next |-> next1,
              prev |-> IF s = Null THEN [L.prev EXCEPT ![n] = n]
                                   ELSE [L.prev EXCEPT ![n] = p, ![s] = n]]
        ELSE [head |-> L.head,
              next |-> [next1 EXCEPT ![p] = n],
              prev |-> IF s = Null THEN [L.prev EXCEPT ![n] = p, ![L.head] = n]
                                   ELSE [L.prev EXCEPT ![n] = p, ![s] = n]]

\* assert(Head) of swap_header.
SwapFails(L) == L.head = Null

\* The loop `it = Head; while (it) it = it->DEBUG_Next`, cut off after as many
\* steps as there are headers (the real loop would not end on a cycle).
Walk(L) ==
    LET visited[k \in 0..Cardinality(Header)] ==
            IF k = 0 THEN <<>>
            ELSE LET before == visited[k - 1]
                     it == IF before = <<>> THEN L.head ELSE L.next[before[Len(before)]]
                 IN  IF Len(before) < k - 1 \/ it = Null THEN before ELSE Append(before, it)
    IN  visited[Cardinality(Header)]

Listed(L) == LET w == Walk(L) IN {w[i] : i \in 1..Len(w)}

\* The loop of free_all: every header the walk meets is unlinked; its
\* DEBUG_Next is read before that.
UnlinkAll(L) ==
    LET w == Walk(L)
        unlinked[k \in 0..Len(w)] == IF k = 0 THEN L ELSE UnlinkHeader(unlinked[k - 1], w[k])
    IN  unlinked[Len(w)]

\* L is the list of the headers of s: forwards by next, backwards by prev, and
\* the first header leads to the last.
Represents(L, s) ==
    /\ s = <<>> => L.head = Null
    /\ s # <<>> => /\ L.head = s[1]
                   /\ L.prev[s[1]] = s[Len(s)]
                   /\ L.next[s[Len(s)]] = Null
    /\ \A i \in 1..(Len(s) - 1) : /\ L.next[s[i]] = s[i + 1]
                                  /\ L.prev[s[i + 1]] = s[i]

\* No header occurs twice.
Distinct(s) == \A i, j \in 1..Len(s) : s[i] = s[j] => i = j

\* The promises of allocator.h: add to the front, remove, replace in place.
Prepended(s, h) == [i \in 1..(Len(s) + 1) |-> IF i = 1 THEN h ELSE s[i - 1]]
Dropped(s, k)   == [i \in 1..(Len(s) - 1) |-> IF i < k THEN s[i] ELSE s[i + 1]]
Replaced(s, k, h) == [i \in 1..Len(s) |-> IF i = k THEN h ELSE s[i]]
=============================================================================
