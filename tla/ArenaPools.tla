----------------------------- MODULE ArenaPools -----------------------------
(***************************************************************************)
(* arena_allocator_data and what arena_allocator makes of it               *)
(* (lstd/memory/arena_allocator.cpp and the pool routines of allocator.h). *)
(* The linked list of pools is a sequence; a pool is known by the piece of *)
(* memory it was made from.  Used for the allocator on its own (Arena),    *)
(* for the temporary allocators built on it, and for their proofs.         *)
(***************************************************************************)
EXTENDS Integers, Sequences

CONSTANTS PoolHeader,   \* sizeof(allocator_pool)
          NoBlock       \* a null result

ASSUME PoolHeaderAssumption == PoolHeader \in Nat \ {0}

NoPools == [pools |-> <<>>, PoolsCount |-> 0, TotalUsed |-> 0]

\* allocator_pool_initialize accepts a piece of n bytes.
LargeEnough(n) == n > PoolHeader

\* ADD_POOL: allocator_pool_initialize and allocator_pool_add_to_linked_list.
AddPool(A, piece, n) ==
    [A EXCEPT !.pools = Append(@, [piece |-> piece, Size |-> n - PoolHeader, Used |-> 0]),
              !.PoolsCount = @ + 1]

Pieces(A) == {A.pools[i].piece : i \in 1..Len(A.pools)}

\* A faulty REMOVE_POOL does not count the pool out.
RemovePoolUncounted(A, piece) ==
    [A EXCEPT !.pools = SelectSeq(@, LAMBDA p : p.piece # piece)]

\* REMOVE_POOL of a pool that is in the list.  TotalUsed is not touched.
RemovePool(A, piece) ==
    LET k == CHOOSE i \in 1..Len(A.pools) : A.pools[i].piece = piece
    IN  [A EXCEPT !.pools = [i \in 1..(Len(@) - 1) |-> IF i < k THEN @[i] ELSE @[i + 1]],
                  !.PoolsCount = @ - 1]

\* A faulty test that forgets the size asked for.
HasRoomForOne(pool, n) == n > 0 /\ pool.Used + 1 < pool.Size

\* A pool is never filled to its last byte.
HasRoom(pool, n) == pool.Used + n < pool.Size

\* A faulty walk always ends at the last pool.
LastPool(A, n) == IF n > 0 THEN Len(A.pools) ELSE 1

\* ALLOCATE walks to the first pool with room, or to the last pool.  It reads
\* through Base: the list must not be empty.
ChosenPool(A, n) ==
    CHOOSE i \in 1..Len(A.pools) :
        /\ i = Len(A.pools) \/ HasRoom(A.pools[i], n)
        /\ \A j \in 1..(i - 1) : ~HasRoom(A.pools[j], n)

Fits(A, n) == HasRoom(A.pools[ChosenPool(A, n)], n)

\* A faulty ALLOCATE takes the address after it moved the fill mark.
BlockAfterUse(A, n) ==
    LET p == A.pools[ChosenPool(A, n)]
    IN  IF Fits(A, n) THEN [piece |-> p.piece, start |-> p.Used + n, size |-> n] ELSE NoBlock

\* The block ALLOCATE returns, counted from the end of the pool's header.
AllocatedBlock(A, n) ==
    LET p == A.pools[ChosenPool(A, n)]
    IN  IF Fits(A, n) THEN [piece |-> p.piece, start |-> p.Used, size |-> n] ELSE NoBlock

\* A faulty ALLOCATE sets the fill mark to the size.
AfterAllocateSetsUsed(A, n) ==
    IF Fits(A, n) THEN [A EXCEPT !.pools[ChosenPool(A, n)].Used = n, !.TotalUsed = @ + n]
                  ELSE A

AfterAllocate(A, n) ==
    IF Fits(A, n) THEN [A EXCEPT !.pools[ChosenPool(A, n)].Used = @ + n, !.TotalUsed = @ + n]
                  ELSE A

\* FREE_ALL.
Emptied(A) == [A EXCEPT !.pools = [i \in 1..Len(@) |-> [@[i] EXCEPT !.Used = 0]],
                        !.TotalUsed = 0]
=============================================================================
