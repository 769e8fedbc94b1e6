--------------------------- MODULE TempAllocator ---------------------------
(***************************************************************************)
(* default_temp_allocator (arena_allocator.cpp, lines 93-124): the         *)
(* thread-local arena behind Context.TempAlloc, which adds pools by        *)
(* itself.  A call that needs a pool is an Add followed by the arena's     *)
(* own step, so that the extension is one more user of the arena.          *)
(***************************************************************************)
EXTENDS Arena

CONSTANTS StartingPoolSize, \* 8_KiB
          MaxPower          \* bound: pools are of at most 2^MaxPower bytes

Powers == {2^e : e \in 0..MaxPower}

\* The starting pool has room for its header, and there is a power of two for
\* every size.  (That a power of two is a natural number is arithmetic the
\* provers do not know.)
ASSUME TempAssumption ==
    /\ StartingPoolSize \in Nat /\ PoolHeader <= StartingPoolSize
    /\ MaxPower \in Nat /\ Powers \subseteq Nat
    /\ \A n \in Sizes : \E m \in Powers : n * 2 <= m

VARIABLE call   \* the call under way: where it is and the size it asks for

tempVars == <<vars, call>>

At(step) == call.at = step

GoTo(step, n) == call' = [at |-> step, size |-> n]

TempInit == Init /\ call = [at |-> "idle", size |-> 0]

CeilPowOf2(n) == CHOOSE m \in Powers : n <= m /\ \A k \in Powers : n <= k => m <= k

\* A faulty size leaves no space for the header of the pool.
PoolSizeJustEnough(n) == IF StartingPoolSize < n THEN CeilPowOf2(n) ELSE StartingPoolSize

PoolSizeFor(n) == IF StartingPoolSize < n THEN CeilPowOf2(n * 2) ELSE StartingPoolSize

\* os_allocate_block gives a new piece of memory of the size asked for.
AddNewPool(size) == \E piece \in Piece : PieceSize[piece] = size /\ Add(piece)

\* Or it gives null: allocator_pool_initialize writes through it.
NoMemory(size) == \A piece \in Piece : PieceSize[piece] = size => piece \in Pieces(arena)

TempAdd(piece) == At("idle") /\ Add(piece) /\ UNCHANGED call
TempRemove(piece) == At("idle") /\ Remove(piece) /\ UNCHANGED call

\* With no pool yet, ALLOCATE only computes the size of one, and
\* arena_allocator reads through the null Base.
AllocateFirst(n) == /\ At("idle") /\ arena.pools = <<>>
                    /\ GoTo("null_base", n)
                    /\ UNCHANGED vars

TempAllocate(n) == /\ At("idle") /\ Allocate(n)
                   /\ IF Fits(arena, n) THEN UNCHANGED call ELSE GoTo("grow", n)

\* The warning is printed, then a new pool comes.
Grow == /\ At("grow")
        /\ AddNewPool(PoolSizeFor(call.size))
        /\ GoTo("retry", call.size)

\* The result of the second try is returned whatever it is.
Retry == At("retry") /\ Allocate(call.size) /\ GoTo("idle", 0)

\* Every mode but ALLOCATE and ADD_POOL adds the starting pool to an empty
\* list.  FREE and RESIZE do nothing more.
AddStartingPool == /\ At("idle") /\ arena.pools = <<>>
                   /\ AddNewPool(StartingPoolSize)
                   /\ GoTo("idle", 0) \/ GoTo("free_all", 0)

\* A faulty extension answers FREE_ALL without the arena.
TempFreeAllForgets == /\ At("idle") \/ At("free_all")
                      /\ arena.pools # <<>>
                      /\ given' = {} /\ last' = Nothing /\ UNCHANGED arena
                      /\ GoTo("idle", 0)

TempFreeAll == /\ At("idle") \/ At("free_all")
               /\ arena.pools # <<>>
               /\ FreeAll
               /\ GoTo("idle", 0)

OutOfMemory == /\ \/ At("grow") /\ NoMemory(PoolSizeFor(call.size))
                  \/ At("idle") /\ arena.pools = <<>> /\ NoMemory(StartingPoolSize)
               /\ GoTo("null_pool", 0)
               /\ UNCHANGED vars

TempNext == \/ \E piece \in Piece : TempAdd(piece) \/ TempRemove(piece)
            \/ \E n \in Sizes : AllocateFirst(n) \/ TempAllocate(n)
            \/ Grow \/ Retry \/ AddStartingPool \/ TempFreeAll \/ OutOfMemory

TempSpec == TempInit /\ [][TempNext]_tempVars

-----------------------------------------------------------------------------
Steps == {"idle", "grow", "retry", "free_all", "null_base", "null_pool"}

TempTypeOK == TypeOK /\ call \in [at : Steps, size : Sizes \cup {0}]

\* The extension uses the arena only in ways a user of the arena may.
ImplementsArena == Spec

\* arena_allocator.cpp, lines 95-125: a pool is added only for a call that no pool of the list could
\* take, so the list does not grow while memory behind its first pools is free; and a call is
\* refused in the end only when no pool has room, and its size is within a pool header of the
\* starting size: every larger one gets a pool it fits in.
GrowsOnlyWhenFull ==
    /\ RefusedOnlyWhenFull
    /\ At("grow") => \A i \in 1..Len(arena.pools) : ~HasRoom(arena.pools[i], call.size)
    /\ At("idle") /\ last.size # 0 /\ last.result = NoBlock =>
           last.size \in (StartingPoolSize - PoolHeader)..StartingPoolSize

\* allocator.h, line 506: "the first allocation you do with it adds a starting
\* pool (of size 8_KiB)".
FirstAllocationWorks == ~At("null_base")
=============================================================================
