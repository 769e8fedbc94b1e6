------------------------------- MODULE Arena -------------------------------
(***************************************************************************)
(* An arena allocator whose user adds and removes pools, allocates and     *)
(* frees everything, in any order (arena_allocator.cpp lines 14-91).       *)
(* RESIZE and FREE change nothing: general_reallocate and general_free     *)
(* cannot take a block back.                                               *)
(***************************************************************************)
EXTENDS ArenaPools

CONSTANTS Piece,        \* pieces of memory the user has for pools
          PieceSize,    \* their sizes, in bytes
          Sizes,        \* bound: the sizes asked for
          MaxTotalUsed  \* bound: on the counter of bytes

ASSUME ArenaAssumption ==
    /\ PieceSize \in [Piece -> Nat]
    /\ Sizes \subseteq Nat \ {0} /\ MaxTotalUsed \in Nat
    /\ NoBlock \notin [piece : Piece, start : Nat, size : Nat]

VARIABLES arena,
          given,        \* the blocks handed out that user code may still use
          last          \* history: size and result of the last ALLOCATE

vars == <<arena, given, last>>

Nothing == [size |-> 0, result |-> NoBlock]

Init == arena = NoPools /\ given = {} /\ last = Nothing

\* allocator_add_pool
Add(piece) == /\ piece \notin Pieces(arena) /\ LargeEnough(PieceSize[piece])
              /\ arena' = AddPool(arena, piece, PieceSize[piece])
              /\ last' = Nothing
              /\ UNCHANGED given

\* allocator_remove_pool: the memory is no longer the arena's to hand out, and
\* the user knows that blocks in it are gone.
Remove(piece) == /\ piece \in Pieces(arena)
                 /\ arena' = RemovePool(arena, piece)
                 /\ given' = {b \in given : b.piece # piece}
                 /\ last' = Nothing

Allocate(n) == LET b == AllocatedBlock(arena, n) IN
               /\ arena.pools # <<>> /\ arena.TotalUsed < MaxTotalUsed
               /\ arena' = AfterAllocate(arena, n)
               /\ given' = IF Fits(arena, n) THEN given \cup {b} ELSE given
               /\ last' = [size |-> n, result |-> b]

\* free_all: the user forgets the blocks.
FreeAll == arena' = Emptied(arena) /\ given' = {} /\ last' = Nothing

Next == \/ \E piece \in Piece : Add(piece) \/ Remove(piece)
        \/ \E n \in Sizes : Allocate(n)
        \/ FreeAll

Spec == Init /\ [][Next]_vars

-----------------------------------------------------------------------------
Pools == [piece : Piece, Size : Nat, Used : Nat]

TypeOK == /\ arena \in [pools : Seq(Pools), PoolsCount : Nat, TotalUsed : Nat]
          /\ arena.PoolsCount = Len(arena.pools)
          /\ \A i, j \in 1..Len(arena.pools) :
                arena.pools[i].piece = arena.pools[j].piece => i = j
          /\ given \subseteq [piece : Piece, start : Nat, size : Nat]

\* A pool ends where its piece of memory ends, is never filled up, and every
\* block in use lies below the fill mark of a pool.
GivenBelowUsed ==
    /\ \A i \in 1..Len(arena.pools) :
            LET p == arena.pools[i]
            IN  p.Used < p.Size /\ p.Size = PieceSize[p.piece] - PoolHeader
    /\ \A b \in given : \E i \in 1..Len(arena.pools) :
            /\ b.piece = arena.pools[i].piece
            /\ b.start + b.size <= arena.pools[i].Used

\* Bytes each pool has behind its header.
Owned == [piece \in Pieces(arena) |-> PieceSize[piece] - PoolHeader]

\* No byte is handed out twice, whatever pools come and go.
GivenDisjoint == \A a, b \in given :
    a # b => \/ a.piece # b.piece
             \/ a.start + a.size <= b.start
             \/ b.start + b.size <= a.start

\* allocator.h, lines 495-496: allocation fails "when no pool has enough space",
\* and never while a later pool of the list has it.
RefusedOnlyWhenFull ==
    last.size # 0 /\ last.result = NoBlock =>
        \A i \in 1..Len(arena.pools) : ~HasRoom(arena.pools[i], last.size)

\* The arena is an allocator general_allocate can rely on.
Promise == INSTANCE BlockAllocator WITH owned <- Owned
PromiseKept == Promise!Spec
=============================================================================
