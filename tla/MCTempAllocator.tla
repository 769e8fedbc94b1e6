-------------------------- MODULE MCTempAllocator --------------------------
(***************************************************************************)
(* A user's pool, two starting pools, a pool of the smallest power of two  *)
(* that is a size asked for, and one large enough for that size.           *)
(***************************************************************************)
EXTENDS TempAllocator, TLC

CONSTANTS user, start1, start2, large1, large2

MCPieceSize == (user :> 5) @@ (start1 :> 8) @@ (start2 :> 8) @@ (large1 :> 32) @@ (large2 :> 16)
=============================================================================
