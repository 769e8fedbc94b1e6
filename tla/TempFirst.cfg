CONSTANTS
    PoolHeader = 1
    NoBlock = NoBlock
    Piece = {user, start1, start2, large1, large2}
    PieceSize <- MCPieceSize
    user = user
    start1 = start1
    start2 = start2
    large1 = large1
    large2 = large2
    Sizes = {3, 8, 16}
    MaxTotalUsed = 25
    StartingPoolSize = 8
    MaxPower = 6
SPECIFICATION TempSpec
INVARIANTS
    FirstAllocationWorks
CHECK_DEADLOCK FALSE
