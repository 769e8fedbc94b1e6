CONSTANTS
    Header = {h1, h2, h3}
    Null = Null
    Thread = {t1, t2}
    NoThread = NoThread
    Allocator = {arena}
    InPlace = {arena}
    FreesAll = {arena}
    Persistent = persistent
    Sizes = {1, 2}
    VerifyFrequency = 255
    IdModulus = 5
    MaxAllocations = 2
    MaxReallocations = 1
SPECIFICATION Spec
SYMMETRY Symmetric
INVARIANTS
    TypeOK
    ListIsHeap
PROPERTIES
    LedgerSpec
