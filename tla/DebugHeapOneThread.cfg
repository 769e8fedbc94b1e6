CONSTANTS
    Header = {h1, h2, h3}
    Null = Null
    Thread = {t1}
    NoThread = NoThread
    Allocator = {arena}
    InPlace = {arena}
    FreesAll = {arena}
    Persistent = persistent
    Sizes = {1, 2, 3}
    VerifyFrequency = 1
    IdModulus = 4
    MaxAllocations = 3
    MaxReallocations = 2
SPECIFICATION FairSpec
INVARIANTS
    NoAssertFires
PROPERTIES
    CallsReturn
