CONSTANTS
    Components = {"storage"}
    Thread = {t1, t2, t3}
    Static = {outer, inner}
    outer = outer
    inner = inner
    Needs <- MCNeeds
    HalfRange = 9
    MaxAborts = 1
    Waiter = {w1, w2}
    Notifier = {n1, n2}
    Nobody = Nobody
    w1 = w1
    Need1 = 1
    Need2 = 1
    Take = 0
    NotifyAll = TRUE
    PoolHeader = 1
    NoBlock = NoBlock
    Converter = {t1}
    NoThread = NoThread
    Storage = {s1, s2}
    StartingSize = 8
    Sizes = {2, 9}
    MaxGiven = 4
    Process = {p1, p2}
    Path <- MCPath
    Root <- MCRoot
    Data <- MCData
    InitialFiles <- MCInitialFiles
    InitialDirs <- MCInitialDirs
    SizeLimit = 3
    MaxContents = 3
    MaxCalls = 1
SPECIFICATION AllSpec
INVARIANTS
    NeverUsesFreedStorage
