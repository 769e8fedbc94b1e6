CONSTANTS
    Components = {"headers", "table", "signal", "array", "string", "builder", "buffer", "threads", "exit", "console", "destructors"}
    Header = {h1, h2, h3, h4}
    Null = Null
    Key = {2, 3, 6, 10}
    Value = {"none", "a"}
    NoValue = "none"
    Hash <- MCHash
    MINIMUM_SIZE = 4
    Reserves = {1, 8}
    MaxFilled = 1
    MaxAllocated = 16
    MaxPower = 8
    Callback = {c1, c2}
    MaxCallbacks = 3
    MaxDepth = 2
    MaxRequests = 2
    Arrays = {x1, x2}
    Element = {e1, e2}
    e1 = e1
    e2 = e2
    Garbage = Garbage
    ArrayMinimum = 2
    Nobody = Nobody
    Fresh = Fresh
    MinimumAllocated = 2
    Inputs <- MCInputs
    Needles <- MCNeedles
    MaxLength = 4
    CodePoints = {32, 65, 97, 233, 65536}
    Words <- MCWords
    Blanks <- MCBlanks
    MaxText = 4
    Buffer = {base, b1, b2, b3}
    Base = base
    NoBuffer = NoBuffer
    BUFFER_SIZE = 2
    Texts <- MCTexts
    MaxBuilt = 8
    MaxIndirections = 5
    StackSize = 4
    MinimumBlock = 8
    MaxHeld = 7
    Thread = {t1, t2, t3}
    NoThread = NoThread
    Main = t1
    Shared = {heap}
    Nothing = Nothing
    Stays = TRUE
    MaxScopes = 2
    Function = {plain, scheduling}
    MaxScheduled = 4
    plain = plain
    scheduling = scheduling
    CONSOLE_BUFFER_SIZE = 2
    Sizes = {1, 2, 3}
    MaxWritten = 5
    FUNCS_PER_NODE = 2
    MaxRegistered = 6
SPECIFICATION SystemSpec
INVARIANTS
    SystemTypesOK
    ListIsOrder
    NoAssertFires
    FindAgrees
    CallsWhatIsDue
    ContentsAgree
    StringIsValue
    BuffersHold
    StartsAsLaunched
    ExitRunsScheduled
    OutputKept
    DestroyedInReverse
PROPERTIES
    ImplementsDictionary
    NoneRemovedWhileEmitting
CHECK_DEADLOCK FALSE
