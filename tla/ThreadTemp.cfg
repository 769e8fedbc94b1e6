CONSTANTS
    Components = {"threads"}
    Header = {h1, h2, h3, h4}
    Null = Null
    Callback = {c1, c2}
    MaxCallbacks = 3
    MaxDepth = 2
    MaxRequests = 2
    Thread = {t1, t2}
    NoThread = NoThread
    Main = t1
    Shared = {heap}
    Nothing = Nothing
    Stays = FALSE
    MaxScopes = 2
    Function = {plain, scheduling}
    ArrayMinimum = 2
    Garbage = Garbage
    MaxScheduled = 4
    plain = plain
    scheduling = scheduling
    CONSOLE_BUFFER_SIZE = 2
    Sizes = {1, 2, 3}
    MaxWritten = 5
    FUNCS_PER_NODE = 2
    MaxRegistered = 6
SPECIFICATION ProcessSpec
INVARIANTS
    NoForeignTemp
CHECK_DEADLOCK FALSE
