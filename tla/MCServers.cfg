SPECIFICATION Spec
CONSTANTS
    OpenClients = {c1, c2}
    MaxLines = 2
    NAlloc = 1
    MaxMishaps = 1
    SemProcs = {p1, p2, p3}
    BIGCOUNT = 9
    InitVal = 1
    MaxCalls = 4
    MaxExits = 1
INVARIANTS
    WatchedAreOpen
    AnswerIsForTheAsker
    SemaphoreIsSound
PROPERTIES
    CsopenReturns
    CreateReturns
CHECK_DEADLOCK FALSE
