SPECIFICATION Spec
CONSTANTS
    FooThreads = {t1, t2}
    FooIds = {1}
    MaxFoos = 2
    MaxFooCalls = 3
    JobMasters = {m1, m2}
    JobWorkers = {w1, w2}
    MaxJobs = 3
    Consumers = {c1, c2}
    Producers = {p1, p2}
    MaxMsgs = 3
    MaxSignals = 3
    SECTONSEC = 3
    Delay = 2
    MaxClock = 10
    NTHR = 2
    TNUM = 2
    Numbers = {1, 2, 3}
    LONG_MAX = 4
    BSZ = 2
    NBUF = 2
    Input <- MCInput
    MaxAioFaults = 1
    BufSizes = {0, 1, 3}
    Types <- MCTypes
    Bytes = {0, 1, 2}
    MaxStreamCalls = 4
    MaxRounds = 3
    MaxPopens = 3
    MaxPopenFaults = 1
    MaxInput = 2
    MaxTtyFaults = 2
    Layouts <- MCLayouts
    IppHdr = 2
    Cuts = {"header", "any"}
    MaxInfo = 1
INVARIANTS
    ReferencesAreSound
    QueueIsSound
    EachMessageOnce
    RetryOnceOnTime
    MergedAreTheSmallest
    ExitMeansTranslated
    StreamIsSound
    TheyTakeTurns
    CommandsHaveTheirOwnPipe
    TerminalIsRestored
    ResponseIsRead
PROPERTIES
    ThreadsGoOn
    ProgramsEnd
CHECK_DEADLOCK FALSE
