SPECIFICATION Spec
CONSTANTS
    k3 = k3
    long = long
    k1 = k1
    k2 = k2
    short = short
    NONE = NONE
    BLANK = BLANK
    Procs = {p1, p2}
    Keys = {k1, k2, k3}
    Data = {short, long}
    NHash = 2
    Hash <- MCHash
    KeyLen <- MCKeyLen
    DatLen <- MCDatLen
    PtrMax = 6
    Databases <- MCDatabases
    Scanners = {p2}
    MaxCalls = 3
    MaxDeaths = 1
INVARIANTS
    ChainsHoldTheRecords
    FilesAreWellFormed
    SomeCallCanProceed
PROPERTIES
    ScansAreRight
    ImplementsDictionary
CHECK_DEADLOCK FALSE
