SPECIFICATION Spec
CONSTANTS
    f1 = f1
    f2 = f2
    Files = {f1, f2}
    Listing <- MCListing
    NoFile = NoFile
    Root = "top"
    DirOf <- MCDirOf
    Original <- MCOriginal
    Contents <- MCContents
    SmallLimit = 2
    Counts <- MCCounts
    MaxClock = 2
    MaxEdits = 1
    MaxFaults = 1
    MaxRuns = 2
INVARIANTS
    StampMeansCopied
    SuccessMeansSynced
    FailuresAreReal
    HandledOnce
PROPERTIES
    RunEnds
CHECK_DEADLOCK FALSE
