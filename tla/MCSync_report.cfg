SPECIFICATION Spec
CONSTANTS
    f1 = f1
    f2 = f2
    Files = {f1, f2}
    Listing <- MCListing
    NoFile = NoFile
    Root = "top"
    DirOf <- MCDirOf
    Original <- MCOriginal
    Contents <- MCContents
    SmallLimit = 2
    Counts <- MCCounts
    MaxClock = 1
    MaxEdits = 0
    MaxFaults = 1
    MaxRuns = 1
INVARIANT
    FailuresAreReported
CHECK_DEADLOCK FALSE
