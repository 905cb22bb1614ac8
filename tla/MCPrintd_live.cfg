SPECIFICATION FairSpec
CONSTANTS
    NoFile = NoFile
    Clients = {c1, c2}
    MaxJob = 2
    Base = 2
    MaxCrashes = 1
    MaxFaults = 0
PROPERTIES
    EventuallyPrinted
