SPECIFICATION Spec
CONSTANTS
    NoFile = NoFile
    Clients = {c1, c2}
    MaxJob = 3
    Base = 3
    MaxCrashes = 2
    MaxFaults = 1
SYMMETRY Symmetry
INVARIANTS
    TypeOK
    Durable
    HeadersMatchData
    NoDuplicates
    NothingForgotten
