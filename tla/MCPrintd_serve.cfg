SPECIFICATION Spec
CONSTANTS
    NoFile = NoFile
    Clients = {c1, c2, c3}
    MaxJob = 3
    Base = 3
    MaxCrashes = 0
    MaxFaults = 1
SYMMETRY Symmetry
INVARIANTS
    IdleSpoolIsEmpty
PROPERTIES
    ImplementsSpooler
