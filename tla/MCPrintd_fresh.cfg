SPECIFICATION Spec
CONSTANTS
    NoFile = NoFile
    Clients = {c1, c2}
    MaxJob = 3
    Base = 3
    MaxCrashes = 1
    MaxFaults = 0
PROPERTIES
    FreshNumbers
