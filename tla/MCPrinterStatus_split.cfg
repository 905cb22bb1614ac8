SPECIFICATION StatusSpec
CONSTANTS
    Layouts <- MCLayouts
    IppHdr = 2
    Cuts = {"line"}
    MaxInfo = 1
INVARIANTS
    LooksAtTheResponse
CHECK_DEADLOCK FALSE
