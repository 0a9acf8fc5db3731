SPECIFICATION Spec
CONSTANTS
    Proc <- FiveProcesses
    Junk = junk
INVARIANTS
    ScanKeepsAll
    ArrivalsInOrder
CHECK_DEADLOCK FALSE
