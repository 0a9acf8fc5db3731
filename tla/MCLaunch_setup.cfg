SPECIFICATION SetupSpec
CONSTANTS
    IntHalf = 16384
    Path = {"a"}
    BernoulliCap = 2
    PoissonCap = 1
    CommandLines <- ShortLines
    FileSystems <- SomeFiles
    Tried = {14}
    Timelines <- SomeTimelines
    InView = 1
    MaxEdits = 2
INVARIANTS
    SharesSumTo100
    OrderIrrelevant
    HandedOver
    FormIsRun
    
    OpeningLosesNothing
PROPERTIES
    StartEnds
CHECK_DEADLOCK FALSE
