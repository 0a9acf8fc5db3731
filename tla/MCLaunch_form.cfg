SPECIFICATION ScreenSpec
CONSTANTS
    IntHalf = 16384
    Path = {"a"}
    BernoulliCap = 2
    PoissonCap = 1
    CommandLines = {}
    FileSystems <- OnScreen
    Tried = {90}
    Timelines = {}
    InView = 1
    MaxEdits = 1
INVARIANTS
    SplitCompleted
CHECK_DEADLOCK FALSE
