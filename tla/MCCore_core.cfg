SPECIFICATION CoreSpec
CONSTANTS
    N = 3
    MaxTick = 60
    MaxEvents = 128
    Horizon = 5
    Scenarios <- CoreScenarios
INVARIANTS
    TypeOK
    OnePlace
    NoScriptedIoMissed
    BurstExact
    TimeAccounted
    ShownOnce
    QuantumUsedIsSlice
    Undemoted
    EndlessNeverDone
PROPERTIES
    OneServicePerTick
    WorkConserving
    EveryTickProgresses
    OnlyHeadLeaves
    ImplementsContract
    LogExplainsStep
    
    SliceIsWholeQuantum
    FiniteEnds
CHECK_DEADLOCK FALSE
