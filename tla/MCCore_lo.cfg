SPECIFICATION CoreSpec
CONSTANTS
    N = 1
    MaxTick = 12
    MaxEvents = 128
    Horizon = 5
    Scenarios <- SlicedScenarios
PROPERTIES
    LoSliceIsQuantumLo
CHECK_DEADLOCK FALSE
