SPECIFICATION MCSpec
CONSTANTS
    Arguments <- TestArguments
    MaxArguments = 3
    Environments <- TestEnvironments
    strtol <- Teststrtol
    strtod <- Teststrtod
    kint32max = 7
    CODSPEED_WALLTIME = TRUE
    Counters <- TestCounters
    Programs <- TestPrograms
    Instances <- TestInstances
    Unwritable <- TestUnwritable
    Batches <- TestBatches
    MaxBatches = 2
    MaxTogether = 4
INVARIANTS
    ArgumentsLeft
    LastSwitchPrevails
    NothingLeftOut
    JsonDocument
    ColumnsHoldTheirValues
CHECK_DEADLOCK FALSE
