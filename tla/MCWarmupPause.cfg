SPECIFICATION Spec
CONSTANTS
    Modes = {"walltime"}
    Styles = {"range", "keep", "batch"}
    Schedule <- WarmupAndMeasured
    Pausing = {"warmup", "measured"}
    MaxIters = 3
    MaxBatch = 2
    MaxPauses = 2
    MaxTime = 4
INVARIANTS
    NoCheckFails
CHECK_DEADLOCK FALSE
