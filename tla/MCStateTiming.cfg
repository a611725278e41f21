SPECIFICATION Spec
CONSTANTS
    Modes = {"off", "analysis", "walltime"}
    Styles = {"range", "keep", "batch"}
    Schedule <- WarmupAndMeasured
    Pausing = {"measured"}
    MaxIters = 3
    MaxBatch = 2
    MaxPauses = 2
    MaxTime = 4
INVARIANTS
    NoCheckFails
    CollectsWhatIsTimed
    MarkersTileTheTimer
    IterationsCountBodies
    ExecutedUnderItsName
CHECK_DEADLOCK FALSE
