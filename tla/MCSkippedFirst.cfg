SPECIFICATION Spec
CONSTANTS
    Paths = {}
    Functions = {}
    Bracketed = {}
    Customs = {}
    Args = {}
    Renames = {}
    MaxInstances = 0
    Iters = {1}
    RoundTimes = {}
    Scale = 1
    MaxVaried = 1
    MaxRounds = 0
    NumThreads = 1
    Flags <- TestFlags
    Values = {}
    Iterations = 2
    Timings <- TestTimings
    Sizes = {1}
    BigOs = {"oAuto"}
    MaxRuns = 3
INVARIANTS
    AggregatesWithoutTheFirst
CHECK_DEADLOCK FALSE
