SPECIFICATION Spec
CONSTANTS
    Paths <- TestPaths
    Functions <- TestFunctions
    Bracketed <- TestBracketed
    Customs <- TestCustoms
    Args <- TestArgs
    Renames <- TestRenames
    MaxInstances = 2
    Iters = {1, 2}
    RoundTimes = {0, 3, 8}
    Scale = 2
    MaxVaried = 5
    MaxRounds = 12
    NumThreads = 2
    Flags <- TestFlags
    Values = {1, 3}
    Iterations = 2
    Timings <- TestTimings
    Sizes = {1, 2, 4}
    BigOs = {"oAuto", "oNSquared"}
    MaxRuns = 3
INVARIANTS
    UrisDistinct
    UrisAgree
    RoundStatistics
    AggregatesOfTheShown
    ComplexityRecognised
PROPERTIES
    CountersFinished
CHECK_DEADLOCK FALSE
