SPECIFICATION FairSpec
CONSTANTS
    Benchmarks <- ManyBenchmarks
    Flags <- ManyFlags
    Costs = {0, 1, 3}
    Skips = {"no", "before", "loop"}
    Batch = 2
    kMaxIterations = 40
    kDefaultMinTime = 4
INVARIANTS
    FirstReportSignificant
    RepetitionsAgree
PROPERTIES
    SearchGrows
    RunnerTerminates
