SPECIFICATION FairThreadsSpec
CONSTANTS
    Threads = {main, w1, w2}
    Main = main
    Nobody = nobody
    MaxPhase = 3
    MaxIters = 2
    Durations = {3}
INVARIANTS
    Together
    ThreadsInv
    CollectedIsComplete
PROPERTIES
    UsesBarrier
    RunTerminates
