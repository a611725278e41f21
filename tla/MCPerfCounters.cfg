SPECIFICATION FairSpec
CONSTANTS
    Known = {"cycles", "instructions"}
    Requests <- TestRequests
    kMaxCounters = 3
    kPadding = 2
    kNrOfSyscallRetries = 2
    MaxTime = 1
    MaxCreates = 2
INVARIANTS
    DescriptorsOwned
    StopMeasuresInterval
PROPERTIES
    CreateReturns
CHECK_DEADLOCK FALSE
