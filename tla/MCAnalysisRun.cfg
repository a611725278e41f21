SPECIFICATION Spec
CONSTANTS
    Threads = {c, other}
    Caller = c
    States = 2
    MaxPhase = 4
PROPERTIES
    AnalysisTerminates
