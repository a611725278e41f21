SPECIFICATION Spec
CONSTANTS
    Modes = {"off", "walltime", "analysis"}
    Interleaving = {FALSE, TRUE}
    Skips = {"no", "before", "loop"}
    Instances = 3
    Repeats <- ThreeRepeats
    Family <- ThreeFamilies
    Complex = {0}
INVARIANTS
    EachReportedOnce
    ComplexityOnce
    ErasedEntriesUnused
    ExecutedInOrder
