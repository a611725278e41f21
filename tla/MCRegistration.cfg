SPECIFICATION Spec
CONSTANTS
    Paths <- TestPaths
    Functions <- TestFunctions
    kmax = 15
    kRangeMultiplier = 8
    Multipliers = {1, 2}
    RangeBounds <- TestRangeBounds
    DenseRanges <- TestDenseRanges
    ArgLists <- TestArgLists
    ArgProducts <- TestArgProducts
    RangeLists <- TestRangeLists
    NameLists <- TestNameLists
    ThreadRanges <- TestThreadRanges
    num_cpus = 2
    Times = {0, 1}
    Filters <- TestFilters
    MaxFamilies = 2
    MaxCalls = 4
INVARIANTS
    FamiliesWellFormed
    NamesTellApart
PROPERTIES
    ArgumentsExact
    FoundOnce
    FindAgain
CHECK_DEADLOCK FALSE
