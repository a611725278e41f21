SPECIFICATION FairBarrierSpec
CONSTANTS
    Threads = {t1, t2, t3, t4}
    MaxPhase = 3
INVARIANTS
    BarrierInv
PROPERTIES
    EveryoneReleased
    RefinesPhaseBarrier
CHECK_DEADLOCK FALSE
