SPECIFICATION FairSpec
CONSTANTS
    Nodes = {n1, n2}
    Free = Free
INVARIANTS
    TypeOK
    MutualExclusion
    NoLostWakeup
    LockInv
PROPERTIES
    ImplementsService
    LockReleased
    AttemptEnds
