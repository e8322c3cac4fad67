SPECIFICATION FairSpec
CONSTANTS
    Second = 2
    Offsets = {0, 1, 3}
    Uptime = 3
    Downtime = 5
    MaxTime = 20
INVARIANTS
    ClockInv
    CheckIsRight
PROPERTIES
    ImplementsMark
    RebootIsSeen
