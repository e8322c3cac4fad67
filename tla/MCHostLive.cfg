SPECIFICATION FairSpec
CONSTANTS
    Nodes = {n1, n2}
    Free = Free
    Reboot = TRUE
    Drain = TRUE
    Faults = {"reset", "upgrade", "evict"}
INVARIANTS
    OneHostUpgrades
    ReadyIsClean
    ConditionsMatchHost
    PendingMeansReboot
PROPERTIES
    ReturnsToIdle
    UsesNodeService
