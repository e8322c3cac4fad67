SPECIFICATION FairSpec
CONSTANTS
    Nodes = {n1, n2}
    Free = Free
    Reboot = TRUE
    Drain = FALSE
    Faults = {"kill", "reset", "api", "exec", "journal", "upgrade", "login", "lost"}
PROPERTIES
    ReturnsToIdle
    UsesUpgradeService
