SPECIFICATION FairSpec
CONSTANTS
    Nodes = {n1}
    Free = Free
    Reboot = TRUE
    Drain = TRUE
    Faults = {"api"}
PROPERTIES
    DrainIsUndone
