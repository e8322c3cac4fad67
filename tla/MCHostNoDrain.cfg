SPECIFICATION Spec
CONSTANTS
    Nodes = {n1, n2}
    Free = Free
    Reboot = TRUE
    Drain = FALSE
    Faults = {}
INVARIANTS
    LockHeldDuringReboot
