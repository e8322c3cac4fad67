SPECIFICATION Spec
CONSTANTS
    Nodes = {n1, n2}
    Free = Free
    Reboot = TRUE
    Drain = TRUE
    Faults = {"kill"}
INVARIANTS
    OneHostUpgrades
