SPECIFICATION Spec
CONSTANTS
    Nodes = {n1, n2}
    Free = Free
    Reboot = TRUE
    Drain = TRUE
    Faults = {"kill", "reset", "api", "late", "exec", "bus", "journal", "upgrade", "evict", "login", "lost"}
VIEW SafetyView
SYMMETRY Symmetry
CONSTRAINT FewLate
INVARIANTS
    TypeOK
    LockHeldDuringReboot
    RebootingIsMarked
    CordonIsAnnotated
    HostInv
    OneNodeUnavailable
PROPERTIES
    RebootsWhenReady
    UsesLockService
    UsesRebootMark
    ImplementsRollingReboot
