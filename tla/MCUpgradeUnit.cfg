SPECIFICATION FairSpec
CONSTANTS
    Systems = {"ubuntu", "debian", "centos"}
    Versions = {v1, v2}
    Configured = {v1}
    None = None
    Partial = Partial
INVARIANTS
    TypeOK
    ReadsWhole
    AwaitedReadsOwn
    ResultIsOwn
    AptFailureIsReported
    UnitInv
PROPERTIES
    ImplementsUpgrade
    UpgradeReturns
