SPECIFICATION Spec
CONSTANTS
    Systems = {"centos"}
    Versions = {v1, v2}
    Configured = {v1}
    None = None
    Partial = Partial
INVARIANTS
    FailureIsReported
