SPECIFICATION Spec
CONSTANTS
    NDeps = 2
    Kinds = {"Deployment", "Service"}
    Config <- BothChecked
    Wants = {"v1", "v2", "v3"}
    UserSpecs <- Manifests
    MaxUid = 1
    MaxDisturbances = 1
    MaxFaults = 0
    MaxLag = 2
    FaultSites = {}
    Foreign = {}
    Requeues = {FALSE}
    Recomputes = TRUE
INVARIANTS
    EveryCheckedDependentCounted
CHECK_DEADLOCK FALSE
