SPECIFICATION Spec
CONSTANTS
    NDeps = 2
    Kinds = {"Secret", "Pod"}
    Config <- SecretThenPod
    Wants = {"v1", "v2", "v3"}
    UserSpecs <- Manifests
    MaxUid = 1
    MaxDisturbances = 0
    MaxFaults = 2
    MaxLag = 2
    FaultSites = {"create"}
    Foreign = {}
    Requeues = {FALSE}
    Recomputes = TRUE
INVARIANTS
    FailuresAreRetried
CHECK_DEADLOCK FALSE
