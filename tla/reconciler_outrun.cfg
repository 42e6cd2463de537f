SPECIFICATION Spec
CONSTANTS
    NDeps = 2
    Kinds = {"Secret", "Pod"}
    Config <- SecretThenPod
    Wants = {"v1", "v2", "v3"}
    UserSpecs <- Manifests
    MaxUid = 1
    MaxDisturbances = 1
    MaxFaults = 0
    MaxLag = 2
    FaultSites = {}
    Foreign = {}
    Requeues = {FALSE}
    Recomputes = TRUE
INVARIANTS
    ChangesAreNoticed
CHECK_DEADLOCK FALSE
