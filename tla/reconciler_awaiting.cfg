SPECIFICATION FairSpec
CONSTANTS
    NDeps = 3
    Kinds = {"Role", "Capability", "ConfigMap"}
    Config <- OthersThenRole
    Wants = {"v1", "v2"}
    UserSpecs <- FewManifests
    MaxUid = 1
    MaxDisturbances = 3
    MaxFaults = 0
    MaxLag = 1
    FaultSites = {}
    Foreign = {1, 2}
    Requeues = {TRUE}
    Recomputes = TRUE
INVARIANTS
    CreationOrder
PROPERTIES
    EventuallyConverges
CHECK_DEADLOCK FALSE
