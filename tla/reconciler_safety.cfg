SPECIFICATION Spec
CONSTANTS
    NDeps = 2
    Kinds = {"Role", "Secret"}
    Config <- RoleThenSecret
    Wants = {"v1", "v2", "v3"}
    UserSpecs <- Manifests
    MaxUid = 2
    MaxDisturbances = 1
    MaxFaults = 1
    MaxLag = 1
    FaultSites = {"fetch", "delete", "defaults", "init", "watch", "get", "build", "create", "update", "status"}
    Foreign = {}
    Requeues = {FALSE}
    Recomputes = FALSE
INVARIANTS
    TypeOK
    CreationOrder
    NoSpuriousFailure
PROPERTIES
    RealisationSpec
    UserSpecPreserved
    OnlyContentUpdated
CHECK_DEADLOCK FALSE
