SPECIFICATION FairSpec
CONSTANTS
    NDeps = 2
    Kinds = {"Secret", "Pod"}
    Config <- SecretThenPod
    Wants = {"v1", "v2"}
    UserSpecs <- FewManifests
    MaxUid = 1
    MaxDisturbances = 1
    MaxFaults = 1
    MaxLag = 1
    FaultSites = {"delete", "init", "watch", "check", "status"}
    Foreign = {}
    Requeues = {FALSE}
    Recomputes = TRUE
INVARIANTS
    NoLostWakeup
    FailuresAreRetried
    FailureIsForgotten
PROPERTIES
    EventuallyConverges
    NothingLeftBehind
CHECK_DEADLOCK FALSE
