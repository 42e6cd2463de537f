SPECIFICATION FairSpec
CONSTANTS
    Types = {"postgres", "mysql", "redis"}
    Wants = {"v1", "v2", "bad"}
    Kinds = {"Secret", "Postgres", "MySQL", "Account"}
    Deps <- DatabaseDeps
    Config <- Databases
    Resources <- TwoResources
    UserSpecs <- Manifests
    Foreign = {"secret", "account"}
    Nameless = "nameless"
    FaultSites = {"get", "build", "create", "update", "store", "status"}
    MaxDisturbances = 2
    MaxFaults = 1
    MaxDeaths = 1
INVARIANTS
    TypeOK
    ServerNeverPanics
    DoneMeansProcessed
PROPERTIES
    RealisationSpec
    EventuallyRealised
CHECK_DEADLOCK FALSE
