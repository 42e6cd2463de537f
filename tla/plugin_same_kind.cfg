SPECIFICATION Spec
CONSTANTS
    Types = {"postgres"}
    Wants = {"v1"}
    Kinds = {"Secret", "Postgres"}
    Deps = {"secret", "credentials", "postgres"}
    Config <- TwoSecrets
    Resources <- OneResource
    UserSpecs <- OneManifest
    Foreign = {}
    Nameless = "nameless"
    FaultSites = {}
    MaxDisturbances = 0
    MaxFaults = 0
    MaxDeaths = 0
INVARIANTS
    DoneMeansProcessed
