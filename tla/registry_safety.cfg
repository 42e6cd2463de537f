SPECIFICATION Spec
CONSTANTS
    Pairs = {"postgres", "mysql"}
    Versions = {"v1", "v2"}
    Plugins = {"kubedb", "other"}
    Nobody = Nobody
    Names = {"postgres", "mysql"}
    InfoName <- OwnNames
    Offers <- TwoPlugins
    Directories <- Installations
    MaxDisturbances = 3
    MaxFaults = 2
INVARIANTS
    TypeOK
    Advertised
    OfferedIsProvided
    PurgeIsThorough
PROPERTIES
    DirectorySpec
CHECK_DEADLOCK FALSE
