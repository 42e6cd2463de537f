SPECIFICATION Spec
CONSTANTS
    Controllers = {"component", "capability", "link"}
    Kinds = {"Secret", "Deployment", "Postgres"}
    Lists <- Shared
    MaxFaults = 2
INVARIANTS
    TypeOK
    WatchedOnce
    PassedIsWatched
