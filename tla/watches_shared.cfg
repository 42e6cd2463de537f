SPECIFICATION Spec
CONSTANTS
    Controllers = {"component", "capability"}
    Kinds = {"Secret", "Deployment", "Postgres"}
    Lists <- Shared
    MaxFaults = 0
INVARIANTS
    DependentsReachTheirController
