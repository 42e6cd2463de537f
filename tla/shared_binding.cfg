SPECIFICATION FairSpec
CONSTANTS
    Owners = {"component", "capability"}
    Nobody = "nobody"
    Updated <- ConfiguredByHand
    MaxDisturbances = 1
INVARIANTS
    TypeOK
PROPERTIES
    SubjectsKept
    EventuallyBound
    NothingLeftBehind
CHECK_DEADLOCK FALSE
