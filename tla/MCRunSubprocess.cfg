SPECIFICATION FairSpec
CONSTANTS
    Faults = {"start", "sample"}
INVARIANTS
    TypeOK
    NothingLeftBehind
    KillsItsOwnChild
    ProfileIsComplete
PROPERTIES
    CommandReturns
