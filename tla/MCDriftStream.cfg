SPECIFICATION Spec
CONSTANTS
    Cats <- MCCats
    Unknown = Unknown
    NoReport = NoReport
    Scans <- MCScans
    MaxCount = 6
    MinTotal = 5
    MaxTotal = 7
INVARIANTS
    TypeOK
    DriftChangesHash
    VanishingIsReported
PROPERTIES
    RoundTripMirrors
