SPECIFICATION Spec
CONSTANTS
    Cats <- MCCats
    Unknown = Unknown
    NoReport = NoReport
    Scans <- MCScans
    MaxCount = 8
    MinTotal = 23
    MaxTotal = 23
INVARIANTS
    SameBucketsSameHash
