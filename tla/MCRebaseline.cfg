SPECIFICATION Spec
CONSTANTS
    Cats <- MCCats
    Unknown = Unknown
    NoReport = NoReport
    Scans <- MCScans
    MaxCount = 2
    MinTotal = 1
    MaxTotal = 2
PROPERTIES
    OnlyFirstScanHasNoBaseline
