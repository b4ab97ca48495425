SPECIFICATION Spec
CONSTANTS
    Cats <- MCCats
    Unknown = Unknown
    NoReport = NoReport
    Absent = Absent
    NoMap = NoMap
    engine = engine
    helper = helper
    Pids = {1, 2}
    Kinds = {engine}
    CategoryOf <- MCCategoryOf
    MemOf <- MCMemOf
    MinCpu = 1
    MinMem = 1
    Events = {"start", "stop", "work"}
    Faults = {"partial", "timeout", "list"}
    MaxStarts = 1
    MaxCpu = 1
INVARIANTS
    TypeOK
    RateWithinWindow
PROPERTIES
    QuietMeansNoDrift
    ImplementsDriftStream
