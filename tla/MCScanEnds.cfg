SPECIFICATION FairSpec
CONSTANTS
    Cats <- MCCats
    Unknown = Unknown
    NoReport = NoReport
    Absent = Absent
    NoMap = NoMap
    engine = engine
    helper = helper
    Pids = {1, 2}
    Kinds = {engine, helper}
    CategoryOf <- MCCategoryOf
    MemOf <- MCMemOf
    MinCpu = 1
    MinMem = 1
    Events = {"restart", "stop", "signal"}
    Faults = {"partial", "timeout", "list"}
    MaxStarts = 1
    MaxCpu = 0
PROPERTIES
    ScanEnds
