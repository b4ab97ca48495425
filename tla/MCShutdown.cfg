SPECIFICATION Spec
CONSTANTS
    Cats <- MCCats
    Unknown = Unknown
    NoReport = NoReport
    Absent = Absent
    NoMap = NoMap
    engine = engine
    helper = helper
    Pids = {1, 2, 3}
    Kinds = {engine, helper}
    CategoryOf <- MCCategoryOf
    MemOf <- MCMemOf
    MinCpu = 0
    MinMem = 1
    Events = {"signal"}
    Faults = {}
    MaxStarts = 1
    MaxCpu = 0
INVARIANTS
    ChangeSignalsShift
