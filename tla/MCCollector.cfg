SPECIFICATION FairSpec
CONSTANTS
    Procs = {p1, p2, p3}
    Limit = 2
    Absent = Absent
INVARIANTS
    TypeOK
    BoundedReaders
    SingleWriter
    EveryPidAccounted
    NeverStuck
PROPERTIES
    ImplementsContract
    CallReturns
