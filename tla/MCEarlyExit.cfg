SPECIFICATION Spec
CONSTANTS
    Faults = {}
INVARIANTS
    EarlyExitIsAnError
