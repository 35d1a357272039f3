CONSTANTS
    Requests = {r1, r2}
    Grace = 2
SPECIFICATION Spec
INVARIANTS ShutdownDrains
CHECK_DEADLOCK FALSE
