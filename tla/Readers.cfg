CONSTANTS
    MaxLines = 5
    MaxCount = 3
    MaxOffset = 2
    MaxContext = 2
SPECIFICATION ReadSpec
INVARIANTS ReadExact SearchExact
CHECK_DEADLOCK FALSE
