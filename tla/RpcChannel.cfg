CONSTANTS
    Calls = {c1, c2}
    NoCall = none
    Timeout = 2
    MaxPushes = 2
SPECIFICATION FairSpec
INVARIANTS TypeOK ClientNotLeaked
PROPERTIES ImplementsToolCall CallReturns
