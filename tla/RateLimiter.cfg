CONSTANTS
    IPs = {a, b}
    NoIP = none
    Requests = {r1, r2, r3}
    MaxFailures = 2
    Window = 1
SPECIFICATION FairSpec
INVARIANTS OldestFirst OvershootBounded
PROPERTIES ImplementsSlidingWindow BlockEnds MemoryReclaimed
