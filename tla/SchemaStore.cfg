CONSTANTS
    Connections = {n1, n2}
    Hanging = {n2}
    Calls = {c1, c2}
    NoCall = nobody
    TTL = 1
    MaxLag = 1
    MaxAlters = 1
SPECIFICATION FairSpec
INVARIANTS TypeOK RefreshIsFresh AgeBounded ConnectionsNotLeaked
PROPERTIES OthersServed
