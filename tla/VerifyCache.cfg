CONSTANTS
    Tokens = {t1, t2}
    NoToken = none
    Callers = {r1, r2}
    NoCaller = nobody
    TTL = 2
    MaxLag = 1
SPECIFICATION CacheFairSpec
INVARIANTS CacheTypeOK EntryBounded
PROPERTIES AcceptedWhileKnown NobodyWaitsForTheCommand
