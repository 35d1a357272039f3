CONSTANTS
    fileA = fileA
    fileB = fileB
    Paths <- MCPaths
    Volatile <- MCVolatile
    Journal = journal
    NoPath = nopath
    Requests = {r1, r2}
    NoRequest = nobody
    Acls <- MCAcls
    TTL = 1
SPECIFICATION FairSpec
INVARIANTS TypeOK CacheMatchesSettings
PROPERTIES ImplementsFileAccess CallsAnswered
