CONSTANTS
    t1 = t1
    t2 = t2
    cmdA = cmdA
    cmdB = cmdB
    Requests = {r1, r2}
    NoRequest = nobody
    Tokens = {t1, t2}
    Commands = {cmdA, cmdB}
    Timeouts = {5}
    None = none
    Vouched <- MCVouched
    Configs <- MCConfigs
    Broken = broken
    MaxEdits = 1
SPECIFICATION FairSpec
INVARIANTS TypeOK SnapshotConsistent AdmittedByAuthority AclNotOlderThanAuth
PROPERTIES LastEditApplied RequestsAnswered
