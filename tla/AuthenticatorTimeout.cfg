CONSTANTS
    t1 = t1
    t2 = t2
    cmdA = cmdA
    cmdB = cmdB
    Requests = {r1, r2}
    NoRequest = nobody
    Tokens = {t1, t2}
    Commands = {cmdA, cmdB}
    Timeouts = {5, 10}
    None = none
    Vouched <- MCVouched
    Configs <- MCTimeouts
    Broken = broken
    MaxEdits = 1
SPECIFICATION FairSpec
INVARIANTS AuthenticatorApplied
