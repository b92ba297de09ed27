\* Forks while transactions travel, or while the last block is confirmed.
SPECIFICATION FairSpec
CONSTANTS
    n1 = n1
    n2 = n2
    t1 = t1
    Nodes = {n1, n2}
    Settings <- OneTellsOrOneChecks
    Tx = {t1}
    RB1 = 1
    RB2 = 2
    MinGood = 2
    Recent = 1
    Limit = 0
    Slots = {1, 2}
    MaxId = 3
    MaxLost = 1
    MaxRefused = 1
INVARIANTS
    TypeOK
    TxsKept
    TxsOnce
    SentIsKnown
    NeverShutOut
    ConfirmedWasShared
PROPERTIES
    Converges
    LastConfirmed
CHECK_DEADLOCK FALSE
