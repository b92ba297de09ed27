\* Forks, refused transactions, resets and one crash.
SPECIFICATION Spec
CONSTANTS
    t1 = t1
    t2 = t2
    t3 = t3
    me = me
    peer = peer
    other = other
    Tx = {t1, t2, t3}
    Makers = {me, peer, other}
    Self = me
    Genesis <- Block1
    Conflicts <- TxConflicts
    HowFails <- Failures
    PeerChains <- TwoChains
    RB1 = 1
    RB2 = 2
    MaxId = 3
    MaxCrashes = 1
INVARIANTS
    TypeOK
    LedgerIsChain
    StoredChain
    ForkKeepsTxs
    UndoneInOrder
    AppliedOnce
    LoggedIsApplied
    CrashUnlogs
PROPERTIES
    KeepsChain
CONSTRAINTS
    ShortLedger
    Promising
