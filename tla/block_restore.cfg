\* Refused forks of up to three blocks, one transaction, one crash.
SPECIFICATION FairSpec
CONSTANTS
    t1 = t1
    t2 = t2
    t3 = t3
    me = me
    peer = peer
    other = other
    Tx = {t1}
    Makers = {me, peer, other}
    Self = me
    Genesis <- Block1
    Conflicts <- NoConflicts
    HowFails <- Failure
    PeerChains <- LongChains
    RB1 = 1
    RB2 = 2
    MaxId = 4
    MaxCrashes = 1
INVARIANTS
    LedgerIsChain
    StoredChain
PROPERTIES
    JobEnds
    KeepsChain
CONSTRAINT
    Promising
