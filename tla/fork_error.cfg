\* A fork with a bad block.
SPECIFICATION FairSpec
CONSTANTS
    t1 = t1
    t2 = t2
    t3 = t3
    me = me
    peer = peer
    other = other
    Tx = {t1}
    Makers = {me, peer, other}
    Self = me
    Genesis <- Block1
    Conflicts <- NoConflicts
    HowFails <- Failure
    PeerChains <- OneBadChain
    RB1 = 2
    RB2 = 2
    MaxId = 3
    MaxCrashes = 0
PROPERTIES
    RefusedForkIsUndone
