\* A collected block that fails at its second transaction.
SPECIFICATION Spec
CONSTANTS
    t1 = t1
    t2 = t2
    t3 = t3
    me = me
    peer = peer
    other = other
    Tx = {t1, t2, t3}
    Makers = {me, peer, other}
    Self = me
    Genesis <- Block1
    Conflicts <- TxConflicts
    HowFails <- Failures
    PeerChains <- OneConflictChain
    RB1 = 2
    RB2 = 2
    MaxId = 3
    MaxCrashes = 0
INVARIANTS
    RefusedIsRolledBack
