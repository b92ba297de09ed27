\* Liveness in one run of the process, with every fault.
SPECIFICATION FairSpec
CONSTANTS
    confirmations = confirmations
    queueParserTx = queueParserTx
    blockGenerator = blockGenerator
    blocksCollection = blocksCollection
    Plain = {queueParserTx}
    Generators = {blockGenerator}
    Collectors = {blocksCollection}
    Free = {}
    Signal = signal
    Watcher = watcher
    Nobody = nobody
    Faults <- AllFaults
    DaemonSeq <- Order
    MaxCrashes = 0
    MaxStarts = 1
INVARIANTS
    LockInv
PROPERTIES
    StopCompletes
    WaitEnds
