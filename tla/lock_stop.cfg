\* Stops, crashes and restarts with every work error, without database errors.
SPECIFICATION Spec
CONSTANTS
    confirmations = confirmations
    queueParserTx = queueParserTx
    blockGenerator = blockGenerator
    blocksCollection = blocksCollection
    Plain = {queueParserTx}
    Generators = {blockGenerator}
    Collectors = {blocksCollection}
    Free = {confirmations}
    Signal = signal
    Watcher = watcher
    Nobody = nobody
    Faults <- WorkFaults
    DaemonSeq <- OrderWithFree
    MaxCrashes = 1
    MaxStarts = 2
INVARIANTS
    TypeOK
    MutualExclusion
    StaleRowCause
    OthersKilled
