\* A generator that leaves its section without unlocking.
SPECIFICATION FairSpec
CONSTANTS
    confirmations = confirmations
    queueParserTx = queueParserTx
    blockGenerator = blockGenerator
    blocksCollection = blocksCollection
    Plain = {}
    Generators = {blockGenerator}
    Collectors = {blocksCollection}
    Free = {}
    Signal = signal
    Watcher = watcher
    Nobody = nobody
    Faults <- WorkFaults
    DaemonSeq <- TwoLockers
    MaxCrashes = 0
    MaxStarts = 1
PROPERTIES
    CollectorUnlocked
