\* A stop without any fault.
SPECIFICATION Spec
CONSTANTS
    confirmations = confirmations
    queueParserTx = queueParserTx
    blockGenerator = blockGenerator
    blocksCollection = blocksCollection
    Plain = {}
    Generators = {blockGenerator}
    Collectors = {blocksCollection}
    Free = {}
    Signal = signal
    Watcher = watcher
    Nobody = nobody
    Faults <- NoFaults
    DaemonSeq <- TwoLockers
    MaxCrashes = 0
    MaxStarts = 1
INVARIANTS
    DaemonsKilled
