---------------------------- MODULE MCDaemonLock ----------------------------
(* Small instances of DaemonLock.                                          *)
EXTENDS DaemonLock, TLC

CONSTANTS queueParserTx, blockGenerator, blocksCollection, confirmations

Order == <<blocksCollection, queueParserTx, blockGenerator>>
OrderWithFree == <<confirmations>> \o Order
TwoLockers == <<blocksCollection, blockGenerator>>
WorkFaults == {"work"}
AllFaults == {"db", "work"}
NoFaults == {}
=============================================================================
