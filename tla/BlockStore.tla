----------------------------- MODULE BlockStore -----------------------------
(***************************************************************************)
(* How one node keeps its chain, its ledger and its transaction pool in    *)
(* step: appending a block (ParseDataFull), generating one, switching to   *)
(* the fork of another node (GetBlocks), rolling blocks back               *)
(* (ParseDataRollback, RollbackToBlockID), and the two ways in which a     *)
(* failed block is undone (RollbackTo and GetBlocks).                      *)
(*                                                                         *)
(* The daemons that do this hold main_lock (module DaemonLock), so that    *)
(* one job runs at a time.  Everybody else only puts transactions into     *)
(* queue_tx meanwhile, so the statements of a job are grouped into steps;  *)
(* but no SQL transaction groups them, and where a step stands for several *)
(* statements the process may end after any of them.                       *)
(*                                                                         *)
(* The hash of a block covers the hash of its predecessor, so a block is   *)
(* represented by the sequence of payloads from block 1 to it: its length  *)
(* is block_id, its front the previous block.  A transaction is applied    *)
(* or not; two transactions that spend the same thing conflict.  Failing   *)
(* SQL statements are left out, and so are the times of blocks.            *)
(***************************************************************************)
EXTENDS Integers, Sequences, FiniteSets, SequencesExt

CONSTANTS
    Tx,          \* transactions
    Conflicts,   \* sets of two transactions of which one can be applied
    HowFails,    \* where a conflict stops a transaction: in its Front method
                 \* ("front"), in its main method or the action of its contract
                 \* ("main"), in the conditions of its contract, or before
    PeerChains,  \* the chains other nodes offer
    Genesis,     \* the payload of block 1
    Self,        \* this node, as the generator of a block
    Makers,      \* generators of blocks
    RB1, RB2,    \* consts.RB_BLOCKS_1 and RB_BLOCKS_2
    MaxId,       \* bound on block_id
    MaxCrashes   \* bound on crashes

Payloads == [txs : Seq(Tx), by : Makers, bad : BOOLEAN]

(* A block with its ancestors; <<>> stands for a missing row.              *)
Chains == Seq(Payloads)

Txs(blk) == Last(blk).txs

Upto(blk, id) == SubSeq(blk, 1, id)

ASSUME ChainsAssumption ==
    /\ Self \in Makers
    /\ Genesis \in Payloads /\ Genesis.txs = <<>>
    /\ HowFails \in [Tx -> {"front", "main", "conditions", "init"}]
    /\ \A c \in PeerChains :
           c \in Chains /\ c # <<>> /\ c[1] = Genesis /\ Len(c) <= MaxId

ASSUME TxAssumption == IsFiniteSet(Tx)

ASSUME BoundsAssumption ==
    RB1 \in Nat /\ RB2 \in Nat /\ MaxId \in Nat \ {0} /\ MaxCrashes \in Nat

VARIABLES
    rows,       \* block_chain: by id, the block stored there
    info,       \* info_block: the block, and whose wallet_id and state_id
    ledger,     \* effects applied to the other tables, oldest first
    logTx,      \* log_transactions
    trans,      \* transactions: the state of the row of each transaction
    queue,      \* queue_tx
    job,        \* what the holder of main_lock is doing
    crashes,    \* crashes so far
    incidents   \* history: what has gone wrong so far

poolVars  == <<trans, queue>>
chainVars == <<rows, info>>
runVars   == <<crashes, incidents>>
vars == <<chainVars, ledger, logTx, poolVars, job, runVars>>

(* A row of transactions: verified and used are both 0, verified is 1,     *)
(* used is 1, both are 1.                                                  *)
RowStates == {"none", "new", "ok", "stray", "used"}

Ids     == 1 .. MaxId
NoBlock == <<>>
NoTx    == "no tx"
Garbage == "garbage"   \* the hash of bytes that are no transaction

(* The writes of a transaction that are in the tables: all of them, or     *)
(* some, such as its fee alone.  They are torn when rollback_tx, which     *)
(* lists what an undo takes back, does not list exactly those: what the    *)
(* transaction spends is then spent or not.                                *)
Parts   == {"all", "some", "tornAll", "tornSome"}
Effects == [tx : Tx, part : Parts]

ApplyModes == {"collect", "generate", "fork", "restore"}
UndoModes  == {"undoOwn", "undoNew", "reset"}
Modes == ApplyModes \cup UndoModes \cup {"none", "loop", "commit"}
Steps == {"", "form", "header", "mark", "exec", "rollback", "log", "info",
          "row", "error", "unlog", "undo", "drop"}

NoJob == [mode |-> "none", step |-> "", todo |-> <<>>, pos |-> 0,
          base |-> <<>>, new |-> <<>>, host |-> <<>>, at |-> 0,
          hash |-> NoTx, kept |-> NoTx]

TypeOK ==
    /\ rows \in [Ids -> Chains]
    /\ info \in [blk : Chains, by : Makers]
    /\ ledger \in Seq(Effects)
    /\ logTx \subseteq Tx
    /\ trans \in [Tx -> RowStates]
    /\ queue \subseteq Tx
    /\ job \in [mode : Modes, step : Steps, todo : Seq(Chains), pos : Nat,
                base : Chains, new : Chains, host : Chains, at : Nat,
                hash : Tx \cup {NoTx, Garbage},
                kept : Tx \cup {NoTx, Garbage}]
    /\ crashes \in Nat
    /\ incidents \subseteq {"crash", "panic", "stopped", "unrolled",
                            "unrestored", "mixed"}

Init ==
    /\ rows = [id \in Ids |-> IF id = 1 THEN <<Genesis>> ELSE NoBlock]
    /\ info = [blk |-> <<Genesis>>, by |-> Genesis.by]
    /\ ledger = <<>>
    /\ logTx = {}
    /\ trans = [t \in Tx |-> "none"]
    /\ queue = {}
    /\ job = NoJob
    /\ crashes = 0
    /\ incidents = {}

-----------------------------------------------------------------------------
(* The ledger and the pool.                                                *)

Whole == {i \in DOMAIN ledger : ledger[i].part \in {"all", "tornAll"}}

Applied == {ledger[i].tx : i \in Whole}

Conflicted(t) == \E u \in Applied : {t, u} \in Conflicts

Apply(t, part) == ledger' = Append(ledger, [tx |-> t, part |-> part])

(* The number with k - 1 smaller ones in a set.                            *)
Nth(ids, k) == CHOOSE i \in ids : Cardinality({j \in ids : j <= i}) = k

Others(t) == {i \in DOMAIN ledger : ledger[i].tx # t}

Keep(kept) ==
    ledger' = [k \in 1 .. Cardinality(kept) |-> ledger[Nth(kept, k)]]

(* rollback_tx lists the last writes, and nothing else, under the hash of  *)
(* a transaction, which may have been applied twice: the case for which    *)
(* the undo log is made (module Snapshots).                                *)
InOrder(t) ==
    /\ "mixed" \notin incidents
    /\ \A i, j \in DOMAIN ledger : i < j /\ ledger[i].tx = t => ledger[j].tx = t
    /\ \A i \in DOMAIN ledger :
           ledger[i].tx = t => ledger[i].part \in {"all", "some"}

(* autoRollback takes one step back in the chain of each row that          *)
(* rollback_tx lists.  Out of order these are the steps of others: the     *)
(* rows are not modelled, so that the writes of anybody may go or stay.    *)
Undo(t, incident) ==
    \/ /\ InOrder(t)
       /\ Keep(Others(t))
       /\ incidents' = incidents \cup incident
    \/ /\ ~InOrder(t)
       /\ \E kept \in SUBSET DOMAIN ledger : Keep(kept)
       /\ incidents' = incidents \cup incident \cup {"mixed"}

(* The UPDATE and DELETE statements on the table transactions.             *)
Used(row)       == CASE row = "new" -> "stray" [] row = "ok" -> "used"
                     [] OTHER -> row
Unchecked(row)  == IF row = "none" THEN "none" ELSE "new"
Unverified(row) == IF row = "ok" THEN "new" ELSE row
Dropped(row)    == IF row = "new" THEN "none" ELSE row
Unused(row)     == IF row \in {"stray", "used"} THEN "none" ELSE row

(* Mutant: log_transactions is not consulted.                              *)
IsDoubleNever(t) == FALSE

(* CheckLogTx: the transaction is in log_transactions.                     *)
IsDouble(t) == t \in logTx

(* CheckLogTx, and the checks up to the front check or the conditions of a *)
(* contract, as ParseDataGate makes them.                                  *)
PassesGate(t) ==
    /\ ~IsDouble(t)
    /\ trans[t] \notin {"ok", "used"}
    /\ Conflicted(t) => HowFails[t] = "main"

(* What TxParser makes of the row of a transaction.                        *)
Parsed(t, row) == IF PassesGate(t) THEN "ok" ELSE Dropped(row)

(* TxParser, for some transactions.                                        *)
TxParser(txs) ==
    /\ trans' = [t \in Tx |-> IF t \in txs THEN Parsed(t, trans[t]) ELSE trans[t]]
    /\ queue' = queue \ txs

NewTxs == {t \in Tx : trans[t] = "new"}

AllTxParser == TxParser(queue \cup NewTxs)

(* BlockError drops the transaction whose hash the parser holds.           *)
BlockError(hash) ==
    /\ queue' = queue \ {hash}
    /\ trans' = [t \in Tx |-> IF t = hash THEN Dropped(trans[t]) ELSE trans[t]]

ChangeRow(t, row) == trans' = [trans EXCEPT ![t] = row]

UnverifyAll == trans' = [t \in Tx |-> Unverified(trans[t])]

(* A transaction reaches queue_tx: from the node's own users, or from      *)
(* another node (tcpserver.Type1, Type2).  No lock is held.                *)
Submit(t) ==
    /\ t \notin queue
    /\ queue' = queue \cup {t}
    /\ UNCHANGED <<chainVars, ledger, logTx, trans, job, runVars>>

Idle == job.mode = "none"

(* QueueParserTx deletes the unverified rows that were verified more than  *)
(* ten times before, which may be any, and verifies what is left.          *)
ParseQueue ==
    /\ Idle
    /\ \E looped \in SUBSET (NewTxs \ queue) :
           LET row(t) == IF t \in looped THEN "none" ELSE trans[t]
               seen == queue \cup (NewTxs \ looped) IN
           trans' = [t \in Tx |-> IF t \in seen THEN Parsed(t, row(t)) ELSE row(t)]
    /\ queue' = {}
    /\ UNCHANGED <<chainVars, ledger, logTx, job, runVars>>

(* UpdFullNodes makes a transaction of its own and verifies it at once.    *)
UpdFullNodes(t) ==
    /\ Idle
    /\ t \notin queue \cup logTx \cup Applied /\ trans[t] = "none"
    /\ TxParser({t})
    /\ UNCHANGED <<chainVars, ledger, logTx, job, runVars>>

-----------------------------------------------------------------------------
(* Jobs.                                                                   *)

Begin(mode, step, todo) ==
    [job EXCEPT !.mode = mode, !.step = step, !.todo = todo, !.pos = 1]

(* Mutant: the last transaction of the block is passed over.               *)
BeginUndoPast(mode, todo) ==
    [Begin(mode, "unlog", todo) EXCEPT
        !.pos = IF todo = <<>> \/ Txs(Head(todo)) = <<>> THEN 0
                ELSE Len(Txs(Head(todo))) - 1]

BeginUndo(mode, todo) ==
    [Begin(mode, "unlog", todo) EXCEPT
        !.pos = IF todo = <<>> THEN 0 ELSE Len(Txs(Head(todo)))]

At(mode, step) == job.mode = mode /\ job.step = step

(* The block and the transaction a job is at.                              *)
Cur  == Head(job.todo)
CurTx == Txs(Cur)[job.pos]

(* The stored blocks above an id, in ascending order.                      *)
StoredAbove(id) ==
    LET ids == {k \in Ids : k > id /\ rows[k] # NoBlock} IN
    [i \in 1 .. Cardinality(ids) |-> rows[Nth(ids, i)]]

(* The blocks from after base up to new, in ascending order.               *)
Between(base, new) ==
    [i \in 1 .. Len(new) - Len(base) |-> Upto(new, Len(base) + i)]

(* GetBlocks, up to the first change: blocks are fetched downwards from    *)
(* the host until one continues a stored block.                            *)
ForkPoints(host, id) == {k \in 2 .. id : rows[k - 1] = Upto(host, k - 1)}

(* Mutant: the limit is compared before the first block is counted.        *)
GetBlocksDeep(host, id, limit) ==
    LET k == Max(ForkPoints(host, id)) IN
    IF ForkPoints(host, id) = {} \/ id - k > limit + 1
    THEN job' = NoJob /\ UNCHANGED trans
    ELSE /\ UnverifyAll
         /\ job' = [BeginUndo("undoOwn", Reverse(StoredAbove(k - 1))) EXCEPT
                       !.base = Upto(host, k - 1), !.new = Upto(host, id),
                       !.hash = NoTx, !.kept = job.hash]

GetBlocks(host, id, limit) ==
    LET k == Max(ForkPoints(host, id)) IN
    IF ForkPoints(host, id) = {} \/ id - k > limit
    THEN job' = NoJob /\ UNCHANGED trans
    ELSE /\ UnverifyAll
         /\ job' = [BeginUndo("undoOwn", Reverse(StoredAbove(k - 1))) EXCEPT
                       !.base = Upto(host, k - 1), !.new = Upto(host, id),
                       !.hash = NoTx, !.kept = job.hash]

(* BlocksCollection follows the node with the highest block ...            *)
StartCollect(host) ==
    /\ Idle
    /\ Len(host) > Len(info.blk)
    /\ job' = [NoJob EXCEPT !.mode = "loop", !.host = host,
                            !.at = Len(info.blk) + 1]
    /\ UNCHANGED <<chainVars, ledger, logTx, poolVars, runVars>>

(* ... block by block, until it has them all or cannot get the next one.   *)
StopCollect ==
    /\ job.mode = "loop"
    /\ job' = NoJob
    /\ UNCHANGED <<chainVars, ledger, logTx, poolVars, runVars>>

CollectNext ==
    /\ job.mode = "loop"
    /\ job.at <= Len(job.host)
    /\ IF rows[job.at - 1] = Upto(job.host, job.at - 1)
       THEN /\ UnverifyAll
            /\ job' = Begin("collect", "header", <<Upto(job.host, job.at)>>)
       ELSE GetBlocks(job.host, job.at - 1, RB2)
    /\ UNCHANGED <<chainVars, ledger, logTx, queue, runVars>>

(* QueueParserBlocks, for a block that another node has announced.         *)
ParseBlockQueue(host, id) ==
    /\ Idle
    /\ id > Len(info.blk) /\ id <= Len(info.blk) + RB1
    /\ GetBlocks(host, id, RB1)
    /\ UNCHANGED <<chainVars, ledger, logTx, queue, runVars>>

(* BlockGenerator, once it is this node's turn ...                         *)
StartGenerate ==
    /\ Idle
    /\ Len(info.blk) < MaxId
    /\ AllTxParser
    /\ job' = Begin("generate", "form", <<>>)
    /\ UNCHANGED <<chainVars, ledger, logTx, runVars>>

(* ... puts all verified transactions into a block, in any order; it comes *)
(* back here when its block is refused.                                    *)
FormBlock ==
    /\ At("generate", "form")
    /\ \E txs \in SetToSeqs({t \in Tx : trans[t] = "ok"}) :
           LET payload == [txs |-> txs, by |-> Self, bad |-> FALSE] IN
           job' = Begin("generate", "header", <<Append(info.blk, payload)>>)
    /\ UNCHANGED <<chainVars, ledger, logTx, poolVars, runVars>>

(* Mutant: the blocks are rolled back from the lowest.                     *)
StartResetUp(id) ==
    /\ Idle
    /\ rows[id] # NoBlock
    /\ UnverifyAll
    /\ job' = [BeginUndo("reset", StoredAbove(id)) EXCEPT !.at = id]
    /\ UNCHANGED <<chainVars, ledger, logTx, queue, runVars>>

(* RollbackToBlockID, before the daemons start, to a stored block.         *)
StartReset(id) ==
    /\ Idle
    /\ rows[id] # NoBlock
    /\ UnverifyAll
    /\ job' = [BeginUndo("reset", Reverse(StoredAbove(id))) EXCEPT !.at = id]
    /\ UNCHANGED <<chainVars, ledger, logTx, queue, runVars>>

-----------------------------------------------------------------------------
(* ParseDataFull.                                                          *)

(* CheckBlockHeader: the previous block is info_block's for a generator,   *)
(* the one just applied inside a fork, else that of block_chain.           *)
GoodHeader(blk) ==
    /\ ~Last(blk).bad
    /\ CASE job.mode = "generate" -> info.blk = Front(blk)
         [] job.mode = "fork" /\ Front(blk) # job.base -> TRUE
         [] OTHER -> rows[Len(blk) - 1] = Front(blk)

CheckHeader ==
    /\ job.step = "header" /\ job.todo # <<>>
    /\ IF GoodHeader(Cur)
       THEN /\ trans' = [t \in Tx |-> Unused(trans[t])]
            /\ job' = [job EXCEPT !.pos = 1,
                          !.step = IF Txs(Cur) = <<>> THEN "info" ELSE "mark"]
       ELSE job' = [job EXCEPT !.step = "error"] /\ UNCHANGED trans
    /\ UNCHANGED <<chainVars, ledger, logTx, queue, runVars>>

(* RollbackTo is meant to undo all transactions of the block so far.  It   *)
(* cuts the lengths off a copy of its buffer, so that it finds garbage in  *)
(* place of all but the last of them, and gives up.                        *)
HashAfterRollback == IF job.pos = 1 THEN CurTx ELSE Garbage

RecordStop ==
    incidents' = IF job.pos = 1 THEN incidents ELSE incidents \cup {"stopped"}

(* RollbackTo with skipCurrent: the last transaction has had no effect.    *)
RollbackFront ==
    /\ ChangeRow(CurTx, Unchecked(trans[CurTx]))
    /\ RecordStop
    /\ job' = [job EXCEPT !.step = "error", !.hash = HashAfterRollback]

(* Mutant: a transaction is logged before it is executed.                  *)
MarkTxLogged ==
    /\ job.step = "mark"
    /\ IF IsDouble(CurTx)
       THEN RollbackFront /\ UNCHANGED logTx
       ELSE /\ ChangeRow(CurTx, Used(trans[CurTx]))
            /\ logTx' = logTx \cup {CurTx}
            /\ job' = [job EXCEPT !.step = "exec", !.hash = CurTx]
            /\ UNCHANGED incidents
    /\ UNCHANGED <<chainVars, ledger, queue, crashes>>

MarkTx ==
    /\ job.step = "mark"
    /\ IF IsDouble(CurTx)
       THEN RollbackFront
       ELSE /\ ChangeRow(CurTx, Used(trans[CurTx]))
            /\ job' = [job EXCEPT !.step = "exec", !.hash = CurTx]
            /\ UNCHANGED incidents
    /\ UNCHANGED <<chainVars, ledger, logTx, queue, crashes>>

(* Mutant: a transaction is executed although what it spends is spent.     *)
ExecTxUnchecked ==
    /\ job.step = "exec"
    /\ Apply(CurTx, "all")
    /\ job' = [job EXCEPT !.step = "log"]
    /\ UNCHANGED <<chainVars, logTx, poolVars, runVars>>

ExecTx ==
    /\ job.step = "exec"
    /\ ~Conflicted(CurTx)
    /\ Apply(CurTx, "all")
    /\ job' = [job EXCEPT !.step = "log"]
    /\ UNCHANGED <<chainVars, logTx, poolVars, runVars>>

FrontFails ==
    /\ job.step = "exec"
    /\ Conflicted(CurTx) /\ HowFails[CurTx] = "front"
    /\ RollbackFront
    /\ UNCHANGED <<chainVars, ledger, logTx, queue, crashes>>

(* A contract that fails before its conditions run is charged its fee, and *)
(* nothing is rolled back.                                                 *)
InitFails ==
    /\ job.step = "exec"
    /\ Conflicted(CurTx) /\ HowFails[CurTx] = "init"
    /\ Apply(CurTx, "some")
    /\ job' = [job EXCEPT !.step = "error"]
    /\ incidents' = incidents \cup {"unrolled"}
    /\ UNCHANGED <<chainVars, logTx, poolVars, crashes>>

MainFails ==
    /\ job.step = "exec"
    /\ Conflicted(CurTx) /\ HowFails[CurTx] \in {"main", "conditions"}
    /\ Apply(CurTx, "some")
    /\ job' = [job EXCEPT !.step = "rollback"]
    /\ UNCHANGED <<chainVars, logTx, poolVars, runVars>>

(* RollbackTo without skipCurrent.                                         *)
RollbackTo ==
    /\ job.step = "rollback"
    /\ Undo(CurTx, IF job.pos = 1 THEN {} ELSE {"stopped"})
    /\ ChangeRow(CurTx, "none")
    /\ job' = [job EXCEPT !.step = "error", !.hash = HashAfterRollback]
    /\ UNCHANGED <<chainVars, logTx, queue, crashes>>

(* Mutant: the transactions of a block are logged together at its end.     *)
LogTxAtEnd ==
    /\ job.step = "log"
    /\ IF job.pos < Len(Txs(Cur))
       THEN /\ job' = [job EXCEPT !.step = "mark", !.pos = job.pos + 1]
            /\ UNCHANGED logTx
       ELSE /\ job' = [job EXCEPT !.step = "info"]
            /\ logTx' = logTx \cup ToSet(Txs(Cur))
    /\ UNCHANGED <<chainVars, ledger, poolVars, runVars>>

LogTx ==
    /\ job.step = "log"
    /\ logTx' = logTx \cup {CurTx}
    /\ job' = IF job.pos < Len(Txs(Cur))
              THEN [job EXCEPT !.step = "mark", !.pos = job.pos + 1]
              ELSE [job EXCEPT !.step = "info"]
    /\ UNCHANGED <<chainVars, ledger, poolVars, runVars>>

(* UpdBlockInfo.  The caller stores the block, or goes on to the next.     *)
UpdBlockInfo ==
    /\ job.mode \in ApplyModes /\ job.step = "info" /\ job.todo # <<>>
    /\ info' = [blk |-> Cur, by |-> Last(Cur).by]
    /\ job' = IF job.mode \in {"collect", "generate"}
              THEN [job EXCEPT !.step = "row"]
              ELSE [job EXCEPT !.step = "header", !.todo = Tail(job.todo)]
    /\ UNCHANGED <<rows, ledger, logTx, poolVars, runVars>>

(* Mutant: the collector takes the same block again.                       *)
InsertIntoBlockchainAgain ==
    /\ job.mode \in {"collect", "generate"} /\ job.step = "row"
    /\ rows' = [rows EXCEPT ![Len(Cur)] = Cur]
    /\ job' = IF job.mode = "generate" THEN NoJob
              ELSE [Begin("loop", "", <<>>) EXCEPT !.at = Len(Cur)]
    /\ UNCHANGED <<info, ledger, logTx, poolVars, runVars>>

InsertIntoBlockchain ==
    /\ job.mode \in {"collect", "generate"} /\ job.step = "row"
    /\ rows' = [rows EXCEPT ![Len(Cur)] = Cur]
    /\ job' = IF job.mode = "generate" THEN NoJob
              ELSE [Begin("loop", "", <<>>) EXCEPT !.at = Len(Cur) + 1]
    /\ UNCHANGED <<info, ledger, logTx, poolVars, runVars>>

-----------------------------------------------------------------------------
(* ParseDataRollback: the transactions of a block in reverse order, back   *)
(* into the queue and out of the ledger.                                   *)

(* Mutant: the hash is set after the transaction is queued.                *)
UnlogTxStale ==
    /\ job.step = "unlog" /\ job.pos > 0
    /\ ChangeRow(CurTx, Unchecked(trans[CurTx]))
    /\ logTx' = logTx \ {CurTx}
    /\ queue' = queue \cup {job.hash}
    /\ job' = [job EXCEPT !.step = "undo", !.hash = CurTx]
    /\ UNCHANGED <<chainVars, ledger, runVars>>

(* Mutant: the transaction is not queued again.                            *)
UnlogTxLost ==
    /\ job.step = "unlog" /\ job.pos > 0
    /\ ChangeRow(CurTx, Unchecked(trans[CurTx]))
    /\ logTx' = logTx \ {CurTx}
    /\ job' = [job EXCEPT !.step = "undo", !.hash = CurTx]
    /\ UNCHANGED <<chainVars, ledger, queue, runVars>>

UnlogTx ==
    /\ job.step = "unlog" /\ job.pos > 0
    /\ ChangeRow(CurTx, Unchecked(trans[CurTx]))
    /\ logTx' = logTx \ {CurTx}
    /\ queue' = queue \cup {CurTx}
    /\ job' = [job EXCEPT !.step = "undo", !.hash = CurTx]
    /\ UNCHANGED <<chainVars, ledger, runVars>>

UndoTx ==
    /\ job.step = "undo"
    /\ Undo(CurTx, {})
    /\ job' = [job EXCEPT !.step = "unlog", !.pos = job.pos - 1]
    /\ UNCHANGED <<chainVars, logTx, poolVars, crashes>>

(* RollbackToBlockID deletes each block when it is rolled back.            *)
UndoneBlock ==
    /\ job.step = "unlog" /\ job.pos = 0 /\ job.todo # <<>>
    /\ rows' = IF job.mode = "reset"
               THEN [rows EXCEPT ![Len(Cur)] = NoBlock] ELSE rows
    /\ job' = BeginUndo(job.mode, Tail(job.todo))
    /\ UNCHANGED <<info, ledger, logTx, poolVars, runVars>>

ResetInfo ==
    /\ job.mode = "reset" /\ job.todo = <<>>
    /\ info' = [blk |-> rows[job.at], by |-> Last(rows[job.at]).by]
    /\ job' = NoJob
    /\ UNCHANGED <<rows, ledger, logTx, poolVars, runVars>>

-----------------------------------------------------------------------------
(* GetBlocks, after the download: own blocks are rolled back, the new ones *)
(* applied; block_chain is only rewritten when all of them are.            *)

ApplyFork ==
    /\ job.mode = "undoOwn" /\ job.todo = <<>>
    /\ job' = Begin("fork", "header", Between(job.base, job.new))
    /\ UNCHANGED <<chainVars, ledger, logTx, poolVars, runVars>>

(* Mutant: the lowest replaced block stays in block_chain.                 *)
DropOwnButFirst ==
    /\ job.mode = "fork" /\ job.todo = <<>>
    /\ rows' = [id \in Ids |->
                   IF id > Len(job.base) + 1 THEN NoBlock ELSE rows[id]]
    /\ job' = Begin("commit", "info", Between(job.base, job.new))
    /\ UNCHANGED <<info, ledger, logTx, poolVars, runVars>>

DropOwn ==
    /\ job.mode = "fork" /\ job.todo = <<>>
    /\ rows' = [id \in Ids |-> IF id > Len(job.base) THEN NoBlock ELSE rows[id]]
    /\ job' = Begin("commit", "info", Between(job.base, job.new))
    /\ UNCHANGED <<info, ledger, logTx, poolVars, runVars>>

CommitInfo ==
    /\ At("commit", "info") /\ job.todo # <<>>
    /\ info' = [blk |-> Cur, by |-> Last(Cur).by]
    /\ job' = [job EXCEPT !.step = "row"]
    /\ UNCHANGED <<rows, ledger, logTx, poolVars, runVars>>

CommitRow ==
    /\ At("commit", "row")
    /\ rows' = IF rows[Len(Cur)] = NoBlock
               THEN [rows EXCEPT ![Len(Cur)] = Cur] ELSE rows
    /\ job' = [job EXCEPT !.step = "info", !.todo = Tail(job.todo)]
    /\ UNCHANGED <<info, ledger, logTx, poolVars, runVars>>

(* The collector goes on with the block that did not fit before.           *)
Committed ==
    /\ job.mode = "commit" /\ job.todo = <<>>
    /\ job' = IF job.host = <<>> THEN NoJob
              ELSE [Begin("collect", "header", <<Upto(job.host, job.at)>>)
                       EXCEPT !.hash = job.kept]
    /\ UNCHANGED <<chainVars, ledger, logTx, poolVars, runVars>>

(* A block of the fork is refused.  GetBlocks calls BlockError with the    *)
(* wrong error variable, which is nil: the call panics, and the process    *)
(* with it, unless the parser holds no hash.                               *)
ForkPanics ==
    /\ At("fork", "error") /\ job.hash # NoTx
    /\ job' = NoJob
    /\ incidents' = incidents \cup {"panic"}
    /\ UNCHANGED <<chainVars, ledger, logTx, poolVars, crashes>>

(* Otherwise the new blocks are rolled back again ...                      *)
UndoFork ==
    /\ At("fork", "error") /\ job.hash = NoTx
    /\ job' = BeginUndo("undoNew",
                  Reverse(Between(job.base, Front(Cur))))
    /\ UNCHANGED <<chainVars, ledger, logTx, poolVars, runVars>>

(* ... the own ones applied again ...                                      *)
RestoreOwn ==
    /\ job.mode = "undoNew" /\ job.todo = <<>>
    /\ job' = Begin("restore", "header", StoredAbove(Len(job.base)))
    /\ UNCHANGED <<chainVars, ledger, logTx, poolVars, runVars>>

(* ... and info_block set to the last stored block, except for wallet_id   *)
(* and state_id.                                                           *)
RestoreInfo ==
    /\ job.mode = "restore" /\ job.todo = <<>>
    /\ info' = [info EXCEPT !.blk =
                    rows[Max({id \in Ids : rows[id] # NoBlock})]]
    /\ job' = NoJob
    /\ UNCHANGED <<rows, ledger, logTx, poolVars, runVars>>

(* An own block does not fit any more, since a crash left a gap below it.  *)
RestoreFails ==
    /\ At("restore", "error")
    /\ job' = NoJob
    /\ incidents' = incidents \cup {"unrestored"}
    /\ UNCHANGED <<chainVars, ledger, logTx, poolVars, crashes>>

(* A block outside of a fork is refused: the collector gives up, the       *)
(* generator tries again with the transactions that are left.              *)
BlockRefused ==
    /\ job.mode \in {"collect", "generate"} /\ job.step = "error"
    /\ BlockError(job.hash)
    /\ job' = IF job.mode = "generate" THEN Begin("generate", "form", <<>>)
              ELSE NoJob
    /\ UNCHANGED <<chainVars, ledger, logTx, runVars>>

-----------------------------------------------------------------------------

(* The process ends; the tables remain.                                    *)
Dies ==
    /\ crashes < MaxCrashes
    /\ crashes' = crashes + 1
    /\ job' = NoJob

(* Between two steps of a job.                                             *)
Crash ==
    /\ ~Idle
    /\ Dies
    /\ incidents' = incidents \cup {"crash"}
    /\ UNCHANGED <<chainVars, ledger, logTx, poolVars>>

(* Among the writes of a transaction, its fee and its rows of rollback_tx. *)
CrashInExecTx ==
    /\ job.step = "exec"
    /\ Conflicted(CurTx) => HowFails[CurTx] # "front"
    /\ Dies
    /\ \E part \in Parts :
           /\ Conflicted(CurTx) => part \in {"some", "tornSome"}
           /\ Apply(CurTx, part)
    /\ incidents' = incidents \cup {"crash"}
    /\ UNCHANGED <<chainVars, logTx, poolVars>>

(* The rows of rollback_tx are deleted last: until then they also list     *)
(* what is taken back already, and another undo takes it back again.       *)
Tear(t) ==
    \E i \in SUBSET Whole :
        ledger' = [k \in DOMAIN ledger |->
            IF ledger[k].tx # t THEN ledger[k]
            ELSE [tx |-> t, part |-> IF k \in i THEN "tornAll" ELSE "tornSome"]]

(* Inside autoRollback, or between it and what RollbackTo does next.       *)
CrashInUndo ==
    /\ job.step \in {"undo", "rollback"}
    /\ Dies
    /\ \/ /\ Tear(CurTx)
          /\ incidents' = incidents \cup {"crash"}
       \/ Undo(CurTx, {"crash"})
    /\ UNCHANGED <<chainVars, logTx, poolVars>>

(* ParseDataRollback takes the transaction from log_transactions, takes it *)
(* from queue_tx, and puts it there anew.                                  *)
CrashInUnlogTx ==
    /\ job.step = "unlog" /\ job.pos > 0
    /\ Dies
    /\ ChangeRow(CurTx, Unchecked(trans[CurTx]))
    /\ \/ UNCHANGED <<logTx, queue>>
       \/ /\ logTx' = logTx \ {CurTx}
          /\ queue' \in {queue, queue \ {CurTx}}
    /\ incidents' = incidents \cup {"crash"}
    /\ UNCHANGED <<chainVars, ledger>>

(* InsertIntoBlockchain has deleted the row it replaces.                   *)
CrashInInsert ==
    /\ job.mode \in {"collect", "generate"} /\ job.step = "row"
    /\ Dies
    /\ rows' = [rows EXCEPT ![Len(Cur)] = NoBlock]
    /\ incidents' = incidents \cup {"crash"}
    /\ UNCHANGED <<info, ledger, logTx, poolVars>>

(* DeleteQueueTx has not come to the row of transactions.                  *)
CrashInBlockError ==
    /\ job.mode \in {"collect", "generate"} /\ job.step = "error"
    /\ Dies
    /\ queue' = queue \ {job.hash}
    /\ incidents' = incidents \cup {"crash"}
    /\ UNCHANGED <<chainVars, ledger, logTx, trans>>

(* Some transactions are verified, and the row of the next one is deleted, *)
(* or inserted anew with its hash still in queue_tx.                       *)
CrashInTxParser ==
    /\ Idle
    /\ Dies
    /\ \E t \in queue \cup NewTxs, row \in {"none", "ok"} :
           /\ PassesGate(t)
           /\ \E seen \in SUBSET ((queue \cup NewTxs) \ {t}) :
                  /\ trans' = [u \in Tx |-> IF u = t THEN row
                                   ELSE IF u \in seen THEN Parsed(u, trans[u])
                                   ELSE trans[u]]
                  /\ queue' = queue \ seen
    /\ incidents' = incidents \cup {"crash"}
    /\ UNCHANGED <<chainVars, ledger, logTx>>

Crashes ==
    \/ Crash \/ CrashInExecTx \/ CrashInUndo \/ CrashInUnlogTx
    \/ CrashInInsert \/ CrashInBlockError \/ CrashInTxParser

JobStep ==
    \/ CollectNext \/ StopCollect \/ FormBlock
    \/ CheckHeader \/ MarkTx \/ ExecTx \/ FrontFails \/ InitFails \/ MainFails
    \/ RollbackTo \/ LogTx \/ UpdBlockInfo \/ InsertIntoBlockchain
    \/ UnlogTx \/ UndoTx \/ UndoneBlock \/ ResetInfo
    \/ ApplyFork \/ DropOwn \/ CommitInfo \/ CommitRow \/ Committed
    \/ ForkPanics \/ UndoFork \/ RestoreOwn \/ RestoreInfo \/ RestoreFails
    \/ BlockRefused

StartJob ==
    \/ \E host \in PeerChains : StartCollect(host)
    \/ \E host \in PeerChains : \E id \in 2 .. Len(host) :
           ParseBlockQueue(host, id)
    \/ StartGenerate
    \/ \E id \in Ids : StartReset(id)

Next ==
    \/ \E t \in Tx : Submit(t) \/ UpdFullNodes(t)
    \/ ParseQueue \/ StartJob \/ JobStep \/ Crashes

Spec == Init /\ [][Next]_vars

FairSpec == Spec /\ WF_vars(JobStep)

-----------------------------------------------------------------------------
(* Properties.                                                             *)

(* The transactions of a block and its ancestors, in order.                *)
ChainTxs(blk) == FlattenSeq([i \in DOMAIN blk |-> blk[i].txs])

Effect(t) == [tx |-> t, part |-> "all"]

(* Between two jobs, the ledger is the effects of the chain that info_block*)
(* names, and log_transactions its transactions: unless a process ended    *)
(* inside a job or a refused block was not undone, whatever forks, failing *)
(* blocks and resets came before (ParseDataFull, ParseDataRollback,        *)
(* GetBlocks).                                                             *)
LedgerIsChain ==
    Idle /\ incidents = {} =>
        LET txs == ChainTxs(info.blk) IN
        /\ ledger = [i \in DOMAIN txs |-> Effect(txs[i])]
        /\ logTx = ToSet(txs)

(* Between two jobs block_chain holds exactly the block info_block names   *)
(* and its ancestors, even after refused blocks that were not undone, and  *)
(* after undos that mixed up the effects of transactions (GetBlocks,       *)
(* UpdBlockInfo, InsertIntoBlockchain).                                    *)
StoredChain ==
    Idle /\ incidents \subseteq {"stopped", "unrolled", "mixed"} =>
        rows = [id \in Ids |-> IF id <= Len(info.blk) THEN Upto(info.blk, id)
                               ELSE NoBlock]

(* While a fork replaces own blocks, none of their transactions is lost:   *)
(* what is not applied waits in queue_tx for the next check (GetBlocks,    *)
(* ParseDataRollback).                                                     *)
ForkKeepsTxs ==
    job.mode \in {"undoOwn", "fork", "undoNew", "restore"} /\ incidents = {} =>
        \A id \in (Len(job.base) + 1) .. MaxId :
            rows[id] # NoBlock => ToSet(Txs(rows[id])) \subseteq Applied \cup queue

(* Each undo is of the last effects in the ledger, as long as nothing else *)
(* has gone wrong: no crash, no panic, no refused block that was not       *)
(* undone.  It is what the undo log needs to take back the writes of the   *)
(* transaction and of no other (ParseDataRollback, RollbackTo, GetBlocks,  *)
(* RollbackToBlockID, autoRollback).                                       *)
UndoneInOrder == incidents # {"mixed"}

Unmixed == "mixed" \notin incidents

(* No transaction is applied twice, also after refused blocks and after a  *)
(* fork that ended in a panic: unless the process was killed inside a job, *)
(* or an undo out of order has mixed up the effects (CheckLogTx,           *)
(* InsertInLogTx).                                                         *)
AppliedOnce ==
    crashes = 0 /\ Unmixed =>
        \A i, j \in DOMAIN ledger :
            ledger[i] = ledger[j] /\ ledger[i].part = "all" => i = j

(* A transaction that is refused as a double is applied, after refused     *)
(* blocks and at whatever statement the process died: logging follows      *)
(* applying, undoing follows removing from the log.  It ends with the      *)
(* first undo out of order, such as one repeated after a crash inside of   *)
(* it, which can take back the writes of others (ParseDataFull,            *)
(* ParseDataRollback).                                                     *)
LoggedIsApplied == Unmixed => logTx \subseteq Applied

(* Until then, each crash leaves at most one transaction that is applied   *)
(* but missing from log_transactions, which could be applied again         *)
(* (ParseDataFull, ParseDataRollback).                                     *)
CrashUnlogs == Idle /\ Unmixed => Cardinality(Applied \ logTx) <= crashes

(* The chain the node stands on.  A fork takes effect when the own blocks  *)
(* are deleted from block_chain, a reset when it begins.                   *)
Standing ==
    CASE job.mode = "commit" -> job.new
      [] job.mode = "reset"  -> rows[job.at]
      [] OTHER               -> rows[Max({k \in Ids : rows[k] # NoBlock})]

Promise ==
    INSTANCE NodeChain WITH Ahead <- RB1, Level <- RB2,
                            chain <- Standing, intact <- (incidents = {})

(* However its blocks are made, collected, replaced and refused, the node  *)
(* always stands on one chain of checked blocks without double or          *)
(* conflicting transactions; only a reset makes it shorter, and a fork     *)
(* brings at most one block more than its limit, as long as nothing is     *)
(* left half done (GetBlocks, ParseDataFull, CheckBlockHeader, CheckLogTx).*)
KeepsChain == Promise!Spec

(* Every job ends, and its daemon releases main_lock.                      *)
JobEnds == ~Idle ~> Idle

(* "If the error returned, then the transferred block is already rolled    *)
(* back" (GetBlocks).                                                      *)
RefusedIsRolledBack ==
    At("fork", "error") =>
        \A i \in 1 .. job.pos - 1 : Txs(Cur)[i] \notin Applied

(* "if the mistake happened, we roll back all previous blocks from new     *)
(* chain" (GetBlocks).                                                     *)
OnOwnChain ==
    LET id == Max({k \in Ids : rows[k] # NoBlock}) IN
    Idle /\ info.blk = rows[id] /\ logTx = ToSet(ChainTxs(rows[id]))

RefusedForkIsUndone == At("fork", "error") ~> OnOwnChain

(* "where in the list we will get state_id, wallet_id and the time of the  *)
(* last block" (BlockGenerator): info_block names the generator of the     *)
(* last block.                                                             *)
InfoNamesGenerator == Idle => info.by = Last(info.blk).by
=============================================================================
