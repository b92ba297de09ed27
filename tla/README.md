# TLA+ models of go-gachain-mvp

Models, model-checking runs and proofs for the node of go-gachain-mvp
(`src/packages`). A node keeps a chain of blocks, the tables that the
transactions of those blocks change (the *ledger*), and a pool of transactions
that are in no block yet. All of it lives in one SQL database, without SQL
transactions around the operations; a dozen daemons (goroutines) work on it,
and a one-row table, `main_lock`, keeps them from doing so at once.

## 1. Inventory

| Component | State | Operations | Correct when |
|---|---|---|---|
| `main_lock` (`utils/sql.go`: `DbLock`, `DbUnlock`; the loops in `daemons/`) | the table `main_lock`, `utils.Mutex`, where each daemon is | poll and insert, delete, every way into and out of a lock section | one holder at a time; a wait ends; only known branches leave a row behind |
| Stopping (`stopdaemons/`, `daylight/daylight_stop.go`, `CheckDaemonsRestart`) | breaker and answer channels, `stop_daemons`, progress of the two stopping goroutines | request, send, answer, receive, close the database, exit, start again | a requested stop ends the process; the database is closed after the daemons are out |
| Appending a block (`parser/common_parse_data_full.go`, `common_check_block_header.go`, `common_upd_block_info.go`, `common_rollback.go`) | `info_block`, `block_chain`, `log_transactions`, the ledger | check the header, execute and log each transaction, undo a refused block | a block is applied wholly or not at all; no transaction twice |
| Forks and rolling back (`parser/common_get_blocks.go`, `common_parse_data_rollback.go`, `common_rollback_to_block_id.go`) | the same tables | find the common ancestor, undo own blocks, apply new ones, rewrite `block_chain`, or put everything back | ledger, log and stored chain belong to one chain again; no own transaction is lost |
| Collecting, queueing and generating (`daemons/blocks_collection.go`, `queue_parser_blocks.go`, `block_generator.go`) | the host followed, the block being formed | as the names say | each job ends and leaves the above intact |
| Transaction pool (`parser/common_tx_parser.go`, `common_parse_data_gate.go`, `daemons/queue_parser_tx.go`, `upd_full_nodes.go`) | `queue_tx`, `transactions` (verified, used), `log_transactions` | submit, verify, mark used, return after a rollback, drop | a transaction is queued, verified, applied or rejected; never lost by a fork |
| Undo log (`parser/common_selective_logging_and_upd.go`, `common_selective_rollback.go`, `common_auto_rollback.go`, `common_rollback_aI.go`) | `rollback`, `rollback_tx`, the `rb_id` of each row | log the old values with each write, take them back | undoing the transactions of a block in reverse order restores the tables; no record that is needed is missing or shared |
| Dissemination and TCP server (`daemons/disseminator.go`, `tcpserver/`) | `sent` flags, `queue_blocks`, `queue_tx`, the connection counter | announce, ask, receive | a block or transaction reaches the other nodes or is made up for; the server never shuts itself off |
| Confirmations (`daemons/confirmations.go`) | `confirmations` | ask all nodes for the hash of each block | what counts as confirmed was shared; the last block is confirmed in the end |
| Schedule of the generators (`utils/sql.go`: `GetSleepTime`; `parser/upd_full_nodes.go`) | `full_nodes`, generator of the last block | the waiting time of each node | one node is due at a time; all compute the same order |
| Encodings and Merkle tree (`lib/`, `utils/utils.go`) | none | length prefixes, shifts, roots | decoding inverts encoding |
| Contract compiler and virtual machine, transaction types, cryptography, controllers, exchange interface, templates, schema | – | – | see "Not modelled" |

How they interact. `daylight.Start` starts the daemons, then the signal handler
and the watcher of `stop_daemons`. Each daemon runs a loop: poll the breaker,
lock, work, unlock, sleep. The work calls the parser, which reads and writes
the tables of the chain, statement by statement. Users (controllers) and other
nodes (TCP server) insert into `queue_tx` and `queue_blocks` without the lock.

What is hard: the lock is two SQL statements under a Go mutex and its row
survives the process; two goroutines may stop the node at once; some branches
leave a lock section without unlocking; a job of dozens of statements may be
cut anywhere by the death of the process; a fork rewrites the same tables in
several passes and undoes itself when it fails; transactions come back from
rolled-back blocks into a pool that others are filling. The hazards are listed,
each at its line, under `hazards` in `PROJECT.json`, with the properties
aimed at them.

## 2. Modules

| Module | Content |
|---|---|
| `DaemonLock` | `main_lock`, the loops of the daemons as far as they touch it, both stopping goroutines, crash and restart |
| `MCDaemonLock` | instances of it for TLC |
| `DaemonLockProofs` | theorems about the lock, stopping and stale rows, for all values of its constants |
| `NodeChain` | abstract: a chain that is extended, has its end replaced or is cut, at once |
| `BlockStore` | appending, generating, collecting, replacing and rolling back blocks, with the ledger and the pool; `KeepsChain` instantiates `NodeChain` |
| `MCBlockStore` | instances of it for TLC |
| `BlockStoreProofs` | theorems about what is applied and what is logged, for all values of its constants |
| `StoredChainProofs` | theorems: the stored chain is the one `info_block` names; types |
| `ForkProofs` | theorems: no transaction is lost while a fork replaces own blocks; between jobs the ledger is the chain's; each undo is of the last effects |
| `NodeChainProofs` | theorem: it implements `NodeChain` |
| `Snapshots` | abstract: tables, and a stack of transactions with the tables before each |
| `UndoLog` | the undo log statement by statement; `KeepsPromise` instantiates `Snapshots` |
| `MCUndoLog` | instances of it for TLC |
| `UndoLogProofs` | theorems: its types and chains; it implements `Snapshots` |
| `Gossip` | several nodes: dissemination, TCP server, fetching of blocks, confirmations |
| `MCGossip` | instances of it for TLC |
| `GossipProofs` | theorems: its types and all its safety properties, likewise |
| `NumberFacts` | lemmas: the least and greatest element of a set of numbers |

How they fit together. `DaemonLock` shows that one daemon at a time is in its
section; `BlockStore` and `UndoLog` rely on it and give the parser to one job
at a time. `BlockStore` takes from `UndoLog` that the undo of the *last*
transaction removes its effects and no others; of any other undo it assumes
nothing (`Undo`), and `UndoneInOrder` says when there is none. `Gossip` takes from `BlockStore` that following another
chain replaces chain, log and ledger together and queues what was undone, and
makes one step of it.

### DaemonLock and the code

`row` is the `script_name` in `main_lock`; `mutex` the owner of `utils.Mutex`;
`breaker` and `answer` say whether the daemon's two channels of capacity one
hold something; `stopRow` is `stop_daemons`; `stop` gives the loop and the
index each stopping goroutine has reached; `proc` tells whether the process
runs, runs with its database closed, or is down. `pc` is where a daemon is:

- `boot`: waiting for the database and the installation; `top`: the head of its
  loop; `lock`: in the loop of `DbLock`; `insert`: between the SELECT and the
  INSERT, holding the mutex; `in`: inside a lock section; `sleep`: in `dSleep`;
- `pause`: the generator waiting for its slot, `net`: the collector asking
  other nodes, both between the first and the second section of a round
  (`turn`);
- `parting`: the collector has answered the breaker and not yet unlocked;
  `parted`: it polls once more after that; `done`: the loop is left.

`PollFree` and `Insert` (or `InsertError`) are the two statements of `DbLock`.
`Unlock` ends a section; `Leak`, `BreakHolding` and `AnswerHolding` are the
ways out that keep the row: error branches of the generator and of the loading
of block 1 that sleep and `continue`, the breaker polled by the generator while
it holds the lock, the collector's answer before its `unlockPrintSleep`.
`Download` is the breaker that `DownloadToFile` consumes. A daemon at a
checkpoint with a token in its breaker takes it (`Break`): the code tests the
breaker before it does anything else there, so every other action from such a
point has the guard `~breaker[d]`. `Crash` and `Exit` clear everything but the
two tables.

The daemons are given by kinds: `Plain` lock once per round, `Generators` and
`Collectors` twice, `Free` never. `Faults` selects which errors may occur:
`"db"` a failing SQL statement, `"work"` an error of the work in a section.

Left out: the branch of `DbLock` that deletes an old row on mobile builds and
the option `-startBlockId`, which empties the table by hand.

### BlockStore and the code

The hash of a block covers that of its predecessor, so a block is represented
by the sequence of payloads from block 1 to it. `rows` is `block_chain`, `info`
is `info_block` (the block, and whose `wallet_id` and `state_id`), `logTx` is
`log_transactions`, `trans` the state of each row of `transactions` (`new`,
`ok` = verified, `stray` = used but not verified, `used` = both), `queue` is
`queue_tx`. `ledger` is the sequence of effects in the other tables, each
complete (`all`) or what a failed transaction left (`some`); or torn by a crash
among the writes or the undo (`tornAll`, `tornSome`), which means that
`rollback_tx` lists not exactly the writes that are there, and that what the
transaction spends is taken as spent or not.

`job` is what the holder of `main_lock` is doing: `mode` the operation, `todo`
the blocks it still has to process, `pos` the transaction in the first of them,
`step` the statement it is at; `base` and `new` are the two ends of a fork;
`host` and `at` the chain the collector follows; `hash` is `Parser.TxHash`,
which decides what `BlockError` does. Actions:

- jobs start with `StartCollect`/`CollectNext` (BlocksCollection),
  `ParseBlockQueue`, `StartGenerate`/`FormBlock` and `StartReset`
  (RollbackToBlockID);
- ParseDataFull is `CheckHeader`, then per transaction `MarkTx`, one of
  `ExecTx`, `FrontFails`, `InitFails`, `MainFails`, and `LogTx` or
  `RollbackFront`/`RollbackTo`; then `UpdBlockInfo` and
  `InsertIntoBlockchain`;
- ParseDataRollback is `UnlogTx` and `UndoTx` per transaction, last first;
- GetBlocks is the operator of that name (up to its first change) followed by
  the undo of the own blocks, `ApplyFork`, and either `DropOwn`, `CommitInfo`,
  `CommitRow`, `Committed`, or `ForkPanics`, or `UndoFork`, `RestoreOwn`,
  `RestoreInfo`/`RestoreFails`;
- `Submit`, `ParseQueue` and `UpdFullNodes` feed the pool; `Submit` at any time,
  the other two, which hold the lock, between jobs;
- `Crash` cuts a job between any two steps. Where a step stands for several
  statements, the process may also die after any of them: `CrashInExecTx` among
  the writes of a transaction, its fee and its rows of `rollback_tx`,
  `CrashInUndo` in autoRollback, `CrashInUnlogTx` in ParseDataRollback before
  that (where the hash is for a moment in neither log_transactions nor queue_tx), `CrashInInsert`,
  `CrashInBlockError`, `CrashInTxParser`.

`Undo` is autoRollback. It reads from `rollback_tx` which rows a transaction
wrote, and takes one step back in the chain of each of them, whoever wrote last.
If the transaction's effects are the last in the ledger and `rollback_tx` lists
just them (`InOrder`), these steps are its own, and they leave. If not, because
a refused block was not undone, a charge stayed, or a crash has cut an earlier
undo of it, they are the steps of others: the model does not have the rows, so
any effects may go and any stay, and `mixed` is recorded. From then on no undo
counts as in order.

`incidents` is a history variable: which of the known ways to go wrong have
occurred. `crash`: the process died within a job; `panic`: a refused fork
panicked; `stopped`: RollbackTo gave up early; `unrolled`: a contract failed
before its conditions and its fee stayed; `unrestored`: own blocks did not fit
any more after a refused fork; `mixed`: an undo was out of order.

`NodeChain` says what all this is for: `Change` makes the chain longer, replaces
its end by one as long, or resets it, in one step; the new blocks are at most
one more than the limit (the block at which a fork leaves the chain is not
counted, see the hazard at `common_get_blocks.go:73`); and the result is always
`Valid`, i.e. its headers are checked, and its transactions are pairwise
different and free of conflicts. `Damage` ends the promise; it is mapped to the
first incident. The refinement mapping `Standing` decides when a job of many
statements takes effect: a fork when it deletes the own blocks (`DropOwn`), from
where on it never turns back; a reset when it begins; all else when
`block_chain` gets its row. A fork that is refused is a stutter.

What transactions do is abstracted to whether they conflict: `Conflicts` is a
set of pairs of which only one can be applied, and `HowFails` says where in
ParseDataFull the second one is stopped (the `Front` method, the conditions of
a contract, the main method or action, or before any of them), since each place
has a different clean-up.

Choices and omissions, in one place:

- what an undo out of order does to the values is not modelled (see `Undo`);
  of a transaction that was applied twice in a row, autoRollback takes back both
  lists of writes, which stand under one hash;
- RollbackTo interprets bytes that are shifted by a length prefix; they are
  assumed not to form a transaction that the node knows (`Garbage`);
- failing SQL statements, failed downloads (they change nothing), block times,
  limits, the turn of the generator, banning, and loading the chain from a file
  are left out; `bad` stands for any header that is refused;
- TxParser and AllTxParser are single steps, which a crash may cut; the number of attempts of a
  transaction is a nondeterministic choice of rows that QueueParserTx drops;
- RollbackToBlockID is started for a block that is stored.

### UndoLog and the code

`rows` is every table that transactions write, a row being its values and its
`rb_id`; `recs` is the table `rollback` (`data`, with `prev` the older `rb_id`
in it); `log` is `rollback_tx`, kept per transaction since it is only read by
`tx_hash`; `done` are the transactions in force. `job` is what the parser is
doing: `apply` with the statements `write`, `update`, `note` of
selectiveLoggingAndUpd, or `undo` with `restore`, `delete` of selectiveRollback,
`at` being the row of `rollback_tx` that is next.

- `LogOld`, `UpdateRow`, `NoteTx`: the INSERT into `rollback`, the UPDATE, the
  INSERT into `rollback_tx`; `InsertRow`, `NoteTx` when the row is not there;
  `UpdateFails` when the database refuses a value;
- `FailTx` (RollbackTo) and `BeginUndo` (ParseDataRollback) start autoRollback,
  `RestoreRow`, `DeleteRec`, `DeleteRow` are the statements of selectiveRollback,
  `UndoFails` its errors, `EndUndo` the DELETE from `rollback_tx`;
- `ChargeStays` is the contract that fails in `init` after payFPrice has
  written: RollbackTo is not called, so that the fee and its rows of
  `rollback_tx` stay, and the next undo of the same hash takes them for its own;
- `Crash` cuts a job between any two statements. The transaction may then be
  executed again, or taken back again, as BlockStore does after a restart.

Values are what `Logged` makes of them: a NULL is read as the word `NULL`, bytes
are logged as hexadecimal digits. A value that is relative to the old one
(`+amount`) needs no case of its own, since any value may be written. The
fields `before` and `after` of `log` and `done` are history, kept only as long
as nothing has damaged the tables (`Intact`): no crash, and neither a failed
undo nor a charge that stayed (`damaged`). The promise is only about the last
transaction in force, or the one that fails; that `BlockStore` undoes no other
without recording it is `UndoneInOrder` there. An id of
`rollback` may be any that no record has: rollbackAI sets the sequence back.

`Snapshots` says what this is for: `Execute` changes the tables in any way and
pushes what they were, `TakeBack` pops it, `Damage` ends the promise. The
refinement mapping shows the tables of the last moment between two operations.

Left out: UpdFullNodes, which writes without `rollback_tx` and keeps
`full_nodes` as a whole in a record of its own; errors of the database other
than a refused value; `generalRollback`, which nothing calls.

### Gossip and the code

Per node: `chain` is `block_chain` with `info_block`, `unsent` its flag `sent`
(negated), `queue` is `queue_tx`, `rows` are the rows of `transactions`
(verified or not, sent or not), `blocks` is `queue_blocks`, `conf` the table
`confirmations`; `teller` and `round` say where the Disseminator and the daemon
Confirmations are. Per connection: what DisseminatorType1 has sent and Type1
has asked for. `counter` is the counter of the TCP server.

- `ReadBlock`, `MarkBlock`, `Offer` are the statements of the Disseminator. It
  holds no lock, so that blocks come and go between them;
- `Accept`, `Refuse`, `Receive`, `Answer`, `TakeTxs`, `Break` are one
  connection; every end of one that HandleTCPRequest has seen is `DeferClose`;
- `Generate`, `Collect`, `FetchBlock`/`DropBlock`/`LoseBlock`, `ParseQueue` are
  the daemons that change chain and pool, each in one step: they hold
  `main_lock`. `Follow` is GetBlocks with its effects on the pool;
- `BeginRound`, `ReadHash`, `AnswerHash`, `NoAnswer`, `Confirm` are
  Confirmations, which asks all hosts, its own among them.

Connections are not ordered among each other, and any may break (`lost`) or be
refused (`refused`). `Receive` may ask for more than it lacks: Type1 looks into
three tables one after the other, and a transaction may move meanwhile.
`given` and `held` are history. `Settings` are the daemons that StartDaemons
may have been told to start on each node.

Left out: nodes that are not full nodes (Type2 inserts three values into two
columns, `type2.go:73`, and always fails), connections of a node to itself,
invalid blocks and banned nodes, and the contents of what is exchanged.

## 3. Runs

| Run | Checks | Shows |
|---|---|---|
| `lock_stop` | `TypeOK`, `MutualExclusion`, `StaleRowCause`, `OthersKilled` | four daemons of all kinds, both stopping goroutines, a crash, a restart, leaking branches: one holder; when the answers are in, only a collector may still be running; a row left behind comes from a crash, a generator or a collector as long as the database works |
| `lock_wait` | `LockInv`, `StopCompletes`, `WaitEnds` | with all faults: the inductive invariant of the proofs; a requested stop ends the process even when a row has leaked; a daemon leaves its wait unless a stale row stays |
| `lock_leak` | `CollectorUnlocked`, violated | the generator's error branch keeps the row, and the collector's wait "until it will be unlocked" never ends |
| `lock_killed` | `DaemonsKilled`, violated | the database is closed under a collector that has answered and not unlocked |
| `block_store` | `TypeOK`, `LedgerIsChain`, `StoredChain`, `ForkKeepsTxs`, `UndoneInOrder`, `AppliedOnce`, `LoggedIsApplied`, `CrashUnlogs`, `KeepsChain` | two foreign chains, one with a block that fails, three transactions that conflict and fail differently, resets, own blocks and a crash at any statement: `BlockStore` implements `NodeChain` |
| `block_restore` | `LedgerIsChain`, `StoredChain`, `JobEnds`, `KeepsChain` | forks of up to three blocks, accepted, refused for their length, or refused after some were applied: the own chain is restored, and none is longer than its limit allows; every job ends, also after a crash |
| `rollback_to` | `RefusedIsRolledBack`, violated | a refused block whose first transaction stays applied |
| `fork_error` | `RefusedForkIsUndone`, violated | the error of a refused fork panics instead of restoring |
| `info_generator` | `InfoNamesGenerator`, violated | after a refused fork `info_block` names a generator of the refused chain |
| `undo_log` | `TypeOK`, `ChainsWhole`, `FewOrphans`, `KeepsPromise` | two transactions write two rows up to three times in all, one row present and one absent at first, with a number that may be NULL; a refused UPDATE or a crash at any statement, and charges that stay: the undo log implements `Snapshots`, and no chain is ever broken |
| `undo_bytes` | `RestoredAsBefore`, violated | a column of bytes comes back as hexadecimal digits |
| `gossip` | `TypeOK`, `TxsKept`, `TxsOnce`, `SentIsKnown`, `NeverShutOut`, `ConfirmedWasShared`, `Converges`, `LastConfirmed` | two nodes that make blocks at the same ids, with one announcing or the other confirming: forks, lost and refused connections, and a transaction that crosses them |

The properties say, in this order: what the lock protects (`MutualExclusion`);
why (`LockInv`); what may be left behind and by whom (`StaleRowCause`); what
the answers mean (`OthersKilled`); that stopping and waiting end. For the
store: between jobs the ledger is exactly the chain's (`LedgerIsChain`), the
stored chain is exactly the one `info_block` names (`StoredChain`); during a
fork every replaced transaction is applied or queued (`ForkKeepsTxs`); nothing
is applied twice without a crash (`AppliedOnce`), refused blocks and panics or
not; and every undo is of the last effects unless something else has gone wrong
before (`UndoneInOrder`), without which the undo log would promise nothing.
`KeepsChain` relates the states before and after: the node is always on one
valid chain, and moves to another in the allowed ways only. These have
exceptions, named by `incidents`, where the code breaks them. Two hold after
crashes and refused blocks as well, until the first undo out of order:
`LoggedIsApplied` (a double that is refused is indeed applied) and
`CrashUnlogs` (a crash leaves at most one applied transaction that the log does
not know). After such an undo they may fail in the code, too: it can take back
the writes of a transaction that stays logged.

For the undo log: taking back restores the tables (`KeepsPromise`, up to damage
by a crash, a failed undo or a charge that stays); and even after damage the records that rows lead to are there and
belong to one row (`ChainsWhole`), and few others are (`FewOrphans`). The
promise has to end with a crash: autoRollback empties `rollback_tx` last, so
that an undo repeated after a crash takes back the writes of an older
transaction. It has to end with a charge for the same reason: the fee is among
the writes that a later undo of the transaction takes back, though others may
have written the row since. For the network: no node loses what its users gave it
(`TxsKept`), no chain has a transaction twice (`TxsOnce`), marking before
sending loses nothing unless a connection does (`SentIsKnown`), the counter of
connections never runs ahead of them (`NeverShutOut`; that it falls behind, and
more are accepted than the limit, is so in the code), confirmed blocks were
shared (`ConfirmedWasShared`), and in the end the nodes agree on the height
(`Converges`) and the last common block is confirmed (`LastConfirmed`). That
they agree on the *chain* is not so: two chains of equal height stay as they
are until the next block.

### Bounds

- `lock_*`: one daemon of each kind. Daemons of a kind behave alike and meet
  only through `main_lock`, the mutex and the order in which they are stopped;
  three lockers give a holder, a poller that is next and one that is shut out.
  One crash and two starts reach the state in which a process meets the row of
  its predecessor. Liveness is checked within one start, with all faults.
- `block_*`: ids up to 3 (or 4): a fork then replaces up to two (or three)
  blocks, on both sides of the limits `RB1 = 1`, `RB2 = 2`: with the block that is
  not counted, `RB1` admits a fork that brings two blocks and refuses one of three,
  which `block_restore` has as a good chain of four blocks (`RB2`, for forks that
  do not make the chain higher, would refuse four). Three transactions
  give a conflict with each clean-up that differs, and a block with one applied
  and one failing transaction. The constraint `ShortLedger` keeps ledgers to
  two effects (a third is seen, and not continued): a generator whose
  transaction fails before its conditions is charged again and again, without
  end. The constraint `Promising` stops where a crash *and* an undo out of order
  have happened: no property but `TypeOK` and `JobEnds` says anything then. For
  `JobEnds` in `block_restore` this loses nothing: with one transaction that
  conflicts with none, no step depends on the ledger, and only a torn one makes an
  undo out of order, so that each state left out has a counterpart, the same but
  for the ledger, after a crash between two steps instead of inside of one.
- `HowFails = "conditions"` takes the same branch as `"main"` in ParseDataFull
  and differs only in ParseDataGate, where it acts like `"front"`; the
  instances use `front`, `main` and `init`.

- `undo_log`: two transactions and three writes in all (`FewWrites`) give a row
  written twice by one transaction, by both, inserted and then updated, and a
  second row whose undo lies in between (two writes in all once a charge has
  stayed or an undo has failed); three records, so that an id is used again; one crash or refused UPDATE, after which everything may go on. The
  theorems below have no such bounds. `undo_bytes`: one column of bytes.
- `gossip`: two nodes, one transaction, ids up to 3, so that forks are one or
  two deep; limits `RB1 = 1`, `RB2 = 2`, `Recent = 1` (30, 1440 and 5 in the
  code), two connections each way, a limit of one open connection, one broken
  and one refused connection. `MinGood = 2`: in the code
  `MIN_CONFIRMED_NODES` is 0, with which `ConfirmedWasShared` would say nothing.
  `Converges` depends on forks being within `RB2`: deeper ones are refused by
  the code for good. A node that announces and confirms at once is not in the
  run; the two daemons share no table.

### Fairness

`DaemonLock`: weak fairness of every daemon and stopping goroutine, since the
Go scheduler runs each, network requests and downloads have timeouts, and each
sleep is finite. Strong fairness of `PollFree`, for a daemon that polls every
300 to 400 ms (a random time) while the holders sleep at least a second
between rounds. Nothing makes anybody request a stop. `BlockStore`: weak
fairness of the step of the job, i.e. a holder of the lock does not stand
still. `Gossip`: weak fairness of the collector (`Catch`) and of Confirmations
(`Check`), which loop without waiting for an event. No fairness of connections,
announcements or of the making of blocks: `Converges` needs none, since
BlocksCollection asks all hosts for their heights. `UndoLog`: none.

Deadlock is checked except in `gossip`, where the ids are bounded: when all
blocks are made and the nodes agree, nothing is left to do.

## 4. Proofs

For every set of daemons of each kind, every order of stopping, every choice of
faults and any number of crashes and starts:

- `TypeCorrect`: `Spec => []TypeOK`;
- `LockCorrect`: `Spec => []LockInv`;
- `Exclusion`: `Spec => []MutualExclusion`;
- `AnswersKill`: `Spec => []OthersKilled`;
- `StaleRows`: `Spec => []StaleRowCause`.

`MutualExclusion` is not inductive: that nobody else is inside when a daemon
inserts follows from what its SELECT saw, and from nobody having inserted
since. `LockInv` says so: a daemon inside its section is the owner of the row;
a daemon at `insert` owns the mutex and there is no row. The third conjunct (a
daemon between two sections has had one of them) bounds `turn`, which
`TypeOK` needs, so that the two are proved together (`Inv`). The proof has a
case per action; the assumptions used are `KindsAssumption` (the kinds are
disjoint and `Nobody` is no daemon), `SeqAssumption` (the order of stopping
covers the daemons) and `BoundsAssumption`.

The second part of `DaemonLockProofs` adds `StopInv`, proved on top of `Inv`: an answer in the
channel of a daemon that is no collector means that it has left its loop
(`AnswerIsEnd`); so has every such daemon whose answer a stopping goroutine has
taken, whichever of the two goroutines sent the token (`ReceivedIsEnd`); the
database is closed by a goroutine that has all answers (`ClosedByStopper`); and
without crashes and database errors the row of a daemon that is neither
generator nor collector is there only while it is inside (`TidyRow`). The lemma
`DaemonSteps` says once what any step of a daemon can change, so that the
invariant needs no case per action. The proof shows why `OthersKilled` must
except the collectors: they alone send an answer and go on.

For all tables, columns, types and values, any number of transactions, writes,
records, crashes and refused UPDATEs of the undo log:

- `TypeCorrect` (`Spec => []TypeOK`), `Whole` (`Spec => []ChainsWhole`),
  `OrphansBounded` (`Spec => []FewOrphans`);
- `Kept`, `Representable => (Spec => KeepsPromise)`, that is, `UndoLog`
  implements `Snapshots`.

`TypeInv` adds to the types what a statement relies on from the ones before it
(a row with an `rb_id` is there; the row being updated is). `ChainInv` names a
set of records that holds the chains of all rows (`Linked`): the record being
inserted or deleted is not in it, the record being inserted already leads to
where the row leads, and what else is outside of the set is at most one record
per fault. Since the set is bound by an existential quantifier, each action
has a lemma that gives the new set.

In the second part, `StackInv` is the invariant of the refinement. As long as nothing is damaged,
each entry of `rollback_tx` that is not taken back yet can be taken back with
the record its row led to after the write (`EntriesHold`, `LooseHolds` for the
write in progress), entries have different records, consecutive entries meet
(`WritesMeet`: the tables after one are those before the next), and so do the
transactions in force (`DoneHolds`); in the middle of a job the entries lead
from its start to the present tables (`JobHolds`), and the texts in the log
contain no NULL of a text (`TextsHold`). `Representable` is the assumption
about the columns without which the theorem is false: no bytes (run
`undo_bytes`) and no NULL in a text. A NULL in a number is allowed: the undo
then fails, which is damage and not a wrong value.

For all transactions, chains offered by other nodes, conflicts, failures, limits
and numbers of crashes, `BlockStoreProofs` has

- `DoublesAreApplied`: `Spec => []LoggedIsApplied`;
- `OneGapPerCrash`: `Spec => []CrashUnlogs`;
- `NeverTwice`: `Spec => []AppliedOnce`;

each of them until the first undo out of order (`Unmixed`). `LogInv` and
`Matched` are the reason for all three. Between `MarkTx` and `LogTx`, and between
`UnlogTx` and `UndoTx`, the transaction at hand is not logged (`LogInv`, whatever
happens). While undos are in order, what is logged is applied, at `LogTx` the
transaction at hand is too, and what else is applied and not logged (`Gap`) has
at most one element per crash (`Matched`). A crash turns the transaction at hand
into one of the gap, which is why the gap must be counted at every step and not
only between jobs; without a crash it is empty, so that a transaction that passes `CheckLogTx` is not applied.
None of it depends on which blocks a job is at, so `JobInv` only says that a job
at a transaction has a block. Most steps touch neither ledger nor log (`Quiet`);
the others have a lemma each, also a crash inside of them (`CrashKeeps`).
`NthFacts`, `KeepFacts` and `UndoFacts` say that the undo of the last transaction
removes its effects and keeps the rest as often as it was there; `TearFacts`,
that an undo cut by a crash touches no effects but the transaction's.

`StoredChainProofs` has `ChainIsStored`: `Spec => []StoredChain`. Its invariant
`ChainInv` says, for each mode of a job, how what the job has yet to do fits what
is stored, as long as nothing but the incidents that `StoredChain` allows has
happened (`Tidy`). A block that is collected or generated is one higher than the
stored ones, and continues them once its header is checked (`Adding`). During a
fork the own blocks stay stored whatever `info_block` says meanwhile, and agree
with the new ones up to `base` (`Replacing`). A commit has stored the new blocks
up to some id and has the others to do (`Committing`); a reset has deleted the
blocks above some id (`Resetting`). The steps inside a block change nothing of
this (`SameFits`). That a generated block is a block needs `TxAssumption` (there
are finitely many transactions), since its list of them is finite. What a job does is a list of
blocks cut from one chain (`Upwards`, `Downwards`), whose head and tail are again of this form.

Its second part has `TypeCorrect`: `Spec => []TypeOK`, whatever goes wrong.
`TypeInv` adds what a job relies on: the block stored at an id has this id, and
block 1 is always stored, so that `RestoreInfo` and the search for a common
block find one (`RowsOK`); a job at a block or transaction has it (`PlaceOK`); a
fork shares at least block 1, and its collector goes on with a block the other
node has (`HostOK`); and what a reset has yet to delete lies above the block it
goes back to, which is therefore still there at its end (`ResetOK`).

`ForkProofs` has

- `NoneLost`: `Spec => []ForkKeepsTxs`;
- `LedgerCorrect`: `Spec => []LedgerIsChain`;
- `LastIsUndone`: `Spec => []UndoneInOrder`.

Its invariant `Keeps` holds as long as nothing at all has gone wrong, and is
proved with `ChainInv` and `Inv` of `BlockStoreProofs`. It says which part of the chain is applied at each statement of a job:
all of it between two jobs (`AllApplied`), all below the block at hand and the part
of that block already done (`Applying`), or all but the part already undone
(`Undoing`). The transactions of this part are logged and pairwise different
(`Sound`), so that unlogging one of them leaves the others logged; and the
transactions of the own blocks of a fork are logged or queued (`Queued`).
Since `Matched` says that what is logged is applied, `ForkKeepsTxs` follows. The
part that is applied is named by block and index (`Slots`, `TxAt`), and two
chains that agree up to `base` have the same of it up to there.

`LastIsUndone` is what entitles the model to undo a transaction in one step: at
`UndoTx` the transaction at hand is the last of the part that is applied, since
blocks and transactions are taken from the end (`UndoneLast`, `DownTodo`); at
`RollbackTo` it is the one that has just failed (`RolledBackLast`); and since no
transaction is applied twice, none of its effects lies further down
(`LastUndone`). Nothing but an undo records `mixed` (`MixedByUndo`), so that the
first undo out of order must follow some other incident.

`LedgerIsChain` only speaks of the time between two jobs, and holds then because
the ledger is right at every statement: it has the effects of the transactions
of the part that is applied, in the order of the chain and nothing else
(`Exact`, `TxsTo`), except that a transaction whose main method has failed is
there in part until `RollbackTo` removes it (`Part`). Undoing the last of them
takes only its own effect away, since no other is of the same transaction
(`UndoLast`, which rests on `NeverTwice`: a clean history has had no crash). Two
facts about data are needed. The transactions of a chain cut after a block are
those cut before it, followed by the block's (`TxsToBlock`); and `FlattenSeq`,
defined by a recursive function, satisfies the equation of its definition
(`FlattenFacts`). The latter is shown without an induction theorem: of two
functions that satisfy the equation take the least index at which they differ
(`FlatAgrees`), and of the lengths for which there is none the least
(`FlatExists`). TLC has checked the invariant on the instance of `block_store`.

`NodeChainProofs` has

- `ChainKept`: `Spec => KeepsChain`, `BlockStore` implements `NodeChain`.

`FirmInv` adds to `ChainInv` and `KeepInv` that, without incidents, no two
transactions in conflict are applied (`Peaceful`, since `ExecTx` looks at what is
applied, and an undo in order only removes effects), the chain the node stands on is valid, the headers of the blocks already applied by a fork are
checked (`Checked`), and a fork under way is as long as its limit allows and not
lower than the own chain (`Sized`). The lemma `Stands` says what `Standing` is in
each mode of a job, by `ChainInv`; from it, all statements but three
kinds are stutters: `InsertIntoBlockchain` of a new block (`StoringFirm`),
`DropOwn` (`SwitchedFirm`), `StartReset` (`ResettingFirm`). That the new chain is
free of doubles and conflicts is not checked by the code for the chain as a
whole, which it never sees at once; it follows from the ledger: at that moment
the ledger has the effects of its transactions and nothing else (`Exact`, from
the proof of `LedgerCorrect`), none of them twice (`Sound`), and no two in
conflict (`Peaceful`); this is `AppliedIsSpendable`. A reset takes effect before
anything is undone, so that there it must be shown of the beginning of a chain:
its transactions are the first ones of the whole (`PrefixTxs`).

For any number of nodes, transactions, ids, hosts, limits, losses and refusals,
`GossipProofs` has

- `TypeCorrect`: `Spec => []TypeOK`;
- `OnlyOnce`: `Spec => []TxsOnce`;
- `NoneForgotten`: `Spec => []TxsKept`;
- `NotShutOut`: `Spec => []NeverShutOut`;
- `SentArrives`: `Spec => []SentIsKnown`;
- `ConfirmationsTrue`: `Spec => []ConfirmedWasShared`.

`TypeInv` adds to the types that every chain starts with block 1 and ends within
the bound, and that each node has held the chain it has. `Follow` looks for the
highest block two chains share; there is one, since they share block 1
(`Greatest`). `TxsOnce`, `TxsKept` and `SentIsKnown` are then inductive, the last
together with `ClosedEmpty` (a connection that is closed carries nothing, so that
opening it anew loses nothing). `NeverShutOut` needs the number of open
connections to be finite, hence `NodesAssumption`: there are finitely many nodes.
`ConfirmedWasShared` needs `AskInv` about the question that is under way: the
block asked for was the node's own, and the good answers so far are at most as
many as the nodes that have had the block and are not asked any more.

Only model-checked: the liveness properties (`StopCompletes` and `WaitEnds`,
`JobEnds`, `Converges` and `LastConfirmed`). They rest on fairness, hence on
`ENABLED`, which is beyond this prover. Every invariant and both refinements that
the passing runs check are also theorems.

## 5. Findings

The six runs that end in a violation show where the code differs from what it
says; `PROJECT.json` quotes both sides. In short: a leaked row of `main_lock`
stops all daemons; "Daemons killed" is printed while the collector may still be
inside; RollbackTo undoes only the last transaction of a refused block; a
refused fork panics on a nil error; the generator in `info_block` is not
restored; columns of bytes are restored as the text of their digits.

## 6. Not modelled

- Schedule of the generators: `GetSleepTime` is a pure function of `full_nodes`
  whose result is a waiting time; what it is for (one node due at a time) only
  means something with the times of blocks, which `BlockStore` and `Gossip`
  leave out. UpdFullNodes replaces `full_nodes` as a whole.
- Encodings and the Merkle tree: pure functions on byte strings, which a unit
  test reaches; no behaviour over time.
- Type2 and nodes that are not full nodes: the handler fails on every
  transaction (see `Gossip`), so that there is no behaviour to model.
- The contract compiler and virtual machine and the thirty transaction types:
  sequential code whose data would have to be enumerated; `BlockStore` has the
  shape they share, `UndoLog` what they may write.
- Cryptography (what passes is taken as genuine), controllers, exchange
  interface, templates and schema (presentation and requests of single users;
  their effect on the node is `Submit`), CreatingBlockchain (it only sleeps).
- The JavaScript under `src/static` is the web client: editors, maps and
  widgets, most of them third-party. The node is written in Go, and the models
  are of the node.

## 7. Plan

What would come next: the times of blocks, with the schedule of the generators;
and the rows of the ledger in `BlockStore`, so that an undo out of order takes
back the writes that it takes back in the code instead of any.
