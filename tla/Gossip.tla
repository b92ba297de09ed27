------------------------------- MODULE Gossip -------------------------------
(***************************************************************************)
(* How blocks and transactions travel between nodes: the Disseminator      *)
(* announces the last block and offers transactions, TCPServer.Type1 asks  *)
(* for what is missing, QueueParserBlocks fetches announced blocks,        *)
(* BlocksCollection follows whoever is ahead, Confirmations asks who has   *)
(* the same blocks.                                                        *)
(*                                                                         *)
(* What one node does with a block (module BlockStore) is one step here:   *)
(* the daemons concerned hold main_lock.  The Disseminator, the TCP server *)
(* and Confirmations hold no lock, so that their statements interleave     *)
(* with it.  Connections can break at any point, and carry no order among  *)
(* each other.  Every block is valid; a block is represented by the chain  *)
(* that leads to it, as in BlockStore.  A connection of a node to itself   *)
(* is left out.                                                            *)
(***************************************************************************)
EXTENDS Integers, Sequences, FiniteSets, SequencesExt

CONSTANTS
    Nodes,      \* full nodes
    Settings,   \* which daemons each node may be configured to start
    Tx,         \* transactions
    RB1, RB2,   \* consts.RB_BLOCKS_1 and RB_BLOCKS_2
    MinGood,    \* consts.MIN_CONFIRMED_NODES
    Recent,     \* 5: how far confirmations may lag behind
    Limit,      \* 20: connections a server handles, less one
    Slots,      \* connections from one node to another: bounds their number
    MaxId,      \* bound on block_id
    MaxLost,    \* bound on broken connections
    MaxRefused  \* bound on refused connections

Blocks == [by : Nodes, txs : SUBSET Tx]
Chains == Seq(Blocks)
NoBlock == <<>>
Ids == 1 .. MaxId

(* The daemons that not every node starts; the others run on all nodes.    *)
Daemons == {"BlockGenerator", "Disseminator", "Confirmations"}

ASSUME SettingsAssumption == Settings \subseteq [Nodes -> SUBSET Daemons]

ASSUME NodesAssumption == IsFiniteSet(Nodes)

ASSUME BoundsAssumption ==
    /\ RB1 \in Nat /\ RB2 \in Nat /\ MinGood \in Nat /\ Recent \in Nat
    /\ Limit \in Nat /\ MaxId \in Nat \ {0} /\ MaxLost \in Nat /\ MaxRefused \in Nat

VARIABLES
    started,  \* the daemons that StartDaemons has started on each node
    chain,    \* block_chain and info_block of each node
    unsent,   \* info_block.sent is 0
    queue,    \* queue_tx
    rows,     \* transactions: whether verified, and whether sent
    blocks,   \* queue_blocks: announced blocks and who has announced them
    teller,   \* what the Disseminator is doing
    conns,    \* open connections from Disseminators
    counter,  \* the TCP server's count of connections
    conf,     \* confirmations: the number of good answers for each id
    round,    \* what Confirmations is doing
    lost, refused,  \* connections that broke, or were refused, so far
    given,    \* history: the transactions that each node was given by users
    held      \* history: the chains each node has had

storeVars == <<chain, unsent, queue, rows, held>>
sendVars  == <<teller, conns, counter, refused>>
checkVars == <<conf, round, started>>
vars == <<storeVars, blocks, sendVars, checkVars, lost, given>>

(* A row of transactions: whether verified, and whether sent.              *)
NoRow == <<"none", "unsent">>
RowStates == {NoRow} \cup {"new", "ok"} \X {"unsent", "sent"}

Links == {c \in [from : Nodes, to : Nodes, slot : Slots] : c.from # c.to}

NoConn == [step |-> "closed", blk |-> NoBlock, txs |-> {}]
Quiet  == [step |-> "idle", blk |-> NoBlock]
Rest   == [step |-> "idle", id |-> 0, start |-> 0, blk |-> NoBlock,
           good |-> 0, left |-> {}]

Unasked == -1

Genesis(n) == <<[by |-> CHOOSE m \in Nodes : TRUE, txs |-> {}]>>

TypeOK ==
    /\ started \in Settings
    /\ chain \in [Nodes -> Chains] /\ unsent \in [Nodes -> BOOLEAN]
    /\ queue \in [Nodes -> SUBSET Tx] /\ rows \in [Nodes -> [Tx -> RowStates]]
    /\ blocks \in [Nodes -> SUBSET [blk : Chains, from : Nodes]]
    /\ teller \in [Nodes -> [step : {"idle", "mark", "offer"}, blk : Chains]]
    /\ conns \in [Links -> [step : {"closed", "dial", "open", "asked", "answered"},
                            blk : Chains, txs : SUBSET Tx]]
    /\ counter \in [Nodes -> Int]
    /\ conf \in [Nodes -> [Ids -> Nat \cup {Unasked}]]
    /\ round \in [Nodes -> [step : {"idle", "read", "ask"}, id : Nat, start : Int,
                               blk : Chains, good : Nat, left : SUBSET Nodes]]
    /\ \A n \in Nodes : round[n].step # "idle" => round[n].id \in Ids
    /\ lost \in 0 .. MaxLost /\ refused \in 0 .. MaxRefused
    /\ given \in [Nodes -> SUBSET Tx]
    /\ held \in [Nodes -> SUBSET Chains] /\ \A n \in Nodes : chain[n] \in held[n]

Init ==
    /\ started \in Settings
    /\ chain = [n \in Nodes |-> Genesis(n)]
    /\ unsent = [n \in Nodes |-> TRUE]
    /\ queue = [n \in Nodes |-> {}]
    /\ rows = [n \in Nodes |-> [t \in Tx |-> NoRow]]
    /\ blocks = [n \in Nodes |-> {}]
    /\ teller = [n \in Nodes |-> Quiet]
    /\ conns = [c \in Links |-> NoConn]
    /\ counter = [n \in Nodes |-> 0]
    /\ conf = [n \in Nodes |-> [id \in Ids |-> Unasked]]
    /\ round = [n \in Nodes |-> Rest]
    /\ lost = 0 /\ refused = 0
    /\ given = [n \in Nodes |-> {}]
    /\ held = [n \in Nodes |-> {Genesis(n)}]

-----------------------------------------------------------------------------
(* One node: its pool and its chain.                                       *)

Runs(n, daemon) == daemon \in started[n]

Upto(blk, id) == SubSeq(blk, 1, id)

Logged(blk) == UNION {blk[i].txs : i \in DOMAIN blk}

(* The length of the common part of two chains.                            *)
Common(a, b) == Max({i \in 1 .. Len(a) : i <= Len(b) /\ Upto(a, i) = Upto(b, i)})

HasRow(n, t) == rows[n][t] # NoRow
Verified(n, t) == rows[n][t][1] = "ok"
IsUnsent(n, t) == HasRow(n, t) /\ rows[n][t][2] = "unsent"

Fresh == <<"ok", "unsent">>
Unverified(row) == IF row = NoRow THEN row ELSE <<"new", row[2]>>

(* TxParser of all that waits or is not verified: the row is written anew, *)
(* so that it counts as not sent; what is in the log already is left.      *)
Parsed(n, t) ==
    IF t \in Logged(chain[n]) \/ Verified(n, t) \/ (~HasRow(n, t) /\ t \notin queue[n])
    THEN rows[n][t] ELSE Fresh

AllParsed(n) == [t \in Tx |-> Parsed(n, t)]

(* A user of the node submits a transaction.                               *)
Submit(n, t) ==
    /\ \A m \in Nodes : t \notin given[m]
    /\ given' = [given EXCEPT ![n] = given[n] \cup {t}]
    /\ queue' = [queue EXCEPT ![n] = queue[n] \cup {t}]
    /\ UNCHANGED <<chain, unsent, rows, held, blocks, sendVars, checkVars, lost>>

(* QueueParserTx.                                                          *)
ParseQueue(n) ==
    /\ queue[n] # {} \/ AllParsed(n) # rows[n]
    /\ rows' = [rows EXCEPT ![n] = AllParsed(n)]
    /\ queue' = [queue EXCEPT ![n] = {}]
    /\ UNCHANGED <<chain, unsent, held, blocks, sendVars, checkVars, lost, given>>

(* The rows once the blocks of a chain are applied: each block first drops *)
(* the rows used before it.                                                *)
RowsAfter(old, blk) ==
    [t \in Tx |-> IF t \in Logged(Front(blk)) THEN NoRow ELSE old[t]]

(* The chain of a node becomes another one, and is not announced yet.      *)
Adopt(n, blk) ==
    /\ chain' = [chain EXCEPT ![n] = blk]
    /\ unsent' = [unsent EXCEPT ![n] = TRUE]
    /\ held' = [held EXCEPT ![n] = held[n] \cup {blk}]

(* Mutant: what is in the last block goes into the next one, too.          *)
GenerateUsed(n) ==
    /\ Runs(n, "BlockGenerator")
    /\ Len(chain[n]) < MaxId
    /\ LET parsed == AllParsed(n)
           txs == {t \in Tx : parsed[t][1] = "ok"}
           blk == Append(chain[n], [by |-> n, txs |-> txs]) IN
       /\ Adopt(n, blk)
       /\ rows' = [rows EXCEPT ![n] = RowsAfter(parsed, blk)]
    /\ queue' = [queue EXCEPT ![n] = {}]
    /\ UNCHANGED <<blocks, sendVars, checkVars, lost, given>>

(* BlockGenerator: all verified transactions go into a block.              *)
Generate(n) ==
    /\ Runs(n, "BlockGenerator")
    /\ Len(chain[n]) < MaxId
    /\ LET parsed == AllParsed(n)
           txs == {t \in Tx : parsed[t][1] = "ok" /\ t \notin Logged(chain[n])}
           blk == Append(chain[n], [by |-> n, txs |-> txs]) IN
       /\ Adopt(n, blk)
       /\ rows' = [rows EXCEPT ![n] = RowsAfter(parsed, blk)]
    /\ queue' = [queue EXCEPT ![n] = {}]
    /\ UNCHANGED <<blocks, sendVars, checkVars, lost, given>>

(* Mutant: the transactions of the own blocks are dropped with them.       *)
FollowDrops(n, blk) ==
    LET undone == Logged(chain[n]) \ Logged(Upto(chain[n], Common(chain[n], blk))) IN
    /\ Adopt(n, blk)
    /\ rows' = [rows EXCEPT ![n] =
                   RowsAfter([t \in Tx |-> IF t \in undone THEN NoRow
                                           ELSE Unverified(rows[n][t])], blk)]
    /\ UNCHANGED queue

(* Own blocks are rolled back, their transactions queued again, and all    *)
(* rows are to be verified again; then the blocks of the other node.       *)
Follow(n, blk) ==
    LET undone == Logged(chain[n]) \ Logged(Upto(chain[n], Common(chain[n], blk))) IN
    /\ Adopt(n, blk)
    /\ queue' = [queue EXCEPT ![n] = queue[n] \cup undone]
    /\ rows' = [rows EXCEPT ![n] =
                   RowsAfter([t \in Tx |-> Unverified(rows[n][t])], blk)]

(* GetBlocks finds the fork within its limit.                              *)
Reaches(n, blk, limit) == Len(blk) - (Common(chain[n], blk) + 1) <= limit

(* Mutant: a chain that does not fit is left alone.                        *)
CollectNext(n, m) ==
    /\ Len(chain[m]) > Len(chain[n])
    /\ LET next == Upto(chain[m], Len(chain[n]) + 1) IN
       Front(next) = chain[n] /\ Follow(n, next)
    /\ UNCHANGED <<blocks, sendVars, checkVars, lost, given>>

(* BlocksCollection: the next block of a node that is ahead, or, if it     *)
(* does not fit, its chain up to the height of the own one.                *)
Collect(n, m) ==
    /\ Len(chain[m]) > Len(chain[n])
    /\ LET next == Upto(chain[m], Len(chain[n]) + 1) IN
       IF Front(next) = chain[n] THEN Follow(n, next)
       ELSE Reaches(n, Front(next), RB2) /\ Follow(n, Front(next))
    /\ UNCHANGED <<blocks, sendVars, checkVars, lost, given>>

DropAnnounced(n, q) == blocks' = [blocks EXCEPT ![n] = blocks[n] \ {q}]

(* The announced block is ahead, not too far, and its announcer can still  *)
(* give its block of that id, from a fork within the limit.                *)
Fetchable(n, q) ==
    LET id == Len(q.blk) IN
    /\ Len(chain[n]) < id /\ id <= Len(chain[n]) + RB1
    /\ id <= Len(chain[q.from])
    /\ Reaches(n, Upto(chain[q.from], id), RB1)

(* QueueParserBlocks drops what it has no use for ...                      *)
DropBlock(n, q) ==
    /\ ~Fetchable(n, q)
    /\ DropAnnounced(n, q)
    /\ UNCHANGED <<storeVars, sendVars, checkVars, lost, given>>

(* ... or cannot ask for ...                                               *)
LoseBlock(n, q) ==
    /\ lost < MaxLost
    /\ lost' = lost + 1
    /\ DropAnnounced(n, q)
    /\ UNCHANGED <<storeVars, sendVars, checkVars, given>>

(* ... and follows the announcer: to its block of that id, which need not  *)
(* be the one announced.                                                   *)
FetchBlock(n, q) ==
    /\ Fetchable(n, q)
    /\ Follow(n, Upto(chain[q.from], Len(q.blk)))
    /\ UNCHANGED <<blocks, sendVars, checkVars, lost, given>>

-----------------------------------------------------------------------------
(* The Disseminator of a node.                                             *)

(* It reads the last block if that is not marked as sent ...               *)
ReadBlock(n) ==
    /\ Runs(n, "Disseminator") /\ teller[n].step = "idle"
    /\ unsent[n] \/ \E t \in Tx : IsUnsent(n, t)
    /\ teller' = [teller EXCEPT ![n] =
                     [step |-> "mark", blk |-> IF unsent[n] THEN chain[n] ELSE NoBlock]]
    /\ UNCHANGED <<storeVars, blocks, conns, counter, refused, checkVars, lost, given>>

(* ... marks whatever is the last block now ...                            *)
MarkBlock(n) ==
    /\ teller[n].step = "mark"
    /\ unsent' = [unsent EXCEPT ![n] = FALSE]
    /\ teller' = [teller EXCEPT ![n].step = "offer"]
    /\ UNCHANGED <<chain, queue, rows, held, blocks, conns, counter, refused,
                   checkVars, lost, given>>

Unsent(n) == {t \in Tx : IsUnsent(n, t)}

(* ... marks the transactions too, and leaves the message to a goroutine   *)
(* per host.                                                               *)
Offer(n) ==
    /\ teller[n].step = "offer"
    /\ LET blk == teller[n].blk
           links == {c \in Links : c.from = n}
           free(m) == {c \in links : c.to = m /\ conns[c].step = "closed"} IN
       IF blk = NoBlock /\ Unsent(n) = {} THEN UNCHANGED conns
       ELSE /\ \A m \in Nodes \ {n} : free(m) # {}
            /\ LET chosen == {CHOOSE c \in free(m) : TRUE : m \in Nodes \ {n}} IN
               conns' = [c \in Links |->
                           IF c \in chosen
                           THEN [step |-> "dial", blk |-> blk, txs |-> Unsent(n)]
                           ELSE conns[c]]
    /\ rows' = [rows EXCEPT ![n] =
                   [t \in Tx |-> IF IsUnsent(n, t) THEN <<rows[n][t][1], "sent">>
                                 ELSE rows[n][t]]]
    /\ teller' = [teller EXCEPT ![n] = Quiet]
    /\ UNCHANGED <<chain, unsent, queue, held, blocks, counter, refused,
                   checkVars, lost, given>>

-----------------------------------------------------------------------------
(* One connection: DisseminatorType1 here, HandleTCPRequest and Type1      *)
(* there.                                                                  *)

Close(c) == conns' = [conns EXCEPT ![c] = NoConn]

Count(n, by) == counter' = [counter EXCEPT ![n] = counter[n] + by]

(* Mutant: a connection that was counted stays counted.                    *)
CloseOnly(c) == Close(c) /\ UNCHANGED counter

(* deferClose.                                                             *)
DeferClose(c) == Close(c) /\ Count(c.to, -1)

Accept(c) ==
    /\ conns[c].step = "dial"
    /\ counter[c.to] <= Limit
    /\ Count(c.to, 1)
    /\ conns' = [conns EXCEPT ![c].step = "open"]
    /\ UNCHANGED <<storeVars, blocks, teller, refused, checkVars, lost, given>>

(* A refused connection was not counted, and is counted off all the same.  *)
Refuse(c) ==
    /\ conns[c].step = "dial"
    /\ counter[c.to] > Limit
    /\ refused < MaxRefused
    /\ refused' = refused + 1
    /\ DeferClose(c)
    /\ UNCHANGED <<storeVars, blocks, teller, checkVars, lost, given>>

(* A block that is not behind is queued, once for each hash.               *)
Announced(c) ==
    LET blk == conns[c].blk
        new == /\ blk # NoBlock
               /\ Len(blk) >= Len(chain[c.to])
               /\ \A q \in blocks[c.to] : q.blk # blk IN
    IF new THEN blocks[c.to] \cup {[blk |-> blk, from |-> c.from]} ELSE blocks[c.to]

Unknown(n, txs) ==
    {t \in txs : t \notin Logged(chain[n]) /\ ~HasRow(n, t) /\ t \notin queue[n]}

(* Type1 asks for the transactions that it finds nowhere.  It looks into   *)
(* three tables one after the other, so that it can miss one that moves.   *)
Receive(c) ==
    /\ conns[c].step = "open"
    /\ blocks' = [blocks EXCEPT ![c.to] = Announced(c)]
    /\ \E need \in SUBSET conns[c].txs :
           /\ Unknown(c.to, conns[c].txs) \subseteq need
           /\ IF need = {} THEN DeferClose(c)
              ELSE /\ conns' = [conns EXCEPT ![c] =
                                  [step |-> "asked", blk |-> NoBlock, txs |-> need]]
                   /\ UNCHANGED counter
    /\ UNCHANGED <<storeVars, teller, refused, checkVars, lost, given>>

(* Mutant: only what is verified is given.                                 *)
AnswerVerified(c) ==
    /\ conns[c].step = "asked"
    /\ conns' = [conns EXCEPT ![c] =
                    [step |-> "answered", blk |-> NoBlock,
                     txs |-> {t \in conns[c].txs : Verified(c.from, t)}]]
    /\ UNCHANGED <<storeVars, blocks, teller, counter, refused, checkVars, lost, given>>

(* The sender gives those it still has in its table transactions.          *)
Answer(c) ==
    /\ conns[c].step = "asked"
    /\ conns' = [conns EXCEPT ![c] =
                    [step |-> "answered", blk |-> NoBlock,
                     txs |-> {t \in conns[c].txs : HasRow(c.from, t)}]]
    /\ UNCHANGED <<storeVars, blocks, teller, counter, refused, checkVars, lost, given>>

TakeTxs(c) ==
    /\ conns[c].step = "answered"
    /\ queue' = [queue EXCEPT ![c.to] = queue[c.to] \cup conns[c].txs]
    /\ DeferClose(c)
    /\ UNCHANGED <<chain, unsent, rows, held, blocks, teller, refused, checkVars,
                   lost, given>>

(* A connection cannot be made, breaks or times out; it is only logged.    *)
Break(c) ==
    /\ conns[c].step # "closed"
    /\ lost < MaxLost
    /\ lost' = lost + 1
    /\ IF conns[c].step = "dial" THEN Close(c) /\ UNCHANGED counter ELSE DeferClose(c)
    /\ UNCHANGED <<storeVars, blocks, teller, refused, checkVars, given>>

-----------------------------------------------------------------------------
(* Confirmations of a node.                                                *)

(* GetConfirmedBlockID.                                                    *)
Confirmed(n) == Max({id \in Ids : conf[n][id] >= MinGood} \cup {0})

(* Mutant: one block too many.                                             *)
ReadingPast(id, start) ==
    IF id >= start THEN [Rest EXCEPT !.step = "read", !.id = id, !.start = start]
    ELSE Rest

(* The loop over the blocks, until it has come down to start.              *)
Reading(id, start) ==
    IF id > start THEN [Rest EXCEPT !.step = "read", !.id = id, !.start = start]
    ELSE Rest

(* Mutant: the last block is left out.                                     *)
BeginRoundBelow(n) ==
    /\ Runs(n, "Confirmations") /\ round[n].step = "idle"
    /\ LET last == Len(chain[n])
           start == IF last - Confirmed(n) > Recent THEN Confirmed(n) + 1 ELSE last IN
       round' = [round EXCEPT ![n] = Reading(last, start)]
    /\ UNCHANGED <<storeVars, blocks, sendVars, conf, started, lost, given>>

(* A round starts at the last block, and goes down to one above the last   *)
(* confirmed block, exclusively, if that lags far behind.                  *)
BeginRound(n) ==
    /\ Runs(n, "Confirmations") /\ round[n].step = "idle"
    /\ LET last == Len(chain[n])
           start == IF last - Confirmed(n) > Recent THEN Confirmed(n) + 1 ELSE last - 1 IN
       round' = [round EXCEPT ![n] = Reading(last, start)]
    /\ UNCHANGED <<storeVars, blocks, sendVars, conf, started, lost, given>>

NextId(n) == Reading(round[n].id - 1, round[n].start)

(* The own block of that id, if there is one still.                        *)
ReadHash(n) ==
    /\ round[n].step = "read"
    /\ round' = [round EXCEPT ![n] =
                    IF round[n].id > Len(chain[n]) THEN NextId(n)
                    ELSE [round[n] EXCEPT !.step = "ask", !.good = 0, !.left = Nodes,
                                          !.blk = Upto(chain[n], round[n].id)]]
    /\ UNCHANGED <<storeVars, blocks, sendVars, conf, started, lost, given>>

(* Mutant: any block of that id will do.                                   *)
SameId(n, m) == Len(chain[m]) >= round[n].id

(* Type4: a host answers with the hash of its block of that id.            *)
Same(n, m) ==
    Len(chain[m]) >= round[n].id /\ Upto(chain[m], round[n].id) = round[n].blk

AnswerHash(n, m) ==
    /\ round[n].step = "ask" /\ m \in round[n].left
    /\ round' = [round EXCEPT ![n].left = round[n].left \ {m},
                              ![n].good = round[n].good + IF Same(n, m) THEN 1 ELSE 0]
    /\ UNCHANGED <<storeVars, blocks, sendVars, conf, started, lost, given>>

(* The host does not answer in time.                                       *)
NoAnswer(n, m) ==
    /\ round[n].step = "ask" /\ m \in round[n].left
    /\ lost < MaxLost
    /\ lost' = lost + 1
    /\ round' = [round EXCEPT ![n].left = round[n].left \ {m}]
    /\ UNCHANGED <<storeVars, blocks, sendVars, conf, started, given>>

Confirm(n) ==
    /\ round[n].step = "ask" /\ round[n].left = {}
    /\ conf' = [conf EXCEPT ![n][round[n].id] = round[n].good]
    /\ round' = [round EXCEPT ![n] = IF round[n].good >= MinGood THEN Rest ELSE NextId(n)]
    /\ UNCHANGED <<storeVars, blocks, sendVars, started, lost, given>>

-----------------------------------------------------------------------------

Fetch(n) == \E q \in blocks[n] : DropBlock(n, q) \/ FetchBlock(n, q)

Catch(n) == \E m \in Nodes : Collect(n, m)

Tell(n) == ReadBlock(n) \/ MarkBlock(n) \/ Offer(n)

Talk(c) == Accept(c) \/ Receive(c) \/ Answer(c) \/ TakeTxs(c)

Check(n) ==
    \/ BeginRound(n) \/ ReadHash(n) \/ Confirm(n)
    \/ \E m \in Nodes : AnswerHash(n, m)

Next ==
    \/ \E n \in Nodes, t \in Tx : Submit(n, t)
    \/ \E n \in Nodes : ParseQueue(n) \/ Fetch(n) \/ Catch(n)
    \/ \E n \in Nodes : \E q \in blocks[n] : LoseBlock(n, q)
    \/ \E n \in Nodes : Generate(n) \/ Tell(n) \/ Check(n)
    \/ \E c \in Links : Talk(c) \/ Refuse(c) \/ Break(c)
    \/ \E n, m \in Nodes : NoAnswer(n, m)

Spec == Init /\ [][Next]_vars

FairSpec ==
    /\ Spec
    /\ \A n \in Nodes : WF_vars(Catch(n)) /\ WF_vars(Check(n))

-----------------------------------------------------------------------------
(* Properties.                                                             *)

Knows(n, t) == t \in queue[n] \/ HasRow(n, t) \/ t \in Logged(chain[n])

(* A transaction that a user has given to a node stays with that node,     *)
(* whatever blocks of others replace its own: it waits, has a row or is in *)
(* the chain (GetBlocks, TxParser, the clean-up of used rows).             *)
TxsKept == \A n \in Nodes : \A t \in given[n] : Knows(n, t)

(* No transaction is twice in a chain, although it may be offered, asked   *)
(* for and queued again after it is in a block (Type1, TxParser).          *)
TxsOnce ==
    \A n \in Nodes : \A i, j \in DOMAIN chain[n] :
        chain[n][i].txs \cap chain[n][j].txs # {} => i = j

(* As long as no connection breaks or is refused, a transaction that is    *)
(* marked as sent has reached every other node or is on its way, although  *)
(* it is marked before it is sent and although blocks come and go on both  *)
(* sides meanwhile (the Disseminator, Type1, TxParser).                    *)
SentIsKnown ==
    lost = 0 /\ refused = 0 =>
        \A n, m \in Nodes, t \in Tx :
            n # m /\ HasRow(n, t) /\ ~IsUnsent(n, t) =>
                \/ Knows(m, t)
                \/ \E c \in Links : c.from = n /\ c.to = m /\ t \in conns[c].txs

Open(n) == {c \in Links : c.to = n /\ conns[c].step \in {"open", "asked", "answered"}}

(* A TCP server never counts more connections than are open, so that it    *)
(* cannot refuse everybody for ever (HandleTCPRequest, deferClose).        *)
NeverShutOut == \A n \in Nodes : counter[n] <= Cardinality(Open(n))

(* A block counts as confirmed only if that many nodes have had one and    *)
(* the same block of that id, whatever forks happen while they are asked   *)
(* (Confirmations, Type4).                                                 *)
ConfirmedWasShared ==
    \A n \in Nodes, id \in Ids :
        conf[n][id] >= MinGood =>
            \E blk \in {Upto(c, id) : c \in {d \in held[n] : Len(d) >= id}} :
                Cardinality({m \in Nodes : \E c \in held[m] :
                                Len(c) >= id /\ Upto(c, id) = blk}) >= MinGood

(* Although announcements are lost, overtaken by the next block or refused,*)
(* all nodes reach the same height once no more blocks are made            *)
(* (BlocksCollection, QueueParserBlocks, the Disseminator).                *)
SameHeight == \A m, n \in Nodes : Len(chain[m]) = Len(chain[n])

Converges == <>[]SameHeight

(* Once the nodes have one chain, its last block is confirmed in the end   *)
(* (Confirmations).                                                        *)
LastConfirmed ==
    (<>[](\A m, n \in Nodes : chain[m] = chain[n]))
        => <>[](\A n \in Nodes : Runs(n, "Confirmations") => conf[n][Len(chain[n])] >= MinGood)
=============================================================================
