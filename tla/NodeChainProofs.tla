--------------------------- MODULE NodeChainProofs ---------------------------
(* Proof that a node keeps its promise about its chain (module NodeChain). *)
EXTENDS ForkProofs

-----------------------------------------------------------------------------
(* Of two transactions that conflict, one is applied.                      *)

Peaceful ==
    \A i, j \in DOMAIN ledger :
        i # j /\ ledger[i].part = "all" /\ ledger[j].part = "all" =>
            {ledger[i].tx, ledger[j].tx} \notin Conflicts

LEMMA ApplyIsPeaceful ==
    ASSUME IsLedger, Peaceful, NEW t, NEW part, Apply(t, part), part = "all" => ~ Conflicted(t)
    PROVE  Peaceful'
<1> DEFINE e == [tx |-> t, part |-> part]
           len == Len(ledger)
<1>1. PICK S : ledger \in Seq(S)
  BY DEF IsLedger
<1>2. len \in Nat /\ DOMAIN ledger = 1 .. len
  BY LedgerFacts
<1>3. ledger \in Seq(S \cup {e})
  <2>1. ledger \in [1 .. len -> S]
    BY <1>1, LenProperties
  <2> HIDE DEF e
  <2>2. ledger \in [1 .. len -> S \cup {e}]
    BY <2>1
  <2> QED
    BY <1>2, <2>2, SeqDef
<1>4. ledger' = Append(ledger, e)
  BY DEF Apply
<1>5. e.tx = t /\ e.part = part
  OBVIOUS
<1> HIDE DEF e
<1>6. /\ ledger' \in Seq(S \cup {e}) /\ Len(ledger') = len + 1
      /\ \A i \in 1 .. len : ledger'[i] = ledger[i]
      /\ ledger'[len + 1] = e
  BY <1>3, <1>4, AppendProperties
<1>7. DOMAIN ledger' = 1 .. len + 1
  BY <1>2, <1>6, LenProperties
<1>8. \A i \in 1 .. len + 1 : i \in 1 .. len \/ i = len + 1
  BY <1>2
<1>9. ASSUME part = "all", NEW i \in 1 .. len, ledger[i].part = "all"
      PROVE  {t, ledger[i].tx} \notin Conflicts /\ {ledger[i].tx, t} \notin Conflicts
  <2>1. ledger[i].tx \in Applied
    BY <1>2, <1>9 DEF Applied, Whole
  <2>2. {t, ledger[i].tx} \notin Conflicts
    BY <1>9, <2>1 DEF Conflicted
  <2>3. {t, ledger[i].tx} = {ledger[i].tx, t}
    OBVIOUS
  <2> QED
    BY <2>2, <2>3
<1> SUFFICES ASSUME NEW i \in 1 .. len + 1, NEW j \in 1 .. len + 1, i # j,
                    ledger'[i].part = "all", ledger'[j].part = "all"
             PROVE  {ledger'[i].tx, ledger'[j].tx} \notin Conflicts
  BY <1>7 DEF Peaceful
<1>10. CASE i \in 1 .. len /\ j \in 1 .. len
  BY <1>2, <1>6, <1>10 DEF Peaceful
<1>11. CASE i = len + 1 /\ j \in 1 .. len
  BY <1>5, <1>6, <1>9, <1>11
<1>12. CASE i \in 1 .. len /\ j = len + 1
  BY <1>5, <1>6, <1>9, <1>12
<1> QED
  BY <1>8, <1>10, <1>11, <1>12

LEMMA UndoIsPeaceful ==
    ASSUME IsLedger, Peaceful, NEW t, NEW incident, Undo(t, incident), incidents' = {}
    PROVE  Peaceful'
<1> DEFINE kept == Others(t)
           size == Cardinality(kept)
<1>1. Len(ledger) \in Nat /\ kept \in SUBSET (1 .. Len(ledger)) /\ kept \subseteq DOMAIN ledger
  BY LedgerFacts DEF Others
<1>2. ledger' = [k \in 1 .. size |-> ledger[Nth(kept, k)]]
  BY DEF Undo, Keep
<1> HIDE DEF kept
<1>3. \A k, l \in 1 .. size : Nth(kept, k) \in kept /\ (Nth(kept, k) = Nth(kept, l) => k = l)
  BY <1>1, NthFacts
<1>4. DOMAIN ledger' = 1 .. size /\ \A k \in 1 .. size : ledger'[k] = ledger[Nth(kept, k)]
  BY <1>2
<1> HIDE DEF size
<1> QED
  BY <1>1, <1>3, <1>4 DEF Peaceful

LEMMA PeacefulStays ==
    ASSUME Inv, Peaceful, [Next]_vars, incidents' = {}
    PROVE  Peaceful'
<1>1. IsLedger
  BY DEF Inv, LogInv
<1>2. CASE ledger' = ledger
  BY <1>2 DEF Peaceful
<1>3. CASE ExecTx \/ InitFails \/ MainFails
  BY <1>1, <1>3, ApplyIsPeaceful DEF ExecTx, InitFails, MainFails
<1>4. CASE RollbackTo \/ UndoTx
  BY <1>1, <1>4, UndoIsPeaceful DEF RollbackTo, UndoTx
<1>5. CASE StartJob
  BY <1>2, <1>5 DEF StartJob, StartCollect, ParseBlockQueue, StartGenerate, StartReset
<1>6. CASE CollectNext \/ StopCollect \/ FormBlock \/ CheckHeader \/ UpdBlockInfo
           \/ InsertIntoBlockchain \/ BlockRefused \/ UnlogTx \/ UndoneBlock \/ ResetInfo
  BY <1>2, <1>6 DEF CollectNext, StopCollect, FormBlock, CheckHeader, UpdBlockInfo,
                    InsertIntoBlockchain, BlockRefused, UnlogTx, UndoneBlock, ResetInfo
<1>7. CASE MarkTx \/ FrontFails \/ LogTx
  BY <1>2, <1>7 DEF MarkTx, FrontFails, LogTx
<1>8. CASE ApplyFork \/ DropOwn \/ CommitInfo \/ CommitRow \/ Committed
           \/ ForkPanics \/ UndoFork \/ RestoreOwn \/ RestoreInfo \/ RestoreFails
  BY <1>2, <1>8 DEF ApplyFork, DropOwn, CommitInfo, CommitRow, Committed, ForkPanics, UndoFork,
                    RestoreOwn, RestoreInfo, RestoreFails
<1>9. CASE ParseQueue \/ UNCHANGED vars \/ \E t \in Tx : Submit(t) \/ UpdFullNodes(t)
  BY <1>2, <1>9 DEF ParseQueue, vars, Submit, UpdFullNodes
<1>10. CASE Crashes
  BY <1>10, CrashIncidents
<1> QED
  BY <1>3, <1>4, <1>5, <1>6, <1>7, <1>8, <1>9, <1>10 DEF Next, JobStep

-----------------------------------------------------------------------------
(* Chains whose transactions are applied, and what is left of them.        *)

Good(c) == \A i \in 2 .. Len(c) : ~c[i].bad

LEMMA ValidFacts ==
    \A c : Promise!Valid(c) <=> Promise!Spendable(ChainTxs(c)) /\ Good(c)
BY DEF Promise!Valid, Promise!AllTxs, ChainTxs, Good, FlattenSeq, Promise!FlattenSeq

LEMMA AppliedIsSpendable ==
    ASSUME Inv, Unmixed, Peaceful, crashes = 0, NEW txs, ledger = EffectsOf(txs)
    PROVE  Promise!Spendable(txs)
<1>1. DOMAIN ledger = DOMAIN txs /\ \A i \in DOMAIN txs : ledger[i] = Effect(txs[i])
  BY DEF EffectsOf
<1>2. \A i \in DOMAIN txs : ledger[i].tx = txs[i] /\ ledger[i].part = "all"
  BY <1>1 DEF Effect
<1>3. \A i, j \in DOMAIN txs : txs[i] = txs[j] => i = j
  BY <1>1, <1>2 DEF Inv, Matched, Distinct
<1>4. \A i, j \in DOMAIN txs : i # j => {txs[i], txs[j]} \notin Conflicts
  BY <1>1, <1>2 DEF Peaceful
<1> QED
  BY <1>3, <1>4 DEF Promise!Spendable

LEMMA PrefixTxs ==
    ASSUME NEW c \in Seq(Payloads), NEW n \in 0 .. Len(c)
    PROVE  /\ DOMAIN ChainTxs(Upto(c, n)) \subseteq DOMAIN ChainTxs(c)
           /\ \A i \in DOMAIN ChainTxs(Upto(c, n)) : ChainTxs(c)[i] = ChainTxs(Upto(c, n))[i]
<1> DEFINE Txs0(k) == ChainTxs(Upto(c, k))
           Starts0(k) == /\ DOMAIN Txs0(n) \subseteq DOMAIN Txs0(k)
                         /\ \A i \in DOMAIN Txs0(n) : Txs0(k)[i] = Txs0(n)[i]
           T == {k \in n .. Len(c) : ~ Starts0(k)}
<1>1. Len(c) \in Nat /\ n \in Nat
  BY LenProperties
<1>2. T = {}
  <2> SUFFICES ASSUME T # {} PROVE FALSE
    OBVIOUS
  <2>1. T \in SUBSET Nat
    BY <1>1
  <2>2. PICK m \in T : \A k \in T : m <= k
    <3> HIDE DEF T
    <3> QED
      BY <2>1, Least
  <2>3. m \in n .. Len(c) /\ ~ Starts0(m)
    OBVIOUS
  <2>4. m # n
    BY <2>3
  <2>5. PICK k \in n .. Len(c) : m = k + 1 /\ k < Len(c) /\ k \in 0 .. Len(c) /\ k \in Nat
    <3>1. m - 1 \in n .. Len(c) /\ m = (m - 1) + 1 /\ m - 1 < Len(c) /\ m - 1 \in 0 .. Len(c)
      BY <1>1, <2>3, <2>4
    <3> QED
      BY <1>1, <3>1
  <2>6. Starts0(k)
    <3>1. k \notin T
      BY <1>1, <2>2, <2>5
    <3> QED
      BY <3>1
  <2> HIDE DEF T
  <2>7. /\ Txs0(k) \in Seq(Tx) /\ Txs0(m) = Txs0(k) \o c[m].txs
    BY <2>5, ChainTxsFacts
  <2>8. c[m].txs \in Seq(Tx)
    BY <1>1, <2>3, <2>5, TxsFacts
  <2> HIDE DEF Txs0
  <2>9. /\ DOMAIN Txs0(k) = 1 .. Len(Txs0(k)) /\ Len(Txs0(k)) \in Nat /\ Len(c[m].txs) \in Nat
        /\ Txs0(m) \in Seq(Tx) /\ Len(Txs0(m)) = Len(Txs0(k)) + Len(c[m].txs)
        /\ \A i \in 1 .. Len(Txs0(k)) : Txs0(m)[i] = Txs0(k)[i]
    BY <2>7, <2>8, ConcatProperties, LenProperties
  <2>10. DOMAIN Txs0(m) = 1 .. Len(Txs0(k)) + Len(c[m].txs)
    BY <2>9, LenProperties
  <2>11. 1 .. Len(Txs0(k)) \subseteq 1 .. Len(Txs0(k)) + Len(c[m].txs)
    BY <2>9
  <2>12. Starts0(m)
    BY <2>6, <2>9, <2>10, <2>11
  <2> QED
    BY <2>3, <2>12
<1>3. Starts0(Len(c))
  <2>1. Len(c) \in n .. Len(c)
    BY <1>1
  <2> QED
    BY <1>2, <2>1
<1>4. Txs0(Len(c)) = ChainTxs(c)
  BY UptoAll
<1> HIDE DEF Txs0
<1> QED
  BY <1>3, <1>4 DEF Txs0

LEMMA PrefixIsValid ==
    ASSUME NEW c \in Seq(Payloads), NEW n \in 1 .. Len(c), Promise!Valid(c)
    PROVE  Promise!Valid(Upto(c, n))
<1>1. Len(c) \in Nat /\ n \in 0 .. Len(c) /\ n \in Nat
  BY LenProperties
<1>2. Promise!Spendable(ChainTxs(Upto(c, n)))
  <2>1. Promise!Spendable(ChainTxs(c))
    BY ValidFacts
  <2>2. /\ DOMAIN ChainTxs(Upto(c, n)) \subseteq DOMAIN ChainTxs(c)
        /\ \A i \in DOMAIN ChainTxs(Upto(c, n)) : ChainTxs(c)[i] = ChainTxs(Upto(c, n))[i]
    BY <1>1, PrefixTxs
  <2> QED
    BY <2>1, <2>2 DEF Promise!Spendable
<1>3. Good(Upto(c, n))
  <2>1. Len(Upto(c, n)) = n /\ \A i \in 1 .. n : Upto(c, n)[i] = c[i]
    BY <1>1, UptoFacts
  <2>2. \A i \in 2 .. n : i \in 1 .. n /\ i \in 2 .. Len(c)
    BY <1>1
  <2> QED
    BY <2>1, <2>2, ValidFacts DEF Good
<1> QED
  BY <1>2, <1>3, ValidFacts

-----------------------------------------------------------------------------
(* The chain the node stands on, in each mode.                             *)

LEMMA TopIsStored ==
    ASSUME NEW r, NEW b, IsBlock(b), r = Image(b)
    PROVE  r[Max({id \in Ids : r[id] # NoBlock})] = b
<1> DEFINE T == {id \in Ids : r[id] # NoBlock}
<1>1. b \in Seq(Payloads) /\ Len(b) \in Nat /\ Len(b) \in Ids /\ Len(b) >= 1
  BY BlockFacts DEF IsBlock
<1>2. \A id \in Ids : id \in Nat /\ id >= 1
  BY DEF Ids
<1>3. \A id \in Ids : id <= Len(b) => r[id] = Upto(b, id) /\ r[id] # NoBlock
  <2> SUFFICES ASSUME NEW id \in Ids, id <= Len(b) PROVE r[id] = Upto(b, id) /\ r[id] # NoBlock
    OBVIOUS
  <2>1. id \in 0 .. Len(b) /\ id # 0
    BY <1>1, <1>2
  <2> QED
    BY <1>1, <2>1, UptoFacts DEF Image
<1>4. \A id \in Ids : ~ (id <= Len(b)) => r[id] = NoBlock
  BY DEF Image
<1>5. T \in SUBSET (0 .. Len(b)) /\ Len(b) \in T
  BY <1>1, <1>2, <1>3, <1>4
<1>6. Max(T) = Len(b)
  <2> HIDE DEF T
  <2>1. Max(T) \in T /\ Max(T) >= Len(b)
    BY <1>1, <1>5, Greatest
  <2>2. Max(T) \in 0 .. Len(b)
    BY <1>5, <2>1
  <2> HIDE DEF Max
  <2>3. PICK m : m = Max(T)
    OBVIOUS
  <2> QED
    BY <1>1, <2>1, <2>2, <2>3
<1>7. r[Len(b)] = b
  BY <1>1, <1>3, UptoAll
<1> QED
  BY <1>6, <1>7

LEMMA Stands ==
    Fits =>
        /\ job.mode \in {"none", "loop"} => Standing = info.blk
        /\ job.mode \in AddModes /\ job.step # "row" => Standing = info.blk
        /\ job.mode \in AddModes /\ job.step = "row" => Standing = Front(info.blk)
        /\ job.mode \in ForkModes => \A own : HasOwn(own) => Standing = own
        /\ job.mode = "commit" => Standing = job.new
        /\ job.mode = "reset" => Standing = Upto(info.blk, job.at)
<1> SUFFICES ASSUME Fits
             PROVE  /\ job.mode \in {"none", "loop"} => Standing = info.blk
                    /\ job.mode \in AddModes /\ job.step # "row" => Standing = info.blk
                    /\ job.mode \in AddModes /\ job.step = "row" => Standing = Front(info.blk)
                    /\ job.mode \in ForkModes => \A own : HasOwn(own) => Standing = own
                    /\ job.mode = "commit" => Standing = job.new
                    /\ job.mode = "reset" => Standing = Upto(info.blk, job.at)
  OBVIOUS
<1>1. ASSUME NEW b, Stored(b), job.mode \notin {"commit", "reset"} PROVE Standing = b
  BY <1>1, TopIsStored DEF Stored, Standing
<1>2. job.mode \in {"none", "loop"} => Stored(info.blk)
  BY DEF Fits, Waiting
<1>3. job.mode \in AddModes /\ job.step # "row" => Stored(info.blk)
  BY DEF Fits, Adding
<1>4. job.mode \in AddModes /\ job.step = "row" => Stored(Front(info.blk))
  BY DEF Fits, Adding
<1>5. \A own : HasOwn(own) => Stored(own)
  BY DEF HasOwn
<1>6. ASSUME job.mode = "reset" PROVE Standing = Upto(info.blk, job.at)
  <2>1. IsBlock(info.blk) /\ job.at \in 1 .. Len(info.blk)
    BY <1>6 DEF Fits, Resetting
  <2>2. PICK n \in job.at .. Len(info.blk) : Stored(Upto(info.blk, n))
    BY <1>6 DEF Fits, Resetting
  <2>3. /\ info.blk \in Seq(Payloads) /\ Len(info.blk) \in Nat /\ n \in 0 .. Len(info.blk)
        /\ job.at \in 0 .. n /\ job.at \in Ids
    BY <2>1, BlockFacts, BoundsAssumption DEF IsBlock, Ids
  <2>4. Len(Upto(info.blk, n)) = n
    BY <2>3, UptoFacts
  <2>5. rows[job.at] = Upto(Upto(info.blk, n), job.at)
    BY <2>2, <2>3, <2>4, StoredFacts
  <2> QED
    BY <1>6, <2>3, <2>5, UptoUpto DEF Standing
<1> QED
  BY <1>1, <1>2, <1>3, <1>4, <1>5, <1>6 DEF AddModes, ForkModes, Standing

LEMMA StandingStays ==
    /\ rows' = rows /\ job'.mode = job.mode /\ job'.new = job.new /\ job'.at = job.at =>
           Standing' = Standing
    /\ /\ rows' = rows
       /\ job.mode \notin {"commit", "reset"} /\ job'.mode \notin {"commit", "reset"}
       => Standing' = Standing
BY DEF Standing

-----------------------------------------------------------------------------
(* The invariant: the chain is valid, a block in work has passed the check *)
(* of its header, and the branch of a fork is neither too low nor too long.*)

Checked ==
    /\ job.mode \in AddModes /\ job.step \in Within \cup {"row"} => ~Last(Cur).bad
    /\ job.mode = "fork" /\ job.step \in Within => ~Last(Cur).bad
    /\ job.mode = "fork" =>
           \A i \in (Len(job.base) + 1) .. (Len(job.new) - Len(job.todo)) : ~job.new[i].bad

Fitting(high, base, new) ==
    \/ Len(new) > high /\ Len(new) - Len(base) <= RB1 + 1
    \/ Len(new) = high /\ Len(new) - Len(base) <= RB2 + 1

Sized == job.mode \in ForkModes => Fitting(Len(Standing), job.base, job.new)

Firm == Promise!Valid(Standing) /\ Checked /\ Sized

FirmInv == incidents = {} => Peaceful /\ Firm

LEMMA FirmStays ==
    ASSUME Firm, Standing' = Standing, Checked', Sized' PROVE Firm'
<1>1. PICK c : c = Standing
  OBVIOUS
<1>2. Standing' = c
  BY <1>1
<1>3. Promise!Valid(c)
  BY <1>1 DEF Firm
<1>4. Promise!Valid(Standing)'
  BY <1>2, <1>3
<1> QED
  BY <1>4 DEF Firm

LEMMA UncheckedModes ==
    job'.mode \notin AddModes \cup {"fork"} => Checked'
BY DEF Checked

LEMMA UncheckedSteps ==
    job'.mode \in AddModes /\ job'.step \notin Within \cup {"row"} => Checked'
BY DEF Checked, AddModes

LEMMA SizedStays ==
    ASSUME Firm, Standing' = Standing,
           \/ job'.mode \notin ForkModes
           \/ job.mode \in ForkModes /\ job'.base = job.base /\ job'.new = job.new
    PROVE  Sized'
BY DEF Firm, Sized

(* What a fork fetches is within the limit.                                *)
LEMMA ForkSize ==
    ASSUME IsJob(job), NEW host \in PeerChains, NEW id \in 1 .. Len(host),
           NEW limit \in Nat, GetBlocks(host, id, limit), job' # NoJob
    PROVE  /\ job'.mode = "undoOwn" /\ Len(job'.new) = id
           /\ Len(job'.new) - Len(job'.base) <= limit + 1
<1> DEFINE T == ForkPoints(host, id)
           k == Max(T)
           b == BeginUndo("undoOwn", Reverse(StoredAbove(k - 1)))
<1>1. /\ T # {} /\ ~ (id - k > limit)
      /\ job' = [b EXCEPT !.base = Upto(host, k - 1), !.new = Upto(host, id),
                          !.hash = NoTx, !.kept = job.hash]
  BY DEF GetBlocks
<1>2. /\ host \in Seq(Payloads) /\ Len(host) \in Nat /\ id \in Ids /\ Len(Upto(host, id)) = id
  BY PeerFacts
<1>3. k \in 2 .. id
  <2>1. id \in Nat /\ T \in SUBSET (0 .. id)
    BY <1>2 DEF Ids, ForkPoints
  <2>2. k \in T
    BY <1>1, <2>1, Greatest
  <2> QED
    BY <2>2 DEF ForkPoints
<1>4. k - 1 \in 1 .. Len(host) /\ id \in Nat
  BY <1>2, <1>3 DEF Ids
<1>5. Len(Upto(host, k - 1)) = k - 1
  BY <1>4, PeerFacts
<1>6. IsJob(b) /\ b.mode = "undoOwn"
  BY BeginUndoKeeps
<1> HIDE DEF T, k, b
<1>7. job'.mode = "undoOwn" /\ job'.base = Upto(host, k - 1) /\ job'.new = Upto(host, id)
  BY <1>1, <1>6 DEF IsJob, JobFields
<1>8. Len(job'.new) - Len(job'.base) <= limit + 1
  BY <1>1, <1>2, <1>3, <1>4, <1>5, <1>7
<1> QED
  BY <1>2, <1>7, <1>8

-----------------------------------------------------------------------------
(* Steps that leave the chain as it is.                                    *)

LEMMA StillFirm ==
    ASSUME Firm, rows' = rows, job' = job
    PROVE  Firm' /\ Standing' = Standing
<1>1. Standing' = Standing
  BY StandingStays
<1>2. Checked'
  BY DEF Firm, Checked, Cur
<1>3. Sized'
  BY <1>1 DEF Firm, Sized
<1> QED
  BY <1>1, <1>2, <1>3, FirmStays

LEMMA WithinFirm ==
    ASSUME IsJob(job), Firm, WithinBlock
    PROVE  Firm' /\ Standing' = Standing
<1>1. /\ SameTask /\ Cur' = Cur
      /\ job.step \in {"header"} \cup Within /\ job'.step \in {"error"} \cup Within
      /\ job.step # "header" => job.step \in Within
  BY WithinTask
<1>2. Standing' = Standing
  BY <1>1, StandingStays DEF SameTask
<1>3. Sized'
  BY <1>1, <1>2, SizedStays DEF SameTask
<1>4. ASSUME job'.step \in Within, job.mode \in AddModes \cup {"fork"} PROVE ~Last(Cur).bad
  <2>1. CASE job.step \in Within
    BY <1>4, <2>1 DEF Firm, Checked
  <2>2. CASE job.step = "header"
    <3>1. CheckHeader
      BY <2>2 DEF WithinBlock, MarkTx, ExecTx, FrontFails, InitFails, MainFails, RollbackTo, LogTx
    <3>2. GoodHeader(Cur)
      <4> SUFFICES ASSUME ~ GoodHeader(Cur) PROVE job'.step = "error"
        BY <1>4 DEF Within
      <4>1. job' = [job EXCEPT !.step = "error"]
        BY <3>1 DEF CheckHeader
      <4> QED
        BY <4>1 DEF IsJob, JobFields
    <3> QED
      BY <3>2 DEF GoodHeader
  <2> QED
    BY <1>1, <2>1, <2>2
<1>5. "error" \notin Within \cup {"row"} /\ "row" \notin Within
  BY DEF Within
<1>6. Checked'
  BY <1>1, <1>4, <1>5 DEF Firm, Checked, SameTask
<1> QED
  BY <1>2, <1>3, <1>6, FirmStays

LEMMA UndoingFirm ==
    ASSUME IsJob(job), Fits, Fits', Firm, UnlogTx \/ UndoTx \/ UndoneBlock
    PROVE  Firm' /\ Standing' = Standing
<1>1. /\ job'.mode = job.mode /\ job'.new = job.new /\ job'.base = job.base /\ job'.at = job.at
      /\ info' = info /\ job.step \in UndoSteps
  <2>1. CASE UnlogTx \/ UndoTx
    BY <2>1, UndoingSteps DEF SameTask
  <2>2. CASE UndoneBlock
    BY <2>2, BeginUndoKeeps DEF UndoneBlock, UndoSteps
  <2> QED
    BY <2>1, <2>2
<1>2. job.mode \notin AddModes \cup {"fork"}
  <2>1. job.step \notin {"form", "header", "error", "row"} \cup Within
    BY <1>1 DEF UndoSteps, Within
  <2> QED
    BY <2>1 DEF Fits, Adding, Replacing
<1>3. Standing' = Standing
  <2>1. CASE job.mode = "reset"
    <3>1. Standing = Upto(info.blk, job.at)
      BY <2>1, Stands
    <3>2. (job.mode = "reset" => Standing = Upto(info.blk, job.at))'
      BY Stands, PTL
    <3> QED
      BY <1>1, <2>1, <3>1, <3>2
  <2>2. CASE job.mode # "reset"
    <3>1. rows' = rows
      BY <2>2 DEF UnlogTx, UndoTx, UndoneBlock, chainVars
    <3> QED
      BY <1>1, <3>1, StandingStays
  <2> QED
    BY <2>1, <2>2
<1>4. Checked' /\ Sized'
  BY <1>1, <1>2, <1>3, UncheckedModes, SizedStays
<1> QED
  BY <1>3, <1>4, FirmStays

(* A step between two modes in which the stored blocks are the chain.      *)
LEMMA MovesFirm ==
    ASSUME Firm, rows' = rows, job.mode \notin {"commit", "reset"},
           \/ job'.mode \in {"none", "loop"}
           \/ job'.mode \in AddModes /\ job'.step \in {"form", "header"}
    PROVE  Firm' /\ Standing' = Standing
<1>1. Standing' = Standing
  BY StandingStays DEF AddModes
<1>2. Checked'
  BY UncheckedModes, UncheckedSteps DEF AddModes, Within
<1>3. Sized'
  BY <1>1, SizedStays DEF ForkModes, AddModes
<1> QED
  BY <1>1, <1>2, <1>3, FirmStays

LEMMA NoJobMode == NoJob.mode = "none"
BY DEF NoJob

LEMMA AddingFirm ==
    ASSUME IsJob(job), Firm,
           \/ StopCollect \/ StartGenerate \/ FormBlock \/ BlockRefused
           \/ \E host \in PeerChains : StartCollect(host)
    PROVE  Firm' /\ Standing' = Standing
<1>1. rows' = rows /\ job.mode \in {"none", "loop"} \cup AddModes
  BY DEF StopCollect, StartGenerate, FormBlock, BlockRefused, StartCollect, Idle, At, chainVars,
         AddModes
<1>2. \/ job'.mode \in {"none", "loop"}
      \/ job'.mode \in AddModes /\ job'.step \in {"form", "header"}
  <2>1. \A mode, step, todo : LET b == Begin(mode, step, todo) IN b.mode = mode /\ b.step = step
    BY BeginKeeps
  <2>2. CASE StopCollect
    BY <2>2, NoJobMode DEF StopCollect
  <2>3. CASE StartGenerate
    BY <2>1, <2>3 DEF StartGenerate, AddModes
  <2>4. CASE FormBlock
    BY <2>1, <2>4 DEF FormBlock, AddModes
  <2>5. CASE BlockRefused
    BY <2>1, <2>5, NoJobMode DEF BlockRefused, AddModes
  <2>6. CASE \E host \in PeerChains : StartCollect(host)
    BY <2>6 DEF StartCollect, NoJob
  <2> QED
    BY <2>2, <2>3, <2>4, <2>5, <2>6
<1> QED
  BY <1>1, <1>2, MovesFirm DEF AddModes

LEMMA FetchingFirm ==
    ASSUME IsJob(job), Fits, Firm,
           \/ CollectNext
           \/ \E host \in PeerChains : \E id \in 2 .. Len(host) : ParseBlockQueue(host, id)
    PROVE  Firm' /\ Standing' = Standing
<1>1. rows' = rows /\ job.mode \in {"none", "loop"}
  BY DEF CollectNext, ParseBlockQueue, Idle, chainVars
<1>2. Standing = info.blk /\ Stored(info.blk)
  BY <1>1, Stands DEF Fits, Waiting
<1>3. Len(info.blk) \in Nat
  BY <1>2, BlockFacts DEF Stored
<1>4. ASSUME NEW host \in PeerChains, NEW id \in 1 .. Len(host), NEW limit \in Nat,
             GetBlocks(host, id, limit),
             \/ limit = RB1 /\ id > Len(info.blk)
             \/ limit = RB2 /\ id = Len(info.blk)
      PROVE  Firm' /\ Standing' = Standing
  <2>1. CASE job' = NoJob
    BY <1>1, <2>1, MovesFirm DEF NoJob
  <2>2. CASE job' # NoJob
    <3>1. /\ job'.mode = "undoOwn" /\ Len(job'.new) = id
          /\ Len(job'.new) - Len(job'.base) <= limit + 1
      BY <1>4, <2>2, ForkSize
    <3>2. Standing' = Standing
      BY <1>1, <3>1, StandingStays
    <3>3. Fitting(Len(info.blk), job'.base, job'.new)
      BY <1>4, <3>1 DEF Fitting
    <3>4. Sized'
      BY <1>2, <3>2, <3>3 DEF Sized, Fitting
    <3>5. Checked'
      BY <3>1, UncheckedModes DEF AddModes
    <3> QED
      BY <3>2, <3>4, <3>5, FirmStays
  <2> QED
    BY <2>1, <2>2
<1>5. CASE CollectNext
  <2>1. CASE job' = Begin("collect", "header", <<Upto(job.host, job.at)>>)
    <3>1. job'.mode = "collect" /\ job'.step = "header"
      BY <2>1, BeginKeeps
    <3> QED
      BY <1>1, <3>1, MovesFirm DEF AddModes
  <2>2. CASE GetBlocks(job.host, job.at - 1, RB2)
    <3>1. job.host \in PeerChains /\ job.at = Len(info.blk) + 1 /\ job.at <= Len(job.host)
      BY <1>5, WaitingFacts DEF CollectNext
    <3>2. job.at - 1 \in 1 .. Len(job.host) /\ job.at - 1 = Len(info.blk)
      <4>1. Len(job.host) \in Nat /\ Len(info.blk) >= 1
        BY <1>2, <3>1, BlockFacts, ChainsAssumption, LenProperties DEF Stored, Chains
      <4> QED
        BY <1>3, <3>1, <4>1
    <3> QED
      BY <1>4, <2>2, <3>1, <3>2, BoundsAssumption
  <2> QED
    BY <1>5, <2>1, <2>2 DEF CollectNext
<1>6. CASE \E host \in PeerChains : \E id \in 2 .. Len(host) : ParseBlockQueue(host, id)
  <2>1. PICK host \in PeerChains : \E id \in 2 .. Len(host) : ParseBlockQueue(host, id)
    BY <1>6
  <2>2. PICK id \in 2 .. Len(host) : ParseBlockQueue(host, id)
    BY <2>1
  <2>3. GetBlocks(host, id, RB1) /\ id > Len(info.blk) /\ id \in 1 .. Len(host)
    BY <2>2 DEF ParseBlockQueue
  <2> QED
    BY <1>4, <2>3, BoundsAssumption
<1> QED
  BY <1>5, <1>6

LEMMA SwitchingFirm ==
    ASSUME IsJob(job), Firm, Fits, ApplyFork \/ UndoFork \/ RestoreOwn \/ RestoreInfo
    PROVE  Firm' /\ Standing' = Standing
<1>1. /\ job.mode \in ForkModes /\ rows' = rows
  BY DEF ApplyFork, UndoFork, RestoreOwn, RestoreInfo, At, chainVars, ForkModes
<1>2. CASE RestoreInfo
  BY <1>1, <1>2, MovesFirm DEF RestoreInfo, NoJob, ForkModes
<1>3. CASE ApplyFork \/ UndoFork \/ RestoreOwn
  <2>1. job'.mode \in ForkModes /\ job'.base = job.base /\ job'.new = job.new
    BY <1>3, BeginKeeps, BeginUndoKeeps DEF ApplyFork, UndoFork, RestoreOwn, ForkModes
  <2>2. Standing' = Standing
    BY <1>1, <2>1, StandingStays DEF ForkModes
  <2>3. Sized'
    BY <1>1, <2>1, <2>2, SizedStays
  <2>4. CASE UndoFork \/ RestoreOwn
    <3>1. job'.mode \in {"undoNew", "restore"}
      BY <2>4, BeginKeeps, BeginUndoKeeps DEF UndoFork, RestoreOwn
    <3> QED
      BY <2>2, <2>3, <3>1, FirmStays, UncheckedModes DEF AddModes
  <2>5. CASE ApplyFork
    <3>1. job'.mode = "fork" /\ job'.step = "header" /\ job'.todo = Between(job.base, job.new)
      BY <2>5, BeginKeeps DEF ApplyFork
    <3>2. Len(job.new) \in Nat /\ Len(job.base) \in Nat /\ Len(job.base) <= Len(job.new)
      BY <1>1, BlockFacts DEF Fits, Replacing, Target
    <3>3. Len(job'.todo) = Len(job.new) - Len(job.base)
      <4>1. Len(job.new) - Len(job.base) \in Nat
        BY <3>2
      <4> QED
        BY <3>1, <4>1 DEF Between
    <3>4. (Len(job'.base) + 1) .. (Len(job'.new) - Len(job'.todo)) = {}
      BY <2>1, <3>2, <3>3
    <3>5. Checked'
      BY <3>1, <3>4 DEF Checked, AddModes, Within
    <3> QED
      BY <2>2, <2>3, <3>5, FirmStays
  <2> QED
    BY <1>3, <2>4, <2>5
<1> QED
  BY <1>2, <1>3

LEMMA UpdatedFirm ==
    ASSUME Inv, Fits, Keeps, Firm, UpdBlockInfo
    PROVE  Firm' /\ Standing' = Standing
<1>1. /\ IsJob(job) /\ rows' = rows /\ job.mode \in ApplyModes /\ job.step = "info"
      /\ job.todo # <<>>
  BY DEF Inv, JobInv, AtWork, UpdBlockInfo
<1>2. CASE job.mode \in AddModes
  <2>1. job' = [job EXCEPT !.step = "row"]
    BY <1>2 DEF UpdBlockInfo, AddModes
  <2>2. /\ job'.mode = job.mode /\ job'.step = "row" /\ job'.new = job.new /\ job'.at = job.at
        /\ Cur' = Cur
    BY <1>1, <2>1 DEF IsJob, JobFields, Cur
  <2>3. Standing' = Standing
    BY <1>1, <2>2, StandingStays
  <2>4. ~Last(Cur).bad
    BY <1>1, <1>2 DEF Firm, Checked, Within
  <2>5. Checked'
    BY <1>2, <2>2, <2>4 DEF Checked, AddModes
  <2>6. Sized'
    BY <1>2, <2>2, <2>3, SizedStays DEF AddModes, ForkModes
  <2> QED
    BY <2>3, <2>5, <2>6, FirmStays
<1>3. CASE job.mode \in {"fork", "restore"}
  <2>1. job' = [job EXCEPT !.step = "header", !.todo = Tail(job.todo)]
    BY <1>3 DEF UpdBlockInfo
  <2>2. /\ job'.mode = job.mode /\ job'.step = "header" /\ job'.new = job.new /\ job'.at = job.at
        /\ job'.base = job.base /\ job'.todo = Tail(job.todo)
    BY <1>1, <2>1 DEF IsJob, JobFields
  <2>3. Standing' = Standing /\ Sized'
    BY <1>1, <1>3, <2>2, StandingStays, SizedStays DEF ForkModes
  <2>4. CASE job.mode = "restore"
    BY <2>2, <2>3, <2>4, FirmStays, UncheckedModes DEF AddModes
  <2>5. CASE job.mode = "fork"
    <3>1. PICK new : new = job.new
      OBVIOUS
    <3>2. PICK own : HasOwn(own) /\ Applies(new)
      BY <2>5, <3>1 DEF Keeps, ForkTxs, Replaces, ForkModes
    <3>3. new \in Seq(Payloads) /\ Len(job.base) \in 1 .. Len(new) /\ Len(job.base) \in Nat
      BY <2>5, <3>1, <3>2, OwnFacts, LenProperties DEF ForkModes
    <3>4. PICK n \in Len(job.base) .. Len(new) :
              /\ n \in Nat /\ Len(new) \in Nat
              /\ job.todo = Upwards(new, n)
              /\ job.todo = <<>> <=> n = Len(new)
              /\ n < Len(new) => /\ n \in 0 .. Len(new) - 1 /\ Cur = Upto(new, n + 1)
                                 /\ Tail(job.todo) = Upwards(new, n + 1)
      BY <3>2, <3>3, UpTodo
    <3>5. /\ n < Len(new) /\ Cur = Upto(new, n + 1) /\ job'.todo = Upwards(new, n + 1)
          /\ n + 1 \in 0 .. Len(new) /\ n + 1 \in 1 .. n + 1
      BY <1>1, <2>2, <3>4
    <3>6. Len(new) - Len(job.todo) = n /\ Len(new) - Len(job'.todo) = n + 1
      <4>1. \A k \in 0 .. Len(new) : Len(Upwards(new, k)) = Len(new) - k
        <5> SUFFICES ASSUME NEW k \in 0 .. Len(new) PROVE Len(Upwards(new, k)) = Len(new) - k
          OBVIOUS
        <5>1. Len(new) - k \in Nat
          BY <3>4
        <5> QED
          BY <5>1 DEF Upwards
      <4>2. n \in 0 .. Len(new) /\ Len(job.todo) = Len(new) - n
        BY <3>4, <4>1
      <4>3. Len(job'.todo) = Len(new) - (n + 1)
        BY <3>5, <4>1
      <4> QED
        BY <3>4, <4>2, <4>3
    <3>7. Last(Cur) = new[n + 1]
      <4>1. Len(Cur) = n + 1 /\ Cur[n + 1] = new[n + 1]
        BY <3>3, <3>5, UptoFacts
      <4> QED
        BY <4>1 DEF Last
    <3>8. ~new[n + 1].bad
      BY <1>1, <2>5, <3>7 DEF Firm, Checked, Within
    <3>9. \A i \in (Len(job.base) + 1) .. n : ~new[i].bad
      BY <2>5, <3>1, <3>6 DEF Firm, Checked
    <3>10. \A i \in (Len(job.base) + 1) .. (n + 1) : ~new[i].bad
      <4>1. \A i \in (Len(job.base) + 1) .. (n + 1) : i \in (Len(job.base) + 1) .. n \/ i = n + 1
        BY <3>3, <3>4
      <4> QED
        BY <3>8, <3>9, <4>1
    <3>11. Checked'
      BY <2>2, <2>5, <3>1, <3>6, <3>10 DEF Checked, AddModes, Within
    <3> QED
      BY <2>3, <3>11, FirmStays
  <2> QED
    BY <1>3, <2>4, <2>5
<1> QED
  BY <1>1, <1>2, <1>3 DEF ApplyModes, AddModes

LEMMA CommittingFirm ==
    ASSUME Inv, Fits, Fits', Firm, CommitInfo \/ CommitRow \/ Committed
    PROVE  Firm' /\ Standing' = Standing
<1>1. IsJob(job) /\ job.mode = "commit" /\ Standing = job.new
  BY Stands DEF Inv, JobInv, AtWork, CommitInfo, CommitRow, Committed, At
<1>2. CASE CommitInfo \/ CommitRow
  <2>1. job'.mode = "commit" /\ job'.new = job.new
    BY <1>1, <1>2 DEF CommitInfo, CommitRow, IsJob, JobFields
  <2>2. Standing' = Standing
    BY <1>1, <2>1 DEF Standing
  <2> QED
    BY <2>1, <2>2, FirmStays, UncheckedModes, SizedStays DEF AddModes, ForkModes
<1>3. CASE Committed
  <2>1. info' = info /\ job.todo = <<>>
    BY <1>3 DEF Committed, chainVars
  <2>2. info.blk = job.new
    <3>1. PICK n \in Len(job.base) .. Len(job.new) :
              /\ job.todo = <<>> => n = Len(job.new)
              /\ job.step = "row" => n < Len(job.new)
              /\ job.step \in {"info", "row"}
              /\ job.step = "info" /\ n = Len(job.new) => info.blk = job.new
      BY <1>1, CommitFacts
    <3>2. Len(job.new) \in Nat
      BY <1>1, CommitFacts
    <3> QED
      BY <2>1, <3>1, <3>2
  <2>3. \/ job'.mode = "none"
        \/ job'.mode = "collect" /\ job'.step = "header"
    <3>1. CASE job' = NoJob
      BY <3>1, NoJobMode
    <3>2. CASE job' = [Begin("collect", "header", <<Upto(job.host, job.at)>>)
                          EXCEPT !.hash = job.kept]
      BY <1>1, <3>2 DEF IsJob, JobFields, Begin
    <3> QED
      BY <1>3, <3>1, <3>2 DEF Committed
  <2>4. (/\ job.mode \in {"none", "loop"} => Standing = info.blk
         /\ job.mode \in AddModes /\ job.step # "row" => Standing = info.blk)'
    BY Stands, PTL
  <2>5. Standing' = Standing
    BY <1>1, <2>1, <2>2, <2>3, <2>4 DEF AddModes
  <2> QED
    BY <2>3, <2>5, FirmStays, UncheckedModes, UncheckedSteps, SizedStays
    DEF AddModes, ForkModes, Within
<1> QED
  BY <1>2, <1>3

LEMMA ResetEndFirm ==
    ASSUME Fits', Firm, ResetInfo
    PROVE  Firm' /\ Standing' = Standing
<1>1. /\ job.mode = "reset" /\ job'.mode = "none" /\ info'.blk = rows[job.at]
  BY DEF ResetInfo, NoJob
<1>2. (job.mode \in {"none", "loop"} => Standing = info.blk)'
  BY Stands, PTL
<1>3. Standing' = Standing
  BY <1>1, <1>2 DEF Standing
<1> QED
  BY <1>1, <1>3, FirmStays, UncheckedModes, SizedStays DEF AddModes, ForkModes

-----------------------------------------------------------------------------
(* Steps that change the chain.                                            *)

Changes == Promise!Valid(Standing)' /\ \E n \in 1 .. Len(Standing) :
               Promise!Grow(n) \/ Promise!Replace(n) \/ Promise!Reset(n)

LEMMA StoringFirm ==
    ASSUME Inv, Unmixed, Peaceful, crashes = 0, Fits, Fits', Keeps, Firm, InsertIntoBlockchain
    PROVE  Firm' /\ Changes
<1>1. /\ IsJob(job) /\ job.mode \in AddModes /\ job.step = "row" /\ info' = info
  BY DEF Inv, JobInv, AtWork, InsertIntoBlockchain, AddModes
<1>2. /\ info.blk = Cur /\ Stored(Front(Cur)) /\ IsBlock(Cur) /\ AllApplied(info.blk)
      /\ Standing = Front(Cur)
  BY <1>1, Stands DEF Fits, Adding, Keeps, AddsTxs
<1>3. PICK c : c = Cur
  OBVIOUS
<1>4. /\ c \in Seq(Payloads) /\ Len(c) \in Nat /\ Len(c) >= 1
      /\ Standing = Upto(c, Len(c) - 1)
  BY <1>2, <1>3, BlockFacts, FrontIsUpto DEF IsBlock
<1>5. PICK n \in 1 .. Len(c) : /\ Len(c) = n + 1 /\ n \in 0 .. Len(c) /\ Standing = Upto(c, n)
                              /\ Len(Standing) = n /\ n \in Nat
  <2>1. Len(c) - 1 \in 0 .. Len(c) /\ Len(c) = (Len(c) - 1) + 1
    BY <1>4
  <2>2. Len(Upto(c, Len(c) - 1)) = Len(c) - 1
    BY <1>4, <2>1, UptoFacts
  <2>3. Len(c) - 1 >= 1
    BY <1>2, <1>4, <2>2, BlockFacts DEF Stored
  <2>4. PICK n : n = Len(c) - 1
    OBVIOUS
  <2>5. n \in 1 .. Len(c) /\ Len(c) = n + 1 /\ n \in Nat
    BY <1>4, <2>3, <2>4
  <2> QED
    BY <1>4, <2>1, <2>2, <2>4, <2>5
<1>6. job'.mode \in {"none", "loop"}
  <2>1. CASE job' = NoJob
    BY <2>1, NoJobMode
  <2>2. CASE job' = [Begin("loop", "", <<>>) EXCEPT !.at = Len(Cur) + 1]
    BY <1>1, <2>2 DEF IsJob, JobFields, Begin
  <2> QED
    BY <2>1, <2>2 DEF InsertIntoBlockchain
<1>7. Standing' = c
  <2>1. (job.mode \in {"none", "loop"} => Standing = info.blk)'
    BY Stands, PTL
  <2> QED
    BY <1>1, <1>2, <1>3, <1>6, <2>1
<1>8. Promise!Valid(c)
  <2>1. Promise!Spendable(ChainTxs(c))
    BY <1>2, <1>3, AppliedIsSpendable DEF AllApplied
  <2>2. Last(c) = c[n + 1] /\ ~Last(c).bad
    BY <1>1, <1>3, <1>5 DEF Firm, Checked, Last
  <2>3. \A i \in 2 .. n : ~c[i].bad
    <3>1. Good(Upto(c, n))
      BY <1>5, ValidFacts DEF Firm
    <3>2. \A i \in 1 .. n : Upto(c, n)[i] = c[i]
      BY <1>4, <1>5, UptoFacts
    <3>3. \A i \in 2 .. n : i \in 1 .. n
      BY <1>5
    <3> QED
      BY <1>5, <3>1, <3>2, <3>3 DEF Good
  <2>4. Good(c)
    <3>1. \A i \in 2 .. n + 1 : i \in 2 .. n \/ i = n + 1
      BY <1>5
    <3> QED
      BY <1>5, <2>2, <2>3, <3>1 DEF Good
  <2> QED
    BY <2>1, <2>4, ValidFacts
<1>9. Promise!Grow(n)
  <2>1. SubSeq(c, 1, n) = SubSeq(Standing, 1, n)
    BY <1>4, <1>5, UptoUpto DEF Upto
  <2>2. Len(c) - n <= RB1 + 1
    BY <1>4, <1>5, BoundsAssumption
  <2> QED
    BY <1>5, <1>7, <2>1, <2>2 DEF Promise!Grow, Promise!Branch
<1>10. Promise!Valid(Standing)'
  BY <1>7, <1>8
<1>11. Checked' /\ Sized'
  BY <1>6, UncheckedModes DEF Sized, AddModes, ForkModes
<1> QED
  BY <1>5, <1>9, <1>10, <1>11 DEF Firm, Changes

LEMMA SwitchedFirm ==
    ASSUME Inv, Unmixed, Peaceful, crashes = 0, Fits, Fits', Keeps, Keeps', Firm, DropOwn
    PROVE  Firm' /\ Changes
<1>1. /\ IsJob(job) /\ job.mode = "fork" /\ job.todo = <<>> /\ ledger' = ledger
  BY DEF Inv, JobInv, AtWork, DropOwn
<1>2. job'.mode = "commit" /\ job'.new = job.new
  BY <1>1, BeginKeeps DEF DropOwn
<1>3. PICK own, new : own = Standing /\ new = job.new
  OBVIOUS
<1>4. /\ HasOwn(own) /\ own \in Seq(Payloads) /\ new \in Seq(Payloads)
      /\ Len(job.base) \in 1 .. Len(own) /\ Len(job.base) \in 1 .. Len(new)
      /\ Upto(own, Len(job.base)) = Upto(new, Len(job.base))
      /\ Len(own) \in Nat /\ Len(new) \in Nat /\ Stored(own)
  <2>1. PICK o : HasOwn(o)
    BY <1>1 DEF Fits, Replacing, ForkModes
  <2>2. o = own
    BY <1>1, <1>3, <2>1, Stands DEF ForkModes
  <2> QED
    BY <1>1, <1>3, <2>1, <2>2, OwnFacts, LenProperties DEF ForkModes
<1>5. PICK m \in 1 .. Len(own) : /\ m = Len(job.base) /\ m \in 1 .. Len(new) /\ m \in Nat
                                /\ m \in 0 .. Len(own) /\ m \in 0 .. Len(new)
  BY <1>4
<1>6. Standing' = new
  BY <1>2, <1>3 DEF Standing
<1>7. ledger = EffectsOf(ChainTxs(new))
  BY <1>1, <1>2, <1>3 DEF Keeps, AllApplied, EffectsOf
<1>8. Good(new)
  <2>1. \A i \in (m + 1) .. Len(new) : ~new[i].bad
    <3>1. Len(new) - Len(job.todo) = Len(new)
      BY <1>1, <1>4
    <3> QED
      BY <1>1, <1>3, <1>5, <3>1 DEF Firm, Checked
  <2>2. \A i \in 2 .. m : ~new[i].bad
    <3>1. Good(own)
      BY <1>3, ValidFacts DEF Firm
    <3>2. \A i \in 1 .. m : Upto(own, m)[i] = own[i] /\ Upto(new, m)[i] = new[i]
      BY <1>4, <1>5, UptoFacts
    <3>3. \A i \in 2 .. m : i \in 1 .. m /\ i \in 2 .. Len(own)
      BY <1>4, <1>5
    <3> QED
      BY <1>4, <1>5, <3>1, <3>2, <3>3 DEF Good
  <2>3. \A i \in 2 .. Len(new) : i \in 2 .. m \/ i \in (m + 1) .. Len(new)
    BY <1>4, <1>5
  <2> QED
    BY <2>1, <2>2, <2>3 DEF Good
<1>9. Promise!Valid(new)
  BY <1>7, <1>8, AppliedIsSpendable, ValidFacts
<1>10. Promise!Grow(m) \/ Promise!Replace(m)
  <2>1. SubSeq(new, 1, m) = SubSeq(own, 1, m)
    BY <1>4, <1>5 DEF Upto
  <2>2. Fitting(Len(own), job.base, new)
    BY <1>1, <1>3 DEF Firm, Sized, ForkModes
  <2> QED
    BY <1>3, <1>5, <1>6, <2>1, <2>2
    DEF Fitting, Promise!Grow, Promise!Replace, Promise!Branch
<1>11. Promise!Valid(Standing)'
  BY <1>6, <1>9
<1>12. Checked' /\ Sized'
  BY <1>2, UncheckedModes DEF Sized, AddModes, ForkModes
<1> QED
  BY <1>3, <1>5, <1>10, <1>11, <1>12 DEF Firm, Changes

LEMMA ResettingFirm ==
    ASSUME Fits, Fits', Firm, NEW id \in Ids, StartReset(id)
    PROVE  Firm' /\ Changes
<1>1. /\ IsJob(job) /\ Stored(info.blk) /\ rows' = rows /\ info' = info
      /\ rows[id] # NoBlock /\ Standing = info.blk
  BY WaitingFacts, Stands DEF StartReset, Idle, chainVars
<1>2. PICK c : c = info.blk
  OBVIOUS
<1>3. c \in Seq(Payloads) /\ Len(c) \in Nat /\ id \in 1 .. Len(c)
  <2>1. id <= Len(c) /\ Len(c) \in Nat
    BY <1>1, <1>2, StoredFacts, BlockFacts DEF Stored
  <2> QED
    BY <1>1, <1>2, <2>1 DEF Ids, Stored, IsBlock
<1>4. job'.mode = "reset" /\ job'.at = id
  <2> DEFINE b == BeginUndo("reset", Reverse(StoredAbove(id)))
  <2>1. IsJob(b) /\ b.mode = "reset"
    BY <1>1, BeginUndoKeeps
  <2>2. job' = [b EXCEPT !.at = id]
    BY DEF StartReset
  <2> HIDE DEF b
  <2> QED
    BY <2>1, <2>2 DEF IsJob, JobFields
<1>5. Standing' = Upto(c, id)
  <2>1. (job.mode = "reset" => Standing = Upto(info.blk, job.at))'
    BY Stands, PTL
  <2> QED
    BY <1>1, <1>2, <1>4, <2>1
<1>6. Promise!Valid(Upto(c, id))
  BY <1>1, <1>2, <1>3, PrefixIsValid DEF Firm
<1>7. Promise!Valid(Standing)'
  BY <1>5, <1>6
<1>8. Promise!Reset(id) /\ id \in 1 .. Len(Standing)
  BY <1>1, <1>2, <1>3, <1>5 DEF Promise!Reset, Upto
<1>9. Checked' /\ Sized'
  BY <1>4, UncheckedModes DEF Sized, AddModes, ForkModes
<1> QED
  BY <1>7, <1>8, <1>9 DEF Firm, Changes

-----------------------------------------------------------------------------
(* All steps.                                                              *)

LEMMA StepFirm ==
    ASSUME Inv, ChainInv, ChainInv', KeepInv, KeepInv', FirmInv, [Next]_vars, incidents' = {}
    PROVE  Firm' /\ (Standing' = Standing \/ Changes)
<1>1. incidents = {} /\ Unmixed
  BY IncidentsGrow DEF Unmixed
<1>2. Fits /\ Fits' /\ Keeps /\ Keeps' /\ crashes = 0 /\ IsJob(job) /\ Firm /\ Peaceful
  BY <1>1 DEF ChainInv, Tidy, KeepInv, Inv, JobInv, AtWork, FirmInv
<1>3. CASE WithinBlock
  BY <1>2, <1>3, WithinFirm
<1>4. CASE ForkPanics \/ RestoreFails \/ Crashes
  BY <1>4, CrashIncidents DEF ForkPanics, RestoreFails
<1>5. CASE JobStep /\ ~ WithinBlock
  BY <1>1, <1>2, <1>4, <1>5, AddingFirm, FetchingFirm, SwitchingFirm, UpdatedFirm, UndoingFirm,
     CommittingFirm, ResetEndFirm, StoringFirm, SwitchedFirm DEF JobStep, WithinBlock
<1>6. CASE StartJob
  BY <1>2, <1>6, AddingFirm, FetchingFirm, ResettingFirm DEF StartJob
<1>7. CASE ParseQueue \/ UNCHANGED vars \/ \E t \in Tx : Submit(t) \/ UpdFullNodes(t)
  BY <1>2, <1>7, StillFirm DEF ParseQueue, vars, Submit, UpdFullNodes, chainVars
<1> QED
  BY <1>3, <1>4, <1>5, <1>6, <1>7 DEF Next

LEMMA StepIsFirm ==
    Inv /\ ChainInv /\ ChainInv' /\ KeepInv /\ KeepInv' /\ FirmInv /\ [Next]_vars => FirmInv'
<1> SUFFICES ASSUME Inv, ChainInv, ChainInv', KeepInv, KeepInv', FirmInv, [Next]_vars,
                    incidents' = {}
             PROVE  Peaceful' /\ Firm'
  BY DEF FirmInv
<1>1. incidents = {}
  BY IncidentsGrow
<1> QED
  BY <1>1, StepFirm, PeacefulStays DEF FirmInv

LEMMA InitFirm ==
    ASSUME Init PROVE FirmInv /\ Promise!Init
<1>1. Fits
  BY StartFits
<1>2. Standing = <<Genesis>> /\ job.mode = "none" /\ crashes = 0
  BY <1>1, Stands DEF Init, NoJob
<1>3. Peaceful
  BY DEF Init, Peaceful
<1>4. Promise!Spendable(ChainTxs(<<Genesis>>))
  <2>1. Keeps /\ Inv /\ Unmixed
    BY StartKeeps, Starts DEF KeepInv, Init, Unmixed
  <2>2. ledger = EffectsOf(ChainTxs(<<Genesis>>))
    BY <1>2, <2>1 DEF Keeps, AllApplied, Init
  <2> QED
    BY <1>2, <1>3, <2>1, <2>2, AppliedIsSpendable
<1>5. Good(<<Genesis>>)
  BY DEF Good
<1>6. Promise!Valid(Standing)
  BY <1>2, <1>4, <1>5, ValidFacts
<1>7. Checked /\ Sized
  BY <1>2 DEF Checked, Sized, AddModes, ForkModes
<1> QED
  BY <1>2, <1>3, <1>6, <1>7 DEF FirmInv, Firm, Promise!Init, Init

LEMMA FirmHolds == Spec => [](Inv /\ ChainInv /\ KeepInv /\ FirmInv)
<1>1. Init => FirmInv
  BY InitFirm
<1> QED
  BY <1>1, StepIsFirm, KeptHolds, PTL DEF Spec

LEMMA StepPromise ==
    Inv /\ ChainInv /\ ChainInv' /\ KeepInv /\ KeepInv' /\ FirmInv /\ [Next]_vars =>
        [Promise!Next]_(Promise!vars)
<1> SUFFICES ASSUME Inv, ChainInv, ChainInv', KeepInv, KeepInv', FirmInv, [Next]_vars
             PROVE  [Promise!Next]_(Promise!vars)
  OBVIOUS
<1>1. CASE incidents' # {}
  BY <1>1 DEF Promise!Next, Promise!Damage
<1>2. CASE incidents' = {}
  <2>1. incidents = {}
    BY <1>2, IncidentsGrow
  <2>2. CASE Standing' = Standing
    BY <1>2, <2>1, <2>2 DEF Promise!vars
  <2>3. CASE Changes
    <3>1. Promise!Valid(Standing')
      BY <2>3 DEF Changes
    <3> QED
      BY <1>2, <2>1, <2>3, <3>1 DEF Changes, Promise!Next, Promise!Change
  <2> QED
    BY <1>2, <2>2, <2>3, StepFirm
<1> QED
  BY <1>1, <1>2

(* However its blocks are made, collected, replaced and refused, the node  *)
(* stands on one chain of checked blocks without double or conflicting     *)
(* transactions, which only a reset makes shorter and a fork replaces by   *)
(* at most one block more than its limit, as long as nothing is left half  *)
(* done (GetBlocks, ParseDataFull, CheckBlockHeader, CheckLogTx).          *)
THEOREM ChainKept == Spec => KeepsChain
<1>1. Init => Promise!Init
  BY InitFirm
<1>2. Inv /\ ChainInv /\ ChainInv' /\ KeepInv /\ KeepInv' /\ FirmInv /\ [Next]_vars =>
          [Promise!Next]_(Promise!vars)
  BY StepPromise
<1> QED
  BY <1>1, <1>2, FirmHolds, PTL DEF Spec, KeepsChain, Promise!Spec
=============================================================================
