-------------------------- MODULE BlockStoreProofs --------------------------
(* Proofs about what is applied and what is logged, for any transactions,  *)
(* chains, failures and number of crashes.                                 *)
EXTENDS BlockStore, FiniteSetTheorems, SequenceTheorems, TLAPS

(* The numbers of a set of positions, in order.                            *)
Rank(ids, i) == Cardinality({j \in ids : j <= i})

LEMMA NthFacts ==
    ASSUME NEW n \in Nat, NEW ids \in SUBSET (1 .. n)
    PROVE  /\ IsFiniteSet(ids) /\ Cardinality(ids) \in Nat
           /\ \A k \in 1 .. Cardinality(ids) : Nth(ids, k) \in ids
           /\ \A i \in ids : \E k \in 1 .. Cardinality(ids) : Nth(ids, k) = i
           /\ \A k, l \in 1 .. Cardinality(ids) : Nth(ids, k) = Nth(ids, l) => k = l
<1> DEFINE size == Cardinality(ids)
           below(i) == {j \in ids : j <= i}
           f == [i \in ids |-> Rank(ids, i)]
<1>1. IsFiniteSet(ids) /\ size \in Nat /\ \A i \in ids : i \in Nat
  <2>1. IsFiniteSet(1 .. n)
    BY FS_Interval
  <2>2. IsFiniteSet(ids)
    BY <2>1, FS_Subset
  <2>3. size \in Nat
    BY <2>2, FS_CardinalityType
  <2> QED
    BY <2>2, <2>3
<1>2. \A i \in ids : /\ below(i) \in SUBSET ids /\ IsFiniteSet(below(i))
                     /\ Rank(ids, i) \in Nat /\ Rank(ids, i) = Cardinality(below(i))
  BY <1>1, FS_Subset, FS_CardinalityType DEF Rank
<1>3. ASSUME NEW i \in ids PROVE Rank(ids, i) \in 1 .. size
  <2>1. i \in below(i) /\ below(i) # {}
    OBVIOUS
  <2>2. Cardinality(below(i)) # 0
    BY <1>2, <2>1, FS_EmptySet
  <2>3. Cardinality(below(i)) <= size
    BY <1>1, <1>2, FS_Subset
  <2> QED
    BY <1>1, <1>2, <2>2, <2>3
<1>4. ASSUME NEW i \in ids, NEW j \in ids, i < j PROVE Rank(ids, i) < Rank(ids, j)
  <2>1. below(i) \in SUBSET below(j) /\ j \in below(j) /\ j \notin below(i)
    <3>1. i \in Nat /\ j \in Nat /\ ids \subseteq Nat
      BY <1>1
    <3>2. \A l \in ids : l <= i => l <= j
      BY <1>4, <3>1
    <3>3. ~ (j <= i) /\ j <= j
      BY <1>4, <3>1
    <3> QED
      BY <3>2, <3>3
  <2>2. below(i) # below(j)
    BY <2>1
  <2>3. /\ Cardinality(below(i)) <= Cardinality(below(j))
        /\ Cardinality(below(j)) # Cardinality(below(i))
    <3> HIDE DEF below
    <3> QED
      BY <1>2, <2>1, <2>2, FS_Subset
  <2> QED
    BY <1>2, <2>3
<1>5. \A i, j \in ids : Rank(ids, i) = Rank(ids, j) => i = j
  <2> SUFFICES ASSUME NEW i \in ids, NEW j \in ids, Rank(ids, i) = Rank(ids, j), i # j
               PROVE FALSE
    OBVIOUS
  <2>1. CASE i < j
    <3>1. Rank(ids, i) < Rank(ids, j)
      BY <1>4, <2>1
    <3>2. Rank(ids, i) \in Nat
      BY <1>2
    <3> QED
      BY <3>1, <3>2
  <2>2. CASE j < i
    <3>1. Rank(ids, j) < Rank(ids, i)
      BY <1>4, <2>2
    <3>2. Rank(ids, i) \in Nat
      BY <1>2
    <3> QED
      BY <3>1, <3>2
  <2> QED
    BY <1>1, <2>1, <2>2
<1>6. f \in Injection(ids, 1 .. size)
  BY <1>3, <1>5 DEF Injection, IsInjective
<1>7. f \in Surjection(ids, 1 .. size)
  <2>1. IsFiniteSet(1 .. size) /\ Cardinality(1 .. size) = size
    BY <1>1, FS_Interval
  <2> HIDE DEF f
  <2> QED
    BY <1>6, <2>1, FS_Injection
<1>8. \A k \in 1 .. size : \E i \in ids : Rank(ids, i) = k
  BY <1>7 DEF Surjection
<1>9. \A k \in 1 .. size : Nth(ids, k) \in ids /\ Rank(ids, Nth(ids, k)) = k
  BY <1>8 DEF Nth, Rank
<1>10. ASSUME NEW i \in ids PROVE \E k \in 1 .. size : Nth(ids, k) = i
  BY <1>3, <1>5, <1>9
<1>11. \A k, l \in 1 .. size : Nth(ids, k) = Nth(ids, l) => k = l
  BY <1>9
<1> QED
  BY <1>1, <1>9, <1>10, <1>11

-----------------------------------------------------------------------------
(* The ledger.                                                             *)

IsLedger == \E S : ledger \in Seq(S)

(* No effect of a whole transaction is there twice.                        *)
Distinct ==
    \A i, j \in DOMAIN ledger : ledger[i] = ledger[j] /\ ledger[i].part = "all" => i = j

LEMMA LedgerFacts ==
    ASSUME IsLedger
    PROVE  Len(ledger) \in Nat /\ DOMAIN ledger = 1 .. Len(ledger) /\ IsFiniteSet(Applied)
<1>1. PICK S : ledger \in Seq(S)
  BY DEF IsLedger
<1>2. Len(ledger) \in Nat /\ DOMAIN ledger = 1 .. Len(ledger)
  BY <1>1, LenProperties
<1> DEFINE f == [i \in Whole |-> ledger[i].tx]
<1>3. IsFiniteSet(Whole)
  <2>1. Whole \in SUBSET (1 .. Len(ledger))
    BY <1>2 DEF Whole
  <2>2. IsFiniteSet(1 .. Len(ledger))
    BY <1>2, FS_Interval
  <2> QED
    BY <2>1, <2>2, FS_Subset
<1>4. f \in Surjection(Whole, Applied)
  BY DEF Surjection, Applied
<1>5. IsFiniteSet(Applied)
  <2> HIDE DEF f
  <2> QED
    BY <1>3, <1>4, FS_Surjection
<1> QED
  BY <1>2, <1>5

LEMMA ApplyFacts ==
    ASSUME IsLedger, NEW t, NEW part, Apply(t, part)
    PROVE  /\ IsLedger'
           /\ part \in {"all", "tornAll"} => Applied' = Applied \cup {t}
           /\ part \notin {"all", "tornAll"} => Applied' = Applied
           /\ Distinct /\ (part = "all" => t \notin Applied) => Distinct'
<1> DEFINE e == [tx |-> t, part |-> part]
           len == Len(ledger)
<1>1. PICK S : ledger \in Seq(S)
  BY DEF IsLedger
<1>2. len \in Nat /\ DOMAIN ledger = 1 .. len
  BY LedgerFacts
<1>3. ledger \in Seq(S \cup {e})
  <2>1. ledger \in [1 .. len -> S]
    BY <1>1, LenProperties
  <2> HIDE DEF e
  <2>2. ledger \in [1 .. len -> S \cup {e}]
    BY <2>1
  <2> QED
    BY <1>2, <2>2, SeqDef
<1>4. ledger' = Append(ledger, e)
  BY DEF Apply
<1> HIDE DEF e
<1>5. /\ ledger' \in Seq(S \cup {e}) /\ Len(ledger') = len + 1
      /\ \A i \in 1 .. len : ledger'[i] = ledger[i]
      /\ ledger'[len + 1] = e
  BY <1>3, <1>4, AppendProperties
<1>6. DOMAIN ledger' = 1 .. len + 1
  BY <1>2, <1>5, LenProperties
<1>7. \A i \in 1 .. len + 1 : i \in 1 .. len \/ i = len + 1
  BY <1>2
<1>8. e.tx = t /\ e.part = part
  BY DEF e
<1>9. IsLedger'
  BY <1>5 DEF IsLedger
<1>10. Applied' = {ledger'[i].tx :
                   i \in {j \in 1 .. len + 1 : ledger'[j].part \in {"all", "tornAll"}}}
  BY <1>6 DEF Applied, Whole
<1>11. Applied = {ledger[i].tx : i \in {j \in 1 .. len : ledger[j].part \in {"all", "tornAll"}}}
  BY <1>2 DEF Applied, Whole
<1>12. 1 .. len \subseteq 1 .. len + 1 /\ len + 1 \in 1 .. len + 1
  BY <1>2
<1>13. ASSUME part \in {"all", "tornAll"} PROVE Applied' = Applied \cup {t}
  BY <1>5, <1>7, <1>8, <1>10, <1>11, <1>12, <1>13
<1>14. ASSUME part \notin {"all", "tornAll"} PROVE Applied' = Applied
  BY <1>5, <1>7, <1>8, <1>10, <1>11, <1>12, <1>14
<1>15. ASSUME Distinct, part = "all" => t \notin Applied PROVE Distinct'
  <2> SUFFICES ASSUME NEW i \in 1 .. len + 1, NEW j \in 1 .. len + 1,
                      ledger'[i] = ledger'[j], ledger'[i].part = "all"
               PROVE  i = j
    BY <1>6 DEF Distinct
  <2>1. CASE i \in 1 .. len /\ j \in 1 .. len
    BY <1>2, <1>5, <1>15, <2>1 DEF Distinct
  <2>2. ASSUME NEW k \in 1 .. len, ledger[k] = e PROVE part # "all"
    BY <1>8, <1>11, <1>15, <2>2
  <2> QED
    BY <1>5, <1>7, <1>8, <2>1, <2>2
<1> QED
  BY <1>9, <1>13, <1>14, <1>15

(* Whatever effects are kept, in their order.                              *)
LEMMA KeepFacts ==
    ASSUME IsLedger, NEW kept \in SUBSET DOMAIN ledger, Keep(kept)
    PROVE  /\ IsLedger' /\ Applied' \subseteq Applied /\ (Distinct => Distinct')
           /\ \A u \in Applied' : \E i \in kept : u = ledger[i].tx
           /\ \A i \in kept : i \in Whole => ledger[i].tx \in Applied'
<1> DEFINE size == Cardinality(kept)
<1>1. PICK S : ledger \in Seq(S)
  BY DEF IsLedger
<1>2. Len(ledger) \in Nat /\ DOMAIN ledger = 1 .. Len(ledger) /\ ledger \in [1 .. Len(ledger) -> S]
  BY <1>1, LenProperties
<1>3. kept \in SUBSET (1 .. Len(ledger))
  BY <1>2
<1>4. ledger' = [k \in 1 .. size |-> ledger[Nth(kept, k)]]
  BY DEF Keep
<1>5. /\ size \in Nat
      /\ \A k \in 1 .. size : Nth(kept, k) \in kept
      /\ \A i \in kept : \E k \in 1 .. size : Nth(kept, k) = i
      /\ \A k, l \in 1 .. size : Nth(kept, k) = Nth(kept, l) => k = l
  BY <1>2, <1>3, NthFacts
<1>6. DOMAIN ledger' = 1 .. size /\ \A k \in 1 .. size : ledger'[k] = ledger[Nth(kept, k)]
  BY <1>4
<1>7. IsLedger'
  <2>1. ledger' \in [1 .. size -> S]
    BY <1>2, <1>3, <1>4, <1>5
  <2>2. ledger' \in Seq(S)
    BY <1>5, <2>1, SeqDef
  <2> QED
    BY <2>2 DEF IsLedger
<1>8. ASSUME NEW u \in Applied'
      PROVE  u \in Applied /\ \E i \in kept : u = ledger[i].tx
  <2>1. PICK k \in 1 .. size : ledger'[k].part \in {"all", "tornAll"} /\ u = ledger'[k].tx
    BY <1>6 DEF Applied, Whole
  <2>2. Nth(kept, k) \in kept /\ Nth(kept, k) \in DOMAIN ledger
    BY <1>2, <1>3, <1>5
  <2> QED
    BY <1>6, <2>1, <2>2 DEF Applied, Whole
<1>9. ASSUME NEW i \in kept, i \in Whole PROVE ledger[i].tx \in Applied'
  <2>1. PICK k \in 1 .. size : Nth(kept, k) = i
    BY <1>5
  <2>2. k \in DOMAIN ledger' /\ ledger'[k] = ledger[i]
    BY <1>6, <2>1
  <2> QED
    BY <1>9, <2>2 DEF Applied, Whole
<1>10. ASSUME Distinct PROVE Distinct'
  <2>1. \A k \in 1 .. size : Nth(kept, k) \in DOMAIN ledger
    BY <1>2, <1>3, <1>5
  <2> QED
    BY <1>5, <1>6, <1>10, <2>1 DEF Distinct
<1> QED
  BY <1>7, <1>8, <1>9, <1>10

LEMMA UndoFacts ==
    ASSUME IsLedger, NEW t, NEW incident, Undo(t, incident)
    PROVE  /\ IsLedger'
           /\ Unmixed' => Applied' = Applied \ {t} /\ (Distinct => Distinct')
<1>1. Others(t) \in SUBSET DOMAIN ledger
  BY DEF Others
<1>2. CASE Keep(Others(t))
  <2>1. \A i \in DOMAIN ledger : i \in Others(t) <=> ledger[i].tx # t
    BY DEF Others
  <2>2. /\ IsLedger' /\ Applied' \subseteq Applied /\ (Distinct => Distinct')
        /\ \A u \in Applied' : \E i \in Others(t) : u = ledger[i].tx
        /\ \A i \in Others(t) : i \in Whole => ledger[i].tx \in Applied'
    BY <1>1, <1>2, KeepFacts
  <2>3. \A u \in Applied : \E i \in Whole : u = ledger[i].tx /\ i \in DOMAIN ledger
    BY DEF Applied, Whole
  <2>4. \A u \in Applied : u # t => u \in Applied'
    BY <2>1, <2>2, <2>3
  <2>5. t \notin Applied'
    BY <1>1, <2>1, <2>2
  <2> QED
    BY <2>2, <2>4, <2>5
<1>3. CASE \E kept \in SUBSET DOMAIN ledger :
               Keep(kept) /\ incidents' = incidents \cup incident \cup {"mixed"}
  BY <1>3, KeepFacts DEF Unmixed
<1> QED
  BY <1>2, <1>3 DEF Undo

LEMMA TearFacts ==
    ASSUME IsLedger, NEW t, Tear(t)
    PROVE  IsLedger' /\ Applied' \subseteq Applied /\ Applied \ {t} \subseteq Applied'
<1>1. PICK S : ledger \in Seq(S)
  BY DEF IsLedger
<1>2. Len(ledger) \in Nat /\ DOMAIN ledger = 1 .. Len(ledger) /\ ledger \in [1 .. Len(ledger) -> S]
  BY <1>1, LenProperties
<1>3. PICK i \in SUBSET Whole :
          ledger' = [k \in DOMAIN ledger |->
              IF ledger[k].tx # t THEN ledger[k]
              ELSE [tx |-> t, part |-> IF k \in i THEN "tornAll" ELSE "tornSome"]]
  BY DEF Tear
<1> DEFINE T == S \cup {[tx |-> t, part |-> "tornAll"], [tx |-> t, part |-> "tornSome"]}
<1>4. DOMAIN ledger' = DOMAIN ledger /\ ledger' \in [1 .. Len(ledger) -> T]
  BY <1>2, <1>3
<1>5. IsLedger'
  <2> HIDE DEF T
  <2>1. ledger' \in Seq(T)
    BY <1>2, <1>4, SeqDef
  <2> QED
    BY <2>1 DEF IsLedger
<1>6. \A k \in DOMAIN ledger :
          /\ ledger'[k].tx = ledger[k].tx
          /\ ledger[k].tx # t => ledger'[k] = ledger[k]
          /\ ledger[k].tx = t /\ ledger'[k].part \in {"all", "tornAll"} => k \in Whole
  BY <1>3
<1>7. ASSUME NEW k \in Whole' PROVE k \in Whole /\ ledger'[k].tx = ledger[k].tx
  BY <1>4, <1>6 DEF Whole
<1>8. ASSUME NEW k \in Whole, ledger[k].tx # t PROVE k \in Whole' /\ ledger'[k].tx = ledger[k].tx
  BY <1>4, <1>6, <1>8 DEF Whole
<1> QED
  BY <1>5, <1>7, <1>8 DEF Applied

-----------------------------------------------------------------------------
(* Jobs.                                                                   *)

JobFields == {"mode", "step", "todo", "pos", "base", "new", "host", "at", "hash", "kept"}

IsJob(j) == DOMAIN j = JobFields

(* A job that is at a transaction has a block.                             *)
AtWork(j) ==
    /\ IsJob(j)
    /\ j.mode \in {"none", "loop"} => j.step = ""
    /\ j.step \in {"mark", "exec", "rollback", "log", "undo"} => j.todo # <<>>
    /\ j.step = "unlog" /\ j.pos > 0 => j.todo # <<>>

JobInv == AtWork(job)

(* The steps at which what is applied and what is logged may differ.       *)
Critical(j) == j.step \in {"exec", "rollback", "log", "undo"}

LEMMA NoJobFacts ==
    IsJob(NoJob) /\ AtWork(NoJob) /\ ~ Critical(NoJob)
BY DEF NoJob, IsJob, JobFields, AtWork, Critical

LEMMA BeginFacts ==
    ASSUME IsJob(job), NEW mode, NEW step, NEW todo
    PROVE  /\ IsJob(Begin(mode, step, todo))
           /\ Begin(mode, step, todo).mode = mode
           /\ Begin(mode, step, todo).step = step
           /\ Begin(mode, step, todo).todo = todo
BY DEF IsJob, JobFields, Begin

LEMMA BeginUndoFacts ==
    ASSUME IsJob(job), NEW mode, NEW todo
    PROVE  /\ IsJob(BeginUndo(mode, todo))
           /\ BeginUndo(mode, todo).mode = mode
           /\ BeginUndo(mode, todo).step = "unlog"
           /\ BeginUndo(mode, todo).todo = todo
           /\ todo = <<>> => BeginUndo(mode, todo).pos = 0
<1> DEFINE b == Begin(mode, "unlog", todo)
           pos == IF todo = <<>> THEN 0 ELSE Len(Txs(Head(todo)))
<1>1. IsJob(b) /\ b.mode = mode /\ b.step = "unlog" /\ b.todo = todo
  BY BeginFacts
<1>2. BeginUndo(mode, todo) = [b EXCEPT !.pos = pos]
  BY DEF BeginUndo
<1>3. todo = <<>> => pos = 0
  OBVIOUS
<1> HIDE DEF b, pos
<1> QED
  BY <1>1, <1>2, <1>3 DEF IsJob, JobFields

(* A job that begins is at no transaction yet.                             *)
LEMMA Begins ==
    ASSUME IsJob(job), NEW mode \in Modes \ {"none", "loop"}, NEW step, NEW todo,
           step \in {"form", "header", "info"}
    PROVE  AtWork(Begin(mode, step, todo)) /\ ~ Critical(Begin(mode, step, todo))
<1> DEFINE b == Begin(mode, step, todo)
<1>1. IsJob(b) /\ b.mode = mode /\ b.step = step /\ b.todo = todo
  BY BeginFacts
<1> HIDE DEF b
<1>2. AtWork(b) /\ ~ Critical(b)
  BY <1>1 DEF AtWork, Critical
<1> QED
  BY <1>2 DEF b

LEMMA BeginsUndo ==
    ASSUME IsJob(job), NEW mode \in Modes \ {"none", "loop"}, NEW todo
    PROVE  AtWork(BeginUndo(mode, todo)) /\ ~ Critical(BeginUndo(mode, todo))
<1> DEFINE b == BeginUndo(mode, todo)
<1>1. IsJob(b) /\ b.mode = mode /\ b.step = "unlog" /\ (todo = <<>> => b.pos = 0) /\ b.todo = todo
  BY BeginUndoFacts
<1> HIDE DEF b
<1>2. AtWork(b) /\ ~ Critical(b)
  BY <1>1 DEF AtWork, Critical
<1> QED
  BY <1>2 DEF b

LEMMA GetBlocksWorks ==
    ASSUME JobInv, NEW host, NEW id, NEW limit, GetBlocks(host, id, limit)
    PROVE  AtWork(job') /\ ~ Critical(job')
<1>1. CASE job' = NoJob
  BY <1>1, NoJobFacts
<1>2. ASSUME NEW todo, NEW base, NEW new, NEW hash, NEW kept,
             job' = [BeginUndo("undoOwn", todo) EXCEPT
                        !.base = base, !.new = new, !.hash = hash, !.kept = kept]
      PROVE  AtWork(job') /\ ~ Critical(job')
  <2> DEFINE b == BeginUndo("undoOwn", todo)
  <2>1. IsJob(b) /\ AtWork(b) /\ ~ Critical(b)
    BY BeginsUndo, BeginUndoFacts DEF JobInv, AtWork, Modes, UndoModes
  <2> HIDE DEF b
  <2>2. /\ IsJob(job') /\ job'.mode = b.mode /\ job'.step = b.step /\ job'.todo = b.todo
        /\ job'.pos = b.pos
    BY <1>2, <2>1 DEF b, IsJob, JobFields
  <2> QED
    BY <2>1, <2>2 DEF AtWork, Critical
<1> DEFINE k == Max(ForkPoints(host, id))
           todo == Reverse(StoredAbove(k - 1))
           base == Upto(host, k - 1)
           new == Upto(host, id)
           kept == job.hash
<1>3. \/ job' = NoJob
      \/ job' = [BeginUndo("undoOwn", todo) EXCEPT
                     !.base = base, !.new = new, !.hash = NoTx, !.kept = kept]
  BY DEF GetBlocks
<1> HIDE DEF k, todo, base, new, kept
<1>4. CASE job' = [BeginUndo("undoOwn", todo) EXCEPT
                      !.base = base, !.new = new, !.hash = NoTx, !.kept = kept]
  BY <1>2, <1>4
<1> QED
  BY <1>1, <1>3, <1>4

(* A change of the job that goes on with what is given.                    *)
LEMMA Goes ==
    ASSUME JobInv, NEW step, job' = [job EXCEPT !.step = step],
           job.mode \notin {"none", "loop"},
           step \in {"mark", "exec", "rollback", "log", "undo"} => job.todo # <<>>,
           step = "unlog" => job.todo # <<>>
    PROVE  JobInv' /\ job'.step = step /\ job'.todo = job.todo /\ job'.pos = job.pos
<1>1. IsJob(job)
  BY DEF JobInv, AtWork
<1>2. /\ IsJob(job') /\ job'.mode = job.mode /\ job'.step = step
      /\ job'.todo = job.todo /\ job'.pos = job.pos
  BY <1>1 DEF IsJob, JobFields
<1> QED
  BY <1>2 DEF JobInv, AtWork

LEMMA GoesHash ==
    ASSUME JobInv, NEW step, NEW hash, job' = [job EXCEPT !.step = step, !.hash = hash],
           job.mode \notin {"none", "loop"}, job.todo # <<>>
    PROVE  JobInv' /\ job'.step = step /\ job'.todo = job.todo /\ job'.pos = job.pos
<1>1. IsJob(job)
  BY DEF JobInv, AtWork
<1>2. /\ IsJob(job') /\ job'.mode = job.mode /\ job'.step = step
      /\ job'.todo = job.todo /\ job'.pos = job.pos
  BY <1>1 DEF IsJob, JobFields
<1> QED
  BY <1>2 DEF JobInv, AtWork

LEMMA GoesPos ==
    ASSUME JobInv, NEW step, NEW pos, job' = [job EXCEPT !.step = step, !.pos = pos],
           job.mode \notin {"none", "loop"}, job.todo # <<>>
    PROVE  JobInv' /\ job'.step = step /\ job'.todo = job.todo
<1>1. IsJob(job)
  BY DEF JobInv, AtWork
<1>2. IsJob(job') /\ job'.mode = job.mode /\ job'.step = step /\ job'.todo = job.todo
  BY <1>1 DEF IsJob, JobFields
<1> QED
  BY <1>2 DEF JobInv, AtWork

LEMMA GoesTodo ==
    ASSUME JobInv, NEW step \in {"header", "info"}, NEW todo,
           job' = [job EXCEPT !.step = step, !.todo = todo],
           job.mode \notin {"none", "loop"}
    PROVE  JobInv' /\ job'.step = step
<1>1. IsJob(job)
  BY DEF JobInv, AtWork
<1>2. IsJob(job') /\ job'.mode = job.mode /\ job'.step = step /\ job'.todo = todo
  BY <1>1 DEF IsJob, JobFields
<1> QED
  BY <1>2 DEF JobInv, AtWork

LEMMA Working ==
    ASSUME JobInv
    PROVE  /\ job.step # "" => job.mode \notin {"none", "loop"}
           /\ job.step \in {"mark", "exec", "rollback", "log", "undo"} => job.todo # <<>>
           /\ job.step = "unlog" /\ job.pos > 0 => job.todo # <<>>
           /\ IsJob(job)
BY DEF JobInv, AtWork

-----------------------------------------------------------------------------
(* Steps that neither apply, undo, log nor unlog.                          *)

Quiet ==
    /\ ~ Critical(job) /\ AtWork(job') /\ ~ Critical(job')
    /\ UNCHANGED <<ledger, logTx, crashes>>

LEMMA StartsQuiet ==
    ASSUME JobInv,
           \/ \E host \in PeerChains : StartCollect(host)
           \/ \E host \in PeerChains : \E id \in 2 .. Len(host) : ParseBlockQueue(host, id)
           \/ StartGenerate
           \/ \E id \in Ids : StartReset(id)
    PROVE  Quiet
<1>1. IsJob(job) /\ ~ Critical(job)
  BY Working DEF Idle, Critical, StartCollect, ParseBlockQueue, StartGenerate, StartReset
<1>2. ASSUME NEW host \in PeerChains, StartCollect(host) PROVE Quiet
  <2>1. job' = [NoJob EXCEPT !.mode = "loop", !.host = host, !.at = Len(info.blk) + 1]
    BY <1>2 DEF StartCollect
  <2>2. IsJob(job') /\ job'.mode = "loop" /\ job'.step = ""
    BY <2>1 DEF NoJob, IsJob, JobFields
  <2> QED
    BY <1>1, <1>2, <2>2 DEF StartCollect, Quiet, AtWork, Critical, runVars
<1>3. ASSUME NEW host \in PeerChains, NEW id \in 2 .. Len(host), ParseBlockQueue(host, id)
      PROVE  Quiet
  BY <1>1, <1>3, GetBlocksWorks DEF ParseBlockQueue, Quiet, runVars
<1>4. CASE StartGenerate
  <2>1. AtWork(Begin("generate", "form", <<>>)) /\ ~ Critical(Begin("generate", "form", <<>>))
    BY <1>1, Begins DEF Modes, ApplyModes
  <2> QED
    BY <1>1, <1>4, <2>1 DEF StartGenerate, Quiet, runVars
<1>5. ASSUME NEW id \in Ids, StartReset(id) PROVE Quiet
  <2> DEFINE b == BeginUndo("reset", Reverse(StoredAbove(id)))
  <2>1. IsJob(b) /\ AtWork(b) /\ ~ Critical(b)
    BY <1>1, BeginsUndo, BeginUndoFacts DEF Modes, UndoModes
  <2>2. job' = [b EXCEPT !.at = id]
    BY <1>5 DEF StartReset
  <2> HIDE DEF b
  <2>3. /\ IsJob(job') /\ job'.mode = b.mode /\ job'.step = b.step /\ job'.todo = b.todo
        /\ job'.pos = b.pos
    BY <2>1, <2>2 DEF IsJob, JobFields
  <2> QED
    BY <1>1, <1>5, <2>1, <2>3 DEF StartReset, Quiet, AtWork, Critical, runVars
<1> QED
  BY <1>2, <1>3, <1>4, <1>5

LEMMA CollectQuiet ==
    ASSUME JobInv, CollectNext \/ StopCollect \/ FormBlock
    PROVE  Quiet
<1>1. IsJob(job) /\ ~ Critical(job)
  BY Working DEF Critical, CollectNext, StopCollect, FormBlock, At
<1>2. CASE CollectNext
  <2>1. CASE job' = Begin("collect", "header", <<Upto(job.host, job.at)>>)
    <3>1. AtWork(job') /\ ~ Critical(job')
      BY <1>1, <2>1, Begins DEF Modes, ApplyModes
    <3> QED
      BY <1>1, <1>2, <3>1 DEF CollectNext, Quiet, runVars
  <2>2. CASE GetBlocks(job.host, job.at - 1, RB2)
    <3>1. AtWork(job') /\ ~ Critical(job')
      BY <2>2, GetBlocksWorks
    <3> QED
      BY <1>1, <1>2, <3>1 DEF CollectNext, Quiet, runVars
  <2> QED
    BY <1>2, <2>1, <2>2 DEF CollectNext
<1>3. CASE StopCollect
  BY <1>1, <1>3, NoJobFacts DEF StopCollect, Quiet, runVars
<1>4. CASE FormBlock
  <2>1. PICK todo : job' = Begin("generate", "header", todo)
    BY <1>4 DEF FormBlock
  <2>2. AtWork(job') /\ ~ Critical(job')
    BY <1>1, <2>1, Begins DEF Modes, ApplyModes
  <2> QED
    BY <1>1, <1>4, <2>2 DEF FormBlock, Quiet, runVars
<1> QED
  BY <1>2, <1>3, <1>4

LEMMA BlockQuiet ==
    ASSUME JobInv, CheckHeader \/ UpdBlockInfo \/ InsertIntoBlockchain \/ BlockRefused
    PROVE  Quiet
<1>1. IsJob(job) /\ ~ Critical(job) /\ job.mode \notin {"none", "loop"}
  BY Working DEF Critical, CheckHeader, UpdBlockInfo, InsertIntoBlockchain, BlockRefused
<1>2. CASE CheckHeader
  <2>1. CASE job' = [job EXCEPT !.step = "error"]
    <3>1. JobInv' /\ job'.step = "error"
      BY <1>1, <2>1, Goes
    <3> QED
      BY <1>1, <1>2, <3>1 DEF CheckHeader, Quiet, JobInv, Critical, runVars
  <2>2. CASE job' = [job EXCEPT !.pos = 1,
                        !.step = IF Txs(Cur) = <<>> THEN "info" ELSE "mark"]
    <3> DEFINE step == IF Txs(Cur) = <<>> THEN "info" ELSE "mark"
    <3>1. job' = [job EXCEPT !.pos = 1, !.step = step] /\ step \in {"info", "mark"}
      BY <2>2
    <3> HIDE DEF step
    <3>2. /\ IsJob(job') /\ job'.mode = job.mode /\ job'.step = step /\ job'.todo = job.todo
      BY <1>1, <3>1 DEF IsJob, JobFields
    <3> QED
      BY <1>1, <1>2, <3>1, <3>2 DEF CheckHeader, Quiet, AtWork, Critical, runVars
  <2> QED
    BY <1>2, <2>1, <2>2 DEF CheckHeader
<1>3. CASE UpdBlockInfo
  <2>1. JobInv' /\ job'.step \in {"row", "header"}
    <3>1. CASE job' = [job EXCEPT !.step = "row"]
      BY <1>1, <3>1, Goes
    <3>2. CASE job' = [job EXCEPT !.step = "header", !.todo = Tail(job.todo)]
      BY <1>1, <3>2, GoesTodo
    <3> QED
      BY <1>3, <3>1, <3>2 DEF UpdBlockInfo
  <2> QED
    BY <1>1, <1>3, <2>1 DEF UpdBlockInfo, Quiet, JobInv, Critical, runVars
<1>4. CASE InsertIntoBlockchain
  <2>1. CASE job' = NoJob
    BY <1>1, <1>4, <2>1, NoJobFacts DEF InsertIntoBlockchain, Quiet, runVars
  <2>2. CASE job' = [Begin("loop", "", <<>>) EXCEPT !.at = Len(Cur) + 1]
    <3> DEFINE b == Begin("loop", "", <<>>)
    <3>1. IsJob(b) /\ b.mode = "loop" /\ b.step = ""
      BY <1>1 DEF IsJob, JobFields, Begin
    <3>2. job' = [b EXCEPT !.at = Len(Cur) + 1]
      BY <2>2
    <3> HIDE DEF b
    <3>3. IsJob(job') /\ job'.mode = "loop" /\ job'.step = ""
      BY <3>1, <3>2 DEF IsJob, JobFields
    <3> QED
      BY <1>1, <1>4, <3>3 DEF InsertIntoBlockchain, Quiet, AtWork, Critical, runVars
  <2> QED
    BY <1>4, <2>1, <2>2 DEF InsertIntoBlockchain
<1>5. CASE BlockRefused
  <2>1. AtWork(Begin("generate", "form", <<>>)) /\ ~ Critical(Begin("generate", "form", <<>>))
    BY <1>1, Begins DEF Modes, ApplyModes
  <2> QED
    BY <1>1, <1>5, <2>1, NoJobFacts DEF BlockRefused, Quiet, runVars
<1> QED
  BY <1>2, <1>3, <1>4, <1>5

LEMMA UndoQuiet ==
    ASSUME JobInv, UndoneBlock \/ ResetInfo
    PROVE  Quiet
<1>1. IsJob(job) /\ ~ Critical(job)
  BY Working DEF Critical, UndoneBlock, ResetInfo
<1>2. CASE UndoneBlock
  <2>1. job.mode \notin {"none", "loop"} /\ job' = BeginUndo(job.mode, Tail(job.todo))
    BY <1>2, Working DEF UndoneBlock
  <2> DEFINE b == BeginUndo(job.mode, Tail(job.todo))
  <2>2. IsJob(b) /\ b.mode = job.mode /\ b.step = "unlog" /\ (b.todo = <<>> => b.pos = 0)
    BY <1>1, BeginUndoFacts
  <2> HIDE DEF b
  <2>3. AtWork(b) /\ ~ Critical(b)
    BY <2>1, <2>2 DEF AtWork, Critical
  <2> QED
    BY <1>1, <1>2, <2>1, <2>3 DEF UndoneBlock, Quiet, b, runVars
<1>3. CASE ResetInfo
  BY <1>1, <1>3, NoJobFacts DEF ResetInfo, Quiet, runVars
<1> QED
  BY <1>2, <1>3

LEMMA ForkQuiet ==
    ASSUME JobInv,
           \/ ApplyFork \/ DropOwn \/ CommitInfo \/ CommitRow \/ Committed
           \/ ForkPanics \/ UndoFork \/ RestoreOwn \/ RestoreInfo \/ RestoreFails
    PROVE  Quiet
<1>1. IsJob(job) /\ ~ Critical(job)
  BY Working DEF Critical, ApplyFork, DropOwn, CommitInfo, CommitRow, Committed,
                 ForkPanics, UndoFork, RestoreOwn, RestoreInfo, RestoreFails, At
<1>2. CASE ApplyFork
  BY <1>1, <1>2, Begins DEF ApplyFork, Quiet, runVars, Modes, ApplyModes
<1>3. CASE DropOwn
  BY <1>1, <1>3, Begins DEF DropOwn, Quiet, runVars, Modes
<1>4. CASE CommitInfo
  <2>1. JobInv' /\ job'.step = "row"
    BY <1>4, Goes DEF CommitInfo, At
  <2> QED
    BY <1>1, <1>4, <2>1 DEF CommitInfo, Quiet, JobInv, Critical, runVars
<1>5. CASE CommitRow
  <2>1. JobInv' /\ job'.step = "info"
    BY <1>5, GoesTodo DEF CommitRow, At
  <2> QED
    BY <1>1, <1>5, <2>1 DEF CommitRow, Quiet, JobInv, Critical, runVars
<1>6. CASE Committed
  <2>1. CASE job' = NoJob
    BY <1>1, <1>6, <2>1, NoJobFacts DEF Committed, Quiet, runVars
  <2>2. CASE job' # NoJob
    <3> DEFINE b == Begin("collect", "header", <<Upto(job.host, job.at)>>)
    <3>1. job' = [b EXCEPT !.hash = job.kept]
      BY <1>6, <2>2 DEF Committed
    <3>2. IsJob(b) /\ b.mode = "collect" /\ b.step = "header"
      BY <1>1, BeginFacts
    <3> HIDE DEF b
    <3>3. IsJob(job') /\ job'.mode = "collect" /\ job'.step = "header"
      BY <3>1, <3>2 DEF IsJob, JobFields
    <3> QED
      BY <1>1, <1>6, <3>3 DEF Committed, Quiet, AtWork, Critical, runVars
  <2> QED
    BY <2>1, <2>2
<1>7. CASE ForkPanics
  BY <1>1, <1>7, NoJobFacts DEF ForkPanics, Quiet
<1>8. CASE UndoFork
  BY <1>1, <1>8, BeginsUndo DEF UndoFork, Quiet, runVars, Modes, UndoModes
<1>9. CASE RestoreOwn
  BY <1>1, <1>9, Begins DEF RestoreOwn, Quiet, runVars, Modes, ApplyModes
<1>10. CASE RestoreInfo
  BY <1>1, <1>10, NoJobFacts DEF RestoreInfo, Quiet, runVars
<1>11. CASE RestoreFails
  BY <1>1, <1>11, NoJobFacts DEF RestoreFails, Quiet
<1> QED
  BY <1>2, <1>3, <1>4, <1>5, <1>6, <1>7, <1>8, <1>9, <1>10, <1>11
-----------------------------------------------------------------------------
(* Applying and logging.                                                   *)

(* What is applied and not logged, but for the transaction that is being   *)
(* logged or undone.                                                       *)
Gap == {t \in Applied \ logTx : job.step \in {"log", "undo"} => t # CurTx}

(* The transaction at hand is not logged until it is applied, and is not   *)
(* undone before it is unlogged.                                           *)
LogInv ==
    /\ IsLedger
    /\ crashes \in Nat
    /\ Critical(job) => CurTx \notin logTx

(* What the log then says of the ledger, while undos are in order.         *)
Matched ==
    /\ logTx \subseteq Applied
    /\ job.step = "log" => CurTx \in Applied
    /\ Cardinality(Gap) <= crashes
    /\ crashes = 0 => Distinct

StaysMatched == LogInv' /\ (Matched /\ Unmixed' => Matched')

LEMMA GapFacts ==
    ASSUME IsLedger
    PROVE  IsFiniteSet(Gap) /\ Cardinality(Gap) \in Nat /\ IsFiniteSet(Applied)
<1>1. IsFiniteSet(Applied)
  BY LedgerFacts
<1>2. Gap \in SUBSET Applied
  BY DEF Gap
<1>3. IsFiniteSet(Gap)
  BY <1>1, <1>2, FS_Subset
<1> QED
  BY <1>1, <1>3, FS_CardinalityType

(* A smaller gap.                                                          *)
LEMMA GapShrinks ==
    ASSUME LogInv, Matched, NEW T \in SUBSET Gap
    PROVE  Cardinality(T) <= crashes
<1>1. IsFiniteSet(Gap) /\ Cardinality(Gap) \in Nat
  BY GapFacts DEF LogInv
<1>2. Cardinality(T) <= Cardinality(Gap) /\ IsFiniteSet(T)
  BY <1>1, FS_Subset
<1>3. Cardinality(T) \in Nat
  BY <1>2, FS_CardinalityType
<1> QED
  BY <1>1, <1>2, <1>3 DEF LogInv, Matched

LEMMA SameLedger ==
    ASSUME ledger' = ledger
    PROVE  (IsLedger => IsLedger') /\ Applied' = Applied /\ (Distinct => Distinct')
BY DEF IsLedger, Applied, Whole, Distinct

LEMMA QuietKeeps ==
    ASSUME LogInv, Quiet
    PROVE  StaysMatched
<1>1. /\ IsLedger' /\ Applied' = Applied /\ logTx' = logTx /\ crashes' = crashes
      /\ (Distinct => Distinct')
  BY SameLedger DEF LogInv, Quiet
<1>2. job.step \notin {"log", "undo"} /\ job'.step \notin {"log", "undo"}
  BY DEF Quiet, Critical
<1>3. Gap' = Gap
  BY <1>1, <1>2 DEF Gap
<1>4. ~ Critical(job')
  BY DEF Quiet
<1>5. ~ Critical(job)'
  BY <1>4 DEF Critical
<1> QED
  BY <1>1, <1>2, <1>3, <1>5 DEF LogInv, Matched, StaysMatched

(* The pool alone changes, at any point of a job.                          *)
LEMMA PoolKeeps ==
    ASSUME JobInv, LogInv, UNCHANGED <<ledger, logTx, job, crashes>>
    PROVE  JobInv' /\ StaysMatched
<1>1. /\ IsLedger' /\ Applied' = Applied /\ logTx' = logTx /\ crashes' = crashes
      /\ (Distinct => Distinct') /\ CurTx' = CurTx
  BY SameLedger DEF LogInv, CurTx, Cur
<1>2. Gap' = Gap
  BY <1>1 DEF Gap
<1>3. LogInv'
  BY <1>1 DEF LogInv, Critical
<1>4. Matched => Matched'
  BY <1>1, <1>2 DEF Matched
<1> QED
  BY <1>3, <1>4 DEF StaysMatched, JobInv, AtWork, IsJob

(* A set with one more element.                                            *)
LEMMA OneMore ==
    ASSUME NEW S, IsFiniteSet(S), Cardinality(S) \in Nat, NEW x
    PROVE  /\ IsFiniteSet(S \cup {x}) /\ Cardinality(S \cup {x}) \in Nat
           /\ Cardinality(S \cup {x}) <= Cardinality(S) + 1
<1>1. /\ IsFiniteSet(S \cup {x})
      /\ Cardinality(S \cup {x}) = Cardinality(S) \/ Cardinality(S \cup {x}) = Cardinality(S) + 1
  BY FS_AddElement, Zenon
<1> QED
  BY <1>1

(* A process that ends leaves at most the transaction at hand applied and  *)
(* not logged.                                                             *)
LEMMA DiesKeeps ==
    ASSUME LogInv, Dies, IsLedger', NEW t,
           Matched /\ Unmixed' => /\ logTx' \subseteq Applied'
                                 /\ Applied' \ logTx' \subseteq Gap \cup {t}
    PROVE  JobInv' /\ StaysMatched
<1>1. crashes' = crashes + 1 /\ job' = NoJob
  BY DEF Dies
<1>2. JobInv' /\ job'.step = "" /\ ~ Critical(job)'
  BY <1>1, NoJobFacts DEF JobInv, NoJob, Critical
<1>3. LogInv' /\ crashes' # 0
  <2>1. crashes' \in Nat /\ crashes' # 0
    BY <1>1 DEF LogInv
  <2> QED
    BY <1>2, <2>1 DEF LogInv
<1>4. ASSUME Matched, Unmixed' PROVE Cardinality(Gap') <= crashes'
  <2>1. Gap' \in SUBSET (Gap \cup {t})
    BY <1>4 DEF Gap
  <2>2. IsFiniteSet(Gap) /\ Cardinality(Gap) \in Nat
    BY GapFacts DEF LogInv
  <2>3. /\ IsFiniteSet(Gap \cup {t}) /\ Cardinality(Gap \cup {t}) \in Nat
        /\ Cardinality(Gap \cup {t}) <= Cardinality(Gap) + 1
    BY <2>2, OneMore
  <2>4. Cardinality(Gap') <= Cardinality(Gap \cup {t}) /\ IsFiniteSet(Gap')
    BY <2>1, <2>3, FS_Subset
  <2>5. Cardinality(Gap') \in Nat
    BY <2>4, FS_CardinalityType
  <2>6. Cardinality(Gap) <= crashes /\ crashes \in Nat
    BY <1>4 DEF LogInv, Matched
  <2> QED
    BY <1>1, <2>2, <2>3, <2>4, <2>5, <2>6
<1>5. Matched /\ Unmixed' => Matched'
  BY <1>2, <1>3, <1>4 DEF Matched
<1> QED
  BY <1>2, <1>3, <1>5 DEF StaysMatched

LEMMA CrashKeeps ==
    ASSUME LogInv, Crashes
    PROVE  JobInv' /\ StaysMatched
<1>1. Dies
  BY DEF Crashes, Crash, CrashInExecTx, CrashInUndo, CrashInUnlogTx, CrashInInsert,
         CrashInBlockError, CrashInTxParser
<1>2. Applied \ logTx \subseteq Gap \cup {CurTx}
  BY DEF Gap
<1>3. CASE Crash \/ CrashInInsert \/ CrashInBlockError \/ CrashInTxParser
  <2>1. logTx' = logTx /\ ledger' = ledger
    BY <1>3 DEF Crash, CrashInInsert, CrashInBlockError, CrashInTxParser
  <2>2. IsLedger' /\ Applied' = Applied
    BY <2>1, SameLedger DEF LogInv
  <2> QED
    BY <1>1, <1>2, <2>1, <2>2, DiesKeeps DEF Matched
<1>4. CASE CrashInExecTx
  <2>1. PICK part : Apply(CurTx, part)
    BY <1>4 DEF CrashInExecTx
  <2>2. /\ IsLedger' /\ Applied \subseteq Applied' /\ Applied' \subseteq Applied \cup {CurTx}
        /\ logTx' = logTx
    BY <1>4, <2>1, ApplyFacts DEF CrashInExecTx, LogInv
  <2> QED
    BY <1>1, <1>2, <2>2, DiesKeeps DEF Matched
<1>5. CASE CrashInUndo
  <2>1. logTx' = logTx /\ CurTx \notin logTx
    BY <1>5 DEF CrashInUndo, LogInv, Critical
  <2>2. IsLedger' /\ (Unmixed' => /\ Applied' \subseteq Applied
                                 /\ Applied \ {CurTx} \subseteq Applied')
    <3>1. CASE Tear(CurTx)
      BY <3>1, TearFacts DEF LogInv
    <3>2. CASE Undo(CurTx, {"crash"})
      BY <3>2, UndoFacts DEF LogInv
    <3> QED
      BY <1>5, <3>1, <3>2 DEF CrashInUndo
  <2> QED
    BY <1>1, <1>2, <2>1, <2>2, DiesKeeps DEF Matched
<1>6. CASE CrashInUnlogTx
  <2>1. (logTx' = logTx \/ logTx' = logTx \ {CurTx}) /\ ledger' = ledger
    BY <1>6 DEF CrashInUnlogTx
  <2>2. IsLedger' /\ Applied' = Applied
    BY <2>1, SameLedger DEF LogInv
  <2> QED
    BY <1>1, <1>2, <2>1, <2>2, DiesKeeps DEF Matched
<1> QED
  BY <1>3, <1>4, <1>5, <1>6 DEF Crashes

LEMMA MarkKeeps ==
    ASSUME JobInv, LogInv, MarkTx
    PROVE  JobInv' /\ StaysMatched
<1>1. job.step = "mark" /\ job.mode \notin {"none", "loop"} /\ job.todo # <<>>
  BY Working DEF MarkTx
<1>2. CASE IsDouble(CurTx)
  <2>1. job' = [job EXCEPT !.step = "error", !.hash = HashAfterRollback]
    BY <1>2 DEF MarkTx, RollbackFront
  <2>2. JobInv' /\ job'.step = "error"
    BY <1>1, <2>1, GoesHash
  <2>3. Quiet
    BY <1>1, <2>2 DEF MarkTx, Quiet, JobInv, Critical
  <2> QED
    BY <2>2, <2>3, QuietKeeps
<1>3. CASE ~ IsDouble(CurTx)
  <2>1. job' = [job EXCEPT !.step = "exec", !.hash = CurTx] /\ CurTx \notin logTx
    BY <1>3 DEF MarkTx, IsDouble
  <2>2. JobInv' /\ job'.step = "exec" /\ job'.todo = job.todo /\ job'.pos = job.pos
    BY <1>1, <2>1, GoesHash
  <2>3. CurTx' = CurTx
    BY <2>2 DEF CurTx, Cur
  <2>4. /\ IsLedger' /\ Applied' = Applied /\ logTx' = logTx /\ crashes' = crashes
        /\ (Distinct => Distinct')
    BY SameLedger DEF LogInv, MarkTx
  <2>5. Gap' = Gap
    BY <1>1, <2>2, <2>4 DEF Gap
  <2>6. LogInv'
    BY <2>1, <2>2, <2>3, <2>4 DEF LogInv
  <2>7. Matched => Matched'
    BY <2>2, <2>4, <2>5 DEF Matched
  <2> QED
    BY <2>2, <2>6, <2>7 DEF StaysMatched
<1> QED
  BY <1>2, <1>3

LEMMA ExecKeeps ==
    ASSUME JobInv, LogInv, ExecTx
    PROVE  JobInv' /\ StaysMatched
<1>1. job.step = "exec" /\ job.mode \notin {"none", "loop"} /\ job.todo # <<>>
  BY Working DEF ExecTx
<1>2. JobInv' /\ job'.step = "log" /\ job'.todo = job.todo /\ job'.pos = job.pos
  BY <1>1, Goes DEF ExecTx
<1>3. CurTx' = CurTx /\ CurTx \notin logTx /\ logTx' = logTx /\ crashes' = crashes
  BY <1>1, <1>2 DEF CurTx, Cur, LogInv, Critical, ExecTx, runVars
<1>4. IsLedger' /\ Applied' = Applied \cup {CurTx}
      /\ (Distinct /\ CurTx \notin Applied => Distinct')
  BY ApplyFacts DEF ExecTx, LogInv
<1>5. Gap' \in SUBSET Gap
  BY <1>1, <1>2, <1>3, <1>4 DEF Gap
<1>6. Matched => Cardinality(Gap') <= crashes
  <2> HIDE DEF Gap
  <2> QED
    BY <1>5, GapShrinks
<1>7. ASSUME Matched, crashes = 0 PROVE CurTx \notin Applied
  <2>1. Gap = {}
    BY <1>7, GapFacts, FS_EmptySet DEF LogInv, Matched
  <2> QED
    BY <1>1, <1>3, <2>1 DEF Gap
<1>8. LogInv'
  BY <1>2, <1>3, <1>4 DEF LogInv, Critical
<1>9. Matched => Matched'
  BY <1>2, <1>3, <1>4, <1>6, <1>7 DEF Matched
<1> QED
  BY <1>2, <1>8, <1>9 DEF StaysMatched

LEMMA FailKeeps ==
    ASSUME JobInv, LogInv, FrontFails \/ InitFails \/ MainFails
    PROVE  JobInv' /\ StaysMatched
<1>1. job.step = "exec" /\ job.mode \notin {"none", "loop"} /\ job.todo # <<>>
  BY Working DEF FrontFails, InitFails, MainFails
<1>2. /\ JobInv' /\ job'.todo = job.todo /\ job'.pos = job.pos
      /\ job'.step \in {"error", "rollback"}
  <2>1. CASE FrontFails
    BY <1>1, <2>1, GoesHash DEF FrontFails, RollbackFront
  <2>2. CASE InitFails
    BY <1>1, <2>2, Goes DEF InitFails
  <2>3. CASE MainFails
    BY <1>1, <2>3, Goes DEF MainFails
  <2> QED
    BY <2>1, <2>2, <2>3
<1>3. CurTx' = CurTx /\ CurTx \notin logTx /\ logTx' = logTx /\ crashes' = crashes
  BY <1>1, <1>2 DEF CurTx, Cur, LogInv, Critical, FrontFails, InitFails, MainFails, runVars
<1>4. IsLedger' /\ Applied' = Applied /\ (Distinct => Distinct')
  <2>1. CASE FrontFails
    BY <2>1, SameLedger DEF FrontFails, LogInv
  <2>2. CASE Apply(CurTx, "some")
    BY <2>2, ApplyFacts DEF LogInv
  <2> QED
    BY <2>1, <2>2 DEF InitFails, MainFails
<1>5. Gap' = Gap
  BY <1>1, <1>2, <1>3, <1>4 DEF Gap
<1>6. LogInv'
  BY <1>2, <1>3, <1>4 DEF LogInv, Critical
<1>7. Matched => Matched'
  BY <1>2, <1>3, <1>4, <1>5 DEF Matched
<1> QED
  BY <1>2, <1>6, <1>7 DEF StaysMatched

LEMMA RollbackKeeps ==
    ASSUME JobInv, LogInv, RollbackTo
    PROVE  JobInv' /\ StaysMatched
<1>1. job.step = "rollback" /\ job.mode \notin {"none", "loop"} /\ job.todo # <<>>
  BY Working DEF RollbackTo
<1>2. JobInv' /\ job'.step = "error"
  BY <1>1, GoesHash DEF RollbackTo
<1>3. CurTx \notin logTx /\ logTx' = logTx /\ crashes' = crashes
  BY <1>1 DEF LogInv, Critical, RollbackTo
<1>4. IsLedger' /\ (Unmixed' => Applied' = Applied \ {CurTx} /\ (Distinct => Distinct'))
  BY UndoFacts DEF RollbackTo, LogInv
<1>5. Unmixed' => Gap' \in SUBSET Gap
  BY <1>1, <1>2, <1>3, <1>4 DEF Gap
<1>6. Matched /\ Unmixed' => Cardinality(Gap') <= crashes
  <2> HIDE DEF Gap
  <2> QED
    BY <1>5, GapShrinks
<1>7. LogInv'
  BY <1>2, <1>3, <1>4 DEF LogInv, Critical
<1>8. Matched /\ Unmixed' => Matched'
  BY <1>2, <1>3, <1>4, <1>6 DEF Matched
<1> QED
  BY <1>2, <1>7, <1>8 DEF StaysMatched

LEMMA LogKeeps ==
    ASSUME JobInv, LogInv, LogTx
    PROVE  JobInv' /\ StaysMatched
<1>1. job.step = "log" /\ job.mode \notin {"none", "loop"} /\ job.todo # <<>>
  BY Working DEF LogTx
<1>2. JobInv' /\ job'.step \in {"mark", "info"}
  <2>1. CASE job' = [job EXCEPT !.step = "mark", !.pos = job.pos + 1]
    BY <1>1, <2>1, GoesPos
  <2>2. CASE job' = [job EXCEPT !.step = "info"]
    BY <1>1, <2>2, Goes
  <2> QED
    BY <2>1, <2>2 DEF LogTx
<1>3. (Matched => CurTx \in Applied) /\ logTx' = logTx \cup {CurTx} /\ crashes' = crashes
  BY <1>1 DEF Matched, LogTx, runVars
<1>4. IsLedger' /\ Applied' = Applied /\ (Distinct => Distinct')
  BY SameLedger DEF LogTx, LogInv
<1>5. Gap' \in SUBSET Gap
  BY <1>1, <1>2, <1>3, <1>4 DEF Gap
<1>6. Matched => Cardinality(Gap') <= crashes
  <2> HIDE DEF Gap
  <2> QED
    BY <1>5, GapShrinks
<1>7. LogInv'
  BY <1>2, <1>3, <1>4 DEF LogInv, Critical
<1>8. Matched => Matched'
  BY <1>2, <1>3, <1>4, <1>6 DEF Matched
<1> QED
  BY <1>2, <1>7, <1>8 DEF StaysMatched

LEMMA UnlogKeeps ==
    ASSUME JobInv, LogInv, UnlogTx
    PROVE  JobInv' /\ StaysMatched
<1>1. job.step = "unlog" /\ job.mode \notin {"none", "loop"} /\ job.todo # <<>>
  BY Working DEF UnlogTx
<1>2. JobInv' /\ job'.step = "undo" /\ job'.todo = job.todo /\ job'.pos = job.pos
  BY <1>1, GoesHash DEF UnlogTx
<1>3. CurTx' = CurTx /\ logTx' = logTx \ {CurTx} /\ crashes' = crashes
  BY <1>2 DEF CurTx, Cur, UnlogTx, runVars
<1>4. IsLedger' /\ Applied' = Applied /\ (Distinct => Distinct')
  BY SameLedger DEF UnlogTx, LogInv
<1>5. Gap' \in SUBSET Gap
  BY <1>1, <1>2, <1>3, <1>4 DEF Gap
<1>6. Matched => Cardinality(Gap') <= crashes
  <2> HIDE DEF Gap
  <2> QED
    BY <1>5, GapShrinks
<1>7. LogInv'
  BY <1>2, <1>3, <1>4 DEF LogInv, Critical
<1>8. Matched => Matched'
  BY <1>2, <1>3, <1>4, <1>6 DEF Matched
<1> QED
  BY <1>2, <1>7, <1>8 DEF StaysMatched

LEMMA UndoKeeps ==
    ASSUME JobInv, LogInv, UndoTx
    PROVE  JobInv' /\ StaysMatched
<1>1. job.step = "undo" /\ job.mode \notin {"none", "loop"} /\ job.todo # <<>>
  BY Working DEF UndoTx
<1>2. JobInv' /\ job'.step = "unlog"
  BY <1>1, GoesPos DEF UndoTx
<1>3. CurTx \notin logTx /\ logTx' = logTx /\ crashes' = crashes
  BY <1>1 DEF LogInv, Critical, UndoTx, runVars
<1>4. IsLedger' /\ (Unmixed' => Applied' = Applied \ {CurTx} /\ (Distinct => Distinct'))
  BY UndoFacts DEF UndoTx, LogInv
<1>5. Unmixed' => Gap' \in SUBSET Gap
  BY <1>1, <1>2, <1>3, <1>4 DEF Gap
<1>6. Matched /\ Unmixed' => Cardinality(Gap') <= crashes
  <2> HIDE DEF Gap
  <2> QED
    BY <1>5, GapShrinks
<1>7. LogInv'
  BY <1>2, <1>3, <1>4 DEF LogInv, Critical
<1>8. Matched /\ Unmixed' => Matched'
  BY <1>2, <1>3, <1>4, <1>6 DEF Matched
<1> QED
  BY <1>2, <1>7, <1>8 DEF StaysMatched

(* A mixed up ledger stays so.                                             *)
LEMMA StaysMixed == [Next]_vars /\ Unmixed' => Unmixed
<1> SUFFICES ASSUME [Next]_vars, "mixed" \in incidents PROVE "mixed" \in incidents'
  BY DEF Unmixed
<1>1. ASSUME NEW t, NEW incident, Undo(t, incident) PROVE "mixed" \in incidents'
  BY <1>1 DEF Undo
<1>2. CASE StartJob \/ ParseQueue \/ UNCHANGED vars \/ \E t \in Tx : Submit(t) \/ UpdFullNodes(t)
  BY <1>2 DEF StartJob, ParseQueue, vars, Submit, UpdFullNodes, StartCollect, ParseBlockQueue,
              StartGenerate, StartReset, runVars
<1>3. CASE JobStep
  BY <1>1, <1>3
     DEF JobStep, CollectNext, StopCollect, FormBlock, CheckHeader, MarkTx, RollbackFront,
         RecordStop, ExecTx, FrontFails, InitFails, MainFails, RollbackTo, LogTx, UpdBlockInfo,
         InsertIntoBlockchain, UnlogTx, UndoTx, UndoneBlock, ResetInfo, ApplyFork, DropOwn,
         CommitInfo, CommitRow, Committed, ForkPanics, UndoFork, RestoreOwn, RestoreInfo,
         RestoreFails, BlockRefused, runVars
<1>4. CASE Crashes
  BY <1>1, <1>4
     DEF Crashes, Crash, CrashInExecTx, CrashInUndo, CrashInUnlogTx, CrashInInsert,
         CrashInBlockError, CrashInTxParser
<1> QED
  BY <1>2, <1>3, <1>4 DEF Next

Inv == JobInv /\ LogInv /\ (Unmixed => Matched)

LEMMA NextKeeps == Inv /\ [Next]_vars => Inv'
<1> SUFFICES ASSUME JobInv, LogInv, [Next]_vars PROVE JobInv' /\ StaysMatched
  BY StaysMixed DEF Inv, StaysMatched
<1>1. CASE Quiet
  BY <1>1, QuietKeeps DEF Quiet, JobInv
<1>2. CASE StartJob
  BY <1>1, <1>2, StartsQuiet DEF StartJob
<1>3. CASE JobStep
  BY <1>1, <1>3, CollectQuiet, BlockQuiet, UndoQuiet, ForkQuiet, MarkKeeps, ExecKeeps,
     FailKeeps, RollbackKeeps, LogKeeps, UnlogKeeps, UndoKeeps DEF JobStep
<1>4. CASE Crashes
  BY <1>4, CrashKeeps
<1>5. CASE ParseQueue \/ \E t \in Tx : Submit(t) \/ UpdFullNodes(t)
  BY <1>5, PoolKeeps DEF ParseQueue, Submit, UpdFullNodes, runVars
<1>6. CASE UNCHANGED vars
  BY <1>6, PoolKeeps DEF vars, runVars
<1>7. \/ ParseQueue \/ \E t \in Tx : Submit(t) \/ UpdFullNodes(t)
      \/ StartJob \/ JobStep \/ Crashes \/ UNCHANGED vars
  BY DEF Next
<1> QED
  BY <1>2, <1>3, <1>4, <1>5, <1>6, <1>7

LEMMA Starts == Init => Inv
<1> SUFFICES ASSUME Init PROVE JobInv /\ LogInv /\ Matched
  BY DEF Inv
<1>1. JobInv /\ ~ Critical(job) /\ job.step = ""
  BY NoJobFacts DEF Init, JobInv, NoJob
<1>2. IsLedger /\ DOMAIN ledger = {} /\ crashes = 0 /\ logTx = {}
  <2>1. ledger \in Seq({}) /\ Len(ledger) = 0
    BY EmptySeq DEF Init
  <2>2. DOMAIN ledger = 1 .. 0
    BY <2>1, LenProperties
  <2> QED
    BY <2>1, <2>2 DEF Init, IsLedger
<1>3. Applied = {}
  BY <1>2 DEF Applied, Whole
<1>4. Gap = {}
  BY <1>3 DEF Gap
<1>5. Cardinality(Gap) <= crashes
  BY <1>2, <1>4, FS_EmptySet
<1>6. LogInv
  BY <1>1, <1>2 DEF LogInv
<1>7. Matched
  BY <1>1, <1>2, <1>3, <1>5 DEF Matched, Distinct
<1> QED
  BY <1>1, <1>6, <1>7

LEMMA Holds == Spec => []Inv
BY Starts, NextKeeps, PTL DEF Spec

(* Until an undo is out of order, a transaction that counts as a double is *)
(* applied: wherever a job stops, whatever is refused and at whatever      *)
(* statement the process is killed (ParseDataFull, ParseDataRollback).     *)
THEOREM DoublesAreApplied == Spec => []LoggedIsApplied
<1>1. Inv => LoggedIsApplied
  BY DEF Inv, Matched, LoggedIsApplied
<1> QED
  BY <1>1, Holds, PTL

(* Until an undo is out of order, each crash leaves at most one            *)
(* transaction that could be applied again (ParseDataFull,                 *)
(* ParseDataRollback).                                                     *)
THEOREM OneGapPerCrash == Spec => []CrashUnlogs
<1>1. Inv => CrashUnlogs
  <2> SUFFICES ASSUME JobInv, Matched, Idle PROVE Cardinality(Applied \ logTx) <= crashes
    BY DEF Inv, CrashUnlogs
  <2>1. job.step = ""
    BY DEF Idle, JobInv, AtWork
  <2>2. Gap = Applied \ logTx
    BY <2>1 DEF Gap
  <2> QED
    BY <2>2 DEF Matched
<1> QED
  BY <1>1, Holds, PTL

(* Without a crash and an undo out of order no transaction is applied      *)
(* twice, since all that is applied is logged whenever one is marked to be *)
(* applied (CheckLogTx, InsertInLogTx).                                    *)
THEOREM NeverTwice == Spec => []AppliedOnce
<1>1. Inv => AppliedOnce
  BY DEF Inv, Matched, AppliedOnce, Distinct
<1> QED
  BY <1>1, Holds, PTL
=============================================================================
