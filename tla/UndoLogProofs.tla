---------------------------- MODULE UndoLogProofs ----------------------------
(* Proofs about the undo log, for all tables, columns, values and          *)
(* transactions, any number of records and any number of crashes: its      *)
(* types, its chains, and that it keeps its promise (module Snapshots).    *)
EXTENDS UndoLog, FiniteSetTheorems, SequenceTheorems, TLAPS

Present == [Fields -> Values]

Jobs == [mode : Modes, step : Steps, tx : Tx \cup {{}}, key : Keys \cup {{}}, at : Nat,
         change : Writes \cup {<<>>}, rec : RecIds \cup {NoRec},
         before : Tables \cup {{}}, start : Tables \cup {{}}]

(* What the types of rows and of the job depend on: a row that has been    *)
(* updated is there, and so is the one that is about to be.                *)
RowsOfJob ==
    /\ job \in Jobs
    /\ \A k \in Keys : rows[k].rb # NoRec => rows[k].val \in Present
    /\ At("apply", "update") =>
           /\ job.key \in Keys /\ job.change \in Writes /\ job.rec \in RecIds
           /\ rows[job.key].val \in Present
    /\ At("apply", "note") => job.key \in Keys /\ job.before \in Tables
    /\ At("undo", "delete") => job.at > 0

TypeInv == TypeOK /\ RowsOfJob

LEMMA NoJobType == NoJob \in Jobs
BY DEF NoJob, Jobs, Modes, Steps

LEMMA SeenType == TypeOK => Seen \in Tables
BY GenesisAssumption DEF TypeOK, Seen, Tables

LEMMA NoJobFields ==
    NoJob.mode = "none" /\ NoJob.step = "" /\ NoJob.at = 0 /\ NoJob.rec = NoRec
BY DEF NoJob

(* The parser is at work: the job has a transaction and a start.           *)
LEMMA Working ==
    ASSUME TypeInv, job.mode # "none"
    PROVE  /\ job # NoJob /\ job.tx \in Tx /\ job.start \in Tables
           /\ job.at \in Nat /\ job.at <= Len(log[job.tx])
           /\ log[job.tx] \in Seq(Entries) /\ Len(log[job.tx]) \in Nat
<1>1. job # NoJob
  BY NoJobFields
<1>2. job.tx \in Tx /\ job.start \in Tables /\ job.at \in Nat /\ job.at <= Len(log[job.tx])
  BY <1>1 DEF TypeInv, TypeOK, Tables
<1>3. log[job.tx] \in Seq(Entries)
  BY <1>2 DEF TypeInv, TypeOK
<1> QED
  BY <1>1, <1>2, <1>3

(* A column that is overwritten holds a value of some column again.        *)
LEMMA ChangedPresent ==
    ASSUME NEW val \in Present, NEW change,
           \A f \in DOMAIN change : f \in Fields => change[f] \in Values
    PROVE  Changed(val, change) \in Present
BY DEF Changed, Present

LEMMA WritesAreValues ==
    ASSUME NEW c \in Writes
    PROVE  /\ DOMAIN c \in SUBSET Fields
           /\ \A f \in DOMAIN c : c[f] \in Values
BY ValuesAssumption DEF Values

LEMMA DefaultPresent == ASSUME NEW c \in Writes PROVE Changed(Default, c) \in Present
<1>1. \A f \in Fields : Default[f] \in Values
  BY ValuesAssumption DEF Values
<1> QED
  BY <1>1, WritesAreValues DEF Changed, Present

LEMMA OldValuesType ==
    ASSUME NEW val \in Present, NEW c \in Writes
    PROVE  OldValues(val, c) \in Changes
<1>1. \A f \in DOMAIN c : f \in Fields /\ Logged(f, val[f]) \in Values
  BY WritesAreValues DEF Logged, Values, Present
<1>2. OldValues(val, c) \in [DOMAIN c -> Values]
  BY <1>1 DEF OldValues
<1> QED
  BY <1>2, WritesAreValues DEF Changes

LEMMA ChangesAreValues ==
    ASSUME NEW c \in Changes
    PROVE  \A f \in DOMAIN c : c[f] \in Values
BY DEF Changes

LEMMA InitTypes == Init => TypeInv
<1> SUFFICES ASSUME Init PROVE TypeInv
  OBVIOUS
<1>1. rows \in Tables
  BY GenesisAssumption DEF Init, Tables
<1>2. DOMAIN recs = {}
  BY DEF Init
<1>3. log \in [Tx -> Seq(Entries)] /\ done \in Seq(Txs)
  BY DEF Init
<1>4. TypeOK
  BY <1>1, <1>2, <1>3, BoundsAssumption DEF Init, TypeOK, Tables
<1>5. RowsOfJob
  BY NoJobType, GenesisAssumption DEF Init, RowsOfJob, At, NoJob
<1> QED
  BY <1>4, <1>5 DEF TypeInv

(* The steps by which a transaction writes.                                *)
LEMMA BeginTxTypes == ASSUME TypeInv, NEW t \in Tx, BeginTx(t) PROVE TypeInv'
<1>1. job' \in Jobs
  BY NoJobType, SeenType DEF BeginTx, TypeInv, Jobs, NoJob, Modes, Steps
<1>4. /\ job'.mode = "apply" /\ job'.step = "write" /\ job'.tx = t /\ job'.at = 0
      /\ job'.start = Seen
  BY DEF BeginTx, NoJob
<1>5. Len(log[t]) \in Nat
  BY DEF TypeInv, TypeOK
<1>6. job'.at \in Nat /\ job'.at <= Len(log'[job'.tx])
  BY <1>4, <1>5 DEF BeginTx
<1>7. job'.start \in Tables
  BY <1>4, SeenType DEF TypeInv
<1>8. UNCHANGED <<rows, recs, log, done, crashes, refused, damaged>>
  BY DEF BeginTx
<1>2. TypeOK'
  BY <1>4, <1>6, <1>7, <1>8 DEF TypeInv, TypeOK, Modes, Steps
<1>3. RowsOfJob'
  BY <1>1 DEF BeginTx, TypeInv, RowsOfJob, At, NoJob
<1> QED
  BY <1>2, <1>3 DEF TypeInv

LEMMA LogOldTypes ==
    ASSUME TypeInv, NEW k \in Keys, NEW c \in Writes, LogOld(k, c)
    PROVE  TypeInv'
<1>1. PICK r \in RecIds \ DOMAIN recs :
          /\ recs' = [i \in DOMAIN recs \cup {r} |->
                         IF i = r THEN [data |-> OldValues(rows[k].val, c),
                                        prev |-> rows[k].rb]
                         ELSE recs[i]]
          /\ job' = [job EXCEPT !.step = "update", !.key = k, !.change = c, !.rec = r]
  BY DEF LogOld
<1>2. rows[k].val \in Present
  BY DEF LogOld, TypeInv, TypeOK, Rows, Contents, Present, Tables
<1>3. OldValues(rows[k].val, c) \in Changes
  BY <1>2, OldValuesType
<1>4. job' \in Jobs
  BY <1>1 DEF TypeInv, RowsOfJob, Jobs, Steps
<1>5. DOMAIN recs' = DOMAIN recs \cup {r}
  BY <1>1
<1>6. /\ DOMAIN recs' \subseteq RecIds
      /\ \A q \in DOMAIN recs' :
             recs'[q].data \in Changes /\ recs'[q].prev \in RecIds \cup {NoRec}
  BY <1>1, <1>3, <1>5 DEF TypeInv, TypeOK, Rows, Tables
<1>9. /\ job'.mode = job.mode /\ job'.step = "update" /\ job'.tx = job.tx
      /\ job'.at = job.at /\ job'.start = job.start
  BY <1>1 DEF TypeInv, RowsOfJob, Jobs
<1>10. job.mode # "none"
  BY DEF LogOld, MayWrite, At
<1>7. TypeOK'
  BY <1>6, <1>9, <1>10, Working DEF LogOld, TypeInv, TypeOK, Steps
<1>8. RowsOfJob'
  BY <1>1, <1>2, <1>4 DEF LogOld, TypeInv, RowsOfJob, At, Jobs
<1> QED
  BY <1>7, <1>8 DEF TypeInv

LEMMA UpdateRowTypes == ASSUME TypeInv, UpdateRow PROVE TypeInv'
<1>1. job.key \in Keys /\ job.change \in Writes /\ rows[job.key].val \in Present
  BY DEF UpdateRow, TypeInv, RowsOfJob
<1>2. Changed(rows[job.key].val, job.change) \in Present
  BY <1>1, ChangedPresent, WritesAreValues
<1>3. rows' \in Tables
  BY <1>2 DEF UpdateRow, TypeInv, TypeOK, RowsOfJob, Jobs, Rows, Contents, Tables, Present
<1>4. job' \in Jobs
  BY SeenType DEF UpdateRow, TypeInv, RowsOfJob, Jobs, Steps
<1>7. /\ job'.mode = job.mode /\ job'.step = "note" /\ job'.tx = job.tx
      /\ job'.at = job.at /\ job'.start = job.start
  BY DEF UpdateRow, TypeInv, RowsOfJob, Jobs
<1>5. TypeOK'
  BY <1>3, <1>7, Working DEF UpdateRow, At, TypeInv, TypeOK, Tables, Steps
<1>6. RowsOfJob'
  <2>1. /\ job'.mode = "apply" /\ job'.step = "note" /\ job'.key = job.key
        /\ job'.before = Seen
    BY DEF UpdateRow, At, TypeInv, RowsOfJob, Jobs
  <2>2. \A k \in Keys : rows'[k].rb # NoRec => rows'[k].val \in Present
    BY <1>1, <1>2 DEF UpdateRow, TypeInv, TypeOK, Tables, RowsOfJob
  <2> QED
    BY <1>1, <1>4, <2>1, <2>2, SeenType DEF TypeInv, RowsOfJob, At
<1> QED
  BY <1>5, <1>6 DEF TypeInv

LEMMA InsertRowTypes ==
    ASSUME TypeInv, NEW k \in Keys, NEW c \in Writes, InsertRow(k, c)
    PROVE  TypeInv'
<1>1. Changed(Default, c) \in Present
  BY DefaultPresent
<1>2. rows' \in Tables
  BY <1>1 DEF InsertRow, TypeInv, TypeOK, Rows, Contents, Tables, Present
<1>3. job' \in Jobs
  BY SeenType DEF InsertRow, TypeInv, RowsOfJob, Jobs, Steps
<1>6. /\ job'.mode = job.mode /\ job'.step = "note" /\ job'.tx = job.tx
      /\ job'.at = job.at /\ job'.start = job.start
  BY DEF InsertRow, TypeInv, RowsOfJob, Jobs
<1>4. TypeOK'
  BY <1>2, <1>6, Working DEF InsertRow, MayWrite, At, TypeInv, TypeOK, Tables, Steps
<1>5. RowsOfJob'
  <2>1. /\ job'.mode = "apply" /\ job'.step = "note" /\ job'.key = k
        /\ job'.before = Seen
    BY DEF InsertRow, MayWrite, At, TypeInv, RowsOfJob, Jobs
  <2>2. \A l \in Keys : rows'[l].rb # NoRec => rows'[l].val \in Present
    BY DEF InsertRow, TypeInv, TypeOK, Tables, RowsOfJob
  <2> QED
    BY <1>3, <2>1, <2>2, SeenType DEF TypeInv, RowsOfJob, At
<1> QED
  BY <1>4, <1>5 DEF TypeInv

LEMMA NoteTxTypes == ASSUME TypeInv, NoteTx PROVE TypeInv'
<1> DEFINE entry == [key |-> job.key, before |-> job.before, after |-> Seen]
<1>1. job # NoJob /\ job.tx \in Tx /\ entry \in Entries
  BY Working, SeenType DEF NoteTx, At, TypeInv, RowsOfJob, Entries
<1>2. /\ Append(log[job.tx], entry) \in Seq(Entries)
      /\ Len(Append(log[job.tx], entry)) = Len(log[job.tx]) + 1
  BY <1>1, AppendProperties DEF TypeInv, TypeOK
<1>3. log' \in [Tx -> Seq(Entries)] /\ log'[job.tx] = Append(log[job.tx], entry)
  BY <1>1, <1>2 DEF NoteTx, TypeInv, TypeOK
<1>4. job' \in Jobs
  BY DEF NoteTx, TypeInv, RowsOfJob, Jobs, Steps
<1>5. Len(log[job.tx]) \in Nat
  BY <1>1 DEF TypeInv, TypeOK
<1>6. job'.at = job.at /\ job'.tx = job.tx /\ job'.mode = job.mode /\ job'.start = job.start
      /\ job'.step = "write"
  BY DEF NoteTx, TypeInv, RowsOfJob, Jobs
<1>9. job'.at <= Len(log'[job'.tx])
  BY <1>2, <1>3, <1>5, <1>6, Working DEF NoteTx, At
<1>7. TypeOK'
  BY <1>1, <1>3, <1>6, <1>9 DEF NoteTx, TypeInv, TypeOK, Steps
<1>8. RowsOfJob'
  BY <1>4, <1>6 DEF NoteTx, TypeInv, RowsOfJob, At
<1> QED
  BY <1>7, <1>8 DEF TypeInv

LEMMA EndTxTypes == ASSUME TypeInv, EndTx PROVE TypeInv'
<1>1. job # NoJob /\ [tx |-> job.tx, before |-> job.start, after |-> Seen] \in Txs
  BY Working, SeenType DEF EndTx, At, Txs, TypeInv
<1>2. done' \in Seq(Txs)
  BY <1>1, AppendProperties DEF EndTx, TypeInv, TypeOK
<1>3. TypeOK'
  BY <1>2 DEF EndTx, TypeInv, TypeOK
<1>4. RowsOfJob'
  BY NoJobType DEF EndTx, TypeInv, RowsOfJob, At, NoJob
<1> QED
  BY <1>3, <1>4 DEF TypeInv

(* The steps by which writes are taken back.                               *)
LEMMA UndoingTypes ==
    ASSUME TypeInv, NEW t \in Tx, NEW start \in Tables, job' = Undoing(t, start),
           UNCHANGED <<rows, recs, log, done, crashes, damaged>>, refused' \in Nat
    PROVE  TypeInv'
<1>1. log[t] \in Seq(Entries) /\ Len(log[t]) \in Nat
  BY DEF TypeInv, TypeOK
<1>2. job' \in Jobs
  BY <1>1, NoJobType DEF Undoing, Jobs, NoJob, Modes, Steps
<1>3. /\ job'.mode = "undo" /\ job'.step = "restore" /\ job'.tx = t
      /\ job'.at = Len(log[t]) /\ job'.start = start
  BY DEF Undoing, NoJob
<1>4. job'.at \in Nat /\ job'.at <= Len(log'[job'.tx])
  BY <1>1, <1>3
<1>5. TypeOK'
  BY <1>3, <1>4 DEF TypeInv, TypeOK, Modes, Steps, Tables
<1>6. RowsOfJob'
  BY <1>2, <1>3 DEF TypeInv, RowsOfJob, At
<1> QED
  BY <1>5, <1>6 DEF TypeInv

LEMMA FailTypes == ASSUME TypeInv, FailTx \/ UpdateFails PROVE TypeInv'
<1>1. job.tx \in Tx /\ job.start \in Tables
  BY Working DEF FailTx, UpdateFails, At
<1>2. refused' \in Nat
  BY DEF FailTx, UpdateFails, TypeInv, TypeOK
<1>3. /\ job' = Undoing(job.tx, job.start)
      /\ UNCHANGED <<rows, recs, log, done, crashes, damaged>>
  BY DEF FailTx, UpdateFails
<1> QED
  BY <1>1, <1>2, <1>3, UndoingTypes

LEMMA BeginUndoTypes == ASSUME TypeInv, BeginUndo PROVE TypeInv'
<1>1. done[Len(done)] \in Txs
  <2>1. done \in Seq(Txs) /\ done # <<>>
    BY DEF BeginUndo, TypeInv, TypeOK
  <2>2. Len(done) \in 1 .. Len(done)
    BY <2>1, EmptySeq
  <2>3. ASSUME NEW s \in Seq(Txs), NEW i \in 1 .. Len(s) PROVE s[i] \in Txs
    BY <2>3, ElementOfSeq
  <2> QED
    BY <2>1, <2>2, <2>3
<1>2. done[Len(done)].tx \in Tx /\ Seen \in Tables
  BY <1>1, SeenType DEF TypeInv, Txs
<1> QED
  BY <1>2, UndoingTypes DEF BeginUndo, TypeInv, TypeOK

(* What is left of the job when no transaction is written or begun.        *)
LEMMA UndoStepTypes ==
    ASSUME TypeInv, rows' \in Tables, job.mode = "undo", job' \in Jobs,
           job'.mode = "undo", job'.tx = job.tx, job'.start = job.start,
           job'.at <= job.at, job'.step = "delete" => job'.at > 0,
           DOMAIN recs' \subseteq RecIds,
           \A r \in DOMAIN recs' :
               recs'[r].data \in Changes /\ recs'[r].prev \in RecIds \cup {NoRec},
           \A k \in Keys : rows'[k].rb # NoRec => rows'[k].val \in Present,
           UNCHANGED <<log, done, crashes, refused, damaged>>
    PROVE  TypeInv'
<1>1. job'.at \in Nat /\ job'.step \in Steps
  BY DEF Jobs
<1>2. job'.at <= Len(log'[job'.tx])
  BY <1>1, Working
<1>3. TypeOK'
  BY <1>1, <1>2, Working DEF TypeInv, TypeOK, Modes, Tables
<1>4. RowsOfJob'
  BY DEF RowsOfJob, At
<1> QED
  BY <1>3, <1>4 DEF TypeInv

(* The row at hand is a row, and its record holds values of columns.       *)
LEMMA UndoKeyType ==
    ASSUME TypeInv, job.mode = "undo", job.at > 0
    PROVE  UndoKey \in Keys
<1>1. log[job.tx][job.at] \in Entries
  BY Working
<1> QED
  BY <1>1 DEF UndoKey, Entries

LEMMA RestoreRowTypes == ASSUME TypeInv, RestoreRow PROVE TypeInv'
<1> DEFINE r == rows[UndoKey].rb
<1>1. UndoKey \in Keys
  BY UndoKeyType DEF RestoreRow, At
<1>2. r \in DOMAIN recs /\ r # NoRec
  BY DEF RestoreRow, Unreadable
<1>3. recs[r].data \in Changes /\ recs[r].prev \in RecIds \cup {NoRec}
  BY <1>2 DEF TypeInv, TypeOK
<1>4. rows[UndoKey].val \in Present
  BY <1>1, <1>2 DEF TypeInv, RowsOfJob
<1>5. Changed(rows[UndoKey].val, recs[r].data) \in Present
  BY <1>3, <1>4, ChangedPresent, ChangesAreValues
<1>6. rows' = [rows EXCEPT ![UndoKey] =
                  [val |-> Changed(rows[UndoKey].val, recs[r].data), rb |-> recs[r].prev]]
  BY DEF RestoreRow
<1>7. rows' \in Tables
  BY <1>1, <1>3, <1>5, <1>6 DEF TypeInv, TypeOK, Tables, Rows, Contents, Present
<1>8. \A k \in Keys : rows'[k].rb # NoRec => rows'[k].val \in Present
  BY <1>1, <1>5, <1>6 DEF TypeInv, TypeOK, RowsOfJob
<1>9. job' = [job EXCEPT !.step = "delete", !.rec = r] /\ job.mode = "undo"
  BY DEF RestoreRow, At
<1>10. job' \in Jobs
  BY <1>2, <1>9 DEF TypeInv, TypeOK, RowsOfJob, Jobs, Steps
<1>11. job'.mode = "undo" /\ job'.tx = job.tx /\ job'.start = job.start /\ job'.at = job.at
  BY <1>9 DEF TypeInv, RowsOfJob, Jobs
<1>12. job'.at <= job.at /\ job'.at > 0
  <2>1. job.at \in Nat /\ job.at > 0
    BY Working DEF RestoreRow, At
  <2> QED
    BY <1>11, <2>1
<1>13. UNCHANGED <<recs, log, done, crashes, refused, damaged>>
  BY DEF RestoreRow
<1> QED
  BY <1>7, <1>8, <1>9, <1>10, <1>11, <1>12, <1>13, UndoStepTypes DEF TypeInv, TypeOK

LEMMA DeleteRecTypes == ASSUME TypeInv, DeleteRec PROVE TypeInv'
<1>1. job.mode = "undo" /\ job.at \in Nat /\ job.at > 0 /\ job \in Jobs
  BY Working DEF DeleteRec, At, TypeInv, RowsOfJob
<1>2. job' = [job EXCEPT !.step = "restore", !.at = job.at - 1, !.rec = NoRec]
  BY DEF DeleteRec
<1>8. job.at - 1 \in Nat
  BY <1>1
<1>3. job' \in Jobs
  BY <1>1, <1>2, <1>8 DEF Jobs, Steps
<1>4. /\ job'.mode = "undo" /\ job'.tx = job.tx /\ job'.start = job.start
      /\ job'.at <= job.at /\ job'.step = "restore"
  BY <1>1, <1>2 DEF Jobs
<1>5. recs' = [i \in DOMAIN recs \ {job.rec} |-> recs[i]] /\ UNCHANGED <<rows, log, done, crashes, refused, damaged>>
  BY DEF DeleteRec
<1>6. /\ DOMAIN recs' \subseteq RecIds
      /\ \A r \in DOMAIN recs' :
             recs'[r].data \in Changes /\ recs'[r].prev \in RecIds \cup {NoRec}
  BY <1>5 DEF TypeInv, TypeOK
<1>7. rows' \in Tables /\ \A k \in Keys : rows'[k].rb # NoRec => rows'[k].val \in Present
  BY <1>5 DEF TypeInv, TypeOK, RowsOfJob, Tables
<1> QED
  BY <1>1, <1>3, <1>4, <1>5, <1>6, <1>7, UndoStepTypes

LEMMA DeleteRowTypes == ASSUME TypeInv, DeleteRow PROVE TypeInv'
<1>1. UndoKey \in Keys /\ job.mode = "undo" /\ job.at \in Nat /\ job.at > 0 /\ job \in Jobs
  BY UndoKeyType, Working DEF DeleteRow, At, TypeInv, RowsOfJob
<1>2. rows' = [rows EXCEPT ![UndoKey] = NoRow] /\ job' = [job EXCEPT !.at = job.at - 1]
  BY DEF DeleteRow
<1>3. NoRow \in Rows /\ NoRow.rb = NoRec
  BY DEF NoRow, Rows, Contents
<1>4. rows' \in Tables
  BY <1>1, <1>2, <1>3 DEF TypeInv, TypeOK, Tables
<1>5. \A k \in Keys : rows'[k].rb # NoRec => rows'[k].val \in Present
  BY <1>1, <1>2, <1>3 DEF TypeInv, TypeOK, RowsOfJob
<1>6. job' \in Jobs
  BY <1>1, <1>2 DEF Jobs
<1>7. /\ job'.mode = "undo" /\ job'.tx = job.tx /\ job'.start = job.start
      /\ job'.at <= job.at /\ job'.step = "restore"
  BY <1>1, <1>2 DEF DeleteRow, At, Jobs
<1>8. UNCHANGED <<recs, log, done, crashes, refused, damaged>>
  BY DEF DeleteRow
<1> QED
  BY <1>1, <1>4, <1>5, <1>6, <1>7, <1>8, UndoStepTypes DEF TypeInv, TypeOK

LEMMA EndTypes ==
    ASSUME TypeInv, UndoFails \/ EndUndo \/ Crash \/ ChargeStays
    PROVE  TypeInv'
<1>1. job' = NoJob /\ UNCHANGED <<rows, recs>>
  BY DEF UndoFails, EndUndo, Crash, ChargeStays
<1>2. crashes' \in Nat /\ refused' \in Nat /\ damaged' \in BOOLEAN
  <2>1. crashes \in Nat /\ refused \in Nat /\ damaged \in BOOLEAN
    BY DEF TypeInv, TypeOK
  <2>2. (crashes' = crashes \/ crashes' = crashes + 1) /\ refused' = refused
    BY DEF UndoFails, EndUndo, Crash, ChargeStays
  <2>3. damaged' = damaged \/ damaged' = TRUE
    BY Zenon DEF UndoFails, EndUndo, Crash, ChargeStays
  <2>4. crashes' \in Nat /\ refused' \in Nat
    BY <2>1, <2>2
  <2>5. damaged' \in BOOLEAN
    BY <2>1, <2>3, Zenon
  <2> QED
    BY <2>4, <2>5
<1>3. log' \in [Tx -> Seq(Entries)]
  <2>1. <<>> \in Seq(Entries)
    OBVIOUS
  <2> QED
    BY <2>1 DEF UndoFails, EndUndo, Crash, ChargeStays, TypeInv, TypeOK
<1>4. done' \in Seq(Txs)
  <2>1. done \in Seq(Txs)
    BY DEF TypeInv, TypeOK
  <2>2. Len(done) \in Nat /\ \A i \in 1 .. Len(done) - 1 : done[i] \in Txs
    <3>1. Len(done) \in Nat
      BY <2>1
    <3>2. ASSUME NEW i \in 1 .. Len(done) - 1 PROVE done[i] \in Txs
      <4>1. i \in 1 .. Len(done)
        BY <3>1
      <4> QED
        BY <2>1, <4>1, ElementOfSeq
    <3> QED
      BY <3>1, <3>2
  <2>3. SubSeq(done, 1, Len(done) - 1) \in Seq(Txs)
    BY <2>2, SubSeqProperties
  <2> QED
    BY <2>1, <2>3 DEF UndoFails, EndUndo, Crash, ChargeStays
<1>5. TypeOK'
  BY <1>1, <1>2, <1>3, <1>4 DEF TypeInv, TypeOK
<1>6. RowsOfJob'
  BY <1>1, NoJobType, NoJobFields DEF TypeInv, RowsOfJob, At
<1> QED
  BY <1>5, <1>6 DEF TypeInv

LEMMA StepTypes == TypeInv /\ [Next]_vars => TypeInv'
<1> SUFFICES ASSUME TypeInv, [Next]_vars PROVE TypeInv'
  OBVIOUS
<1>1. CASE \E t \in Tx : BeginTx(t)
  BY <1>1, BeginTxTypes
<1>2. CASE \E k \in Keys, c \in Writes : LogOld(k, c)
  BY <1>2, LogOldTypes
<1>3. CASE \E k \in Keys, c \in Writes : InsertRow(k, c)
  BY <1>3, InsertRowTypes
<1>4. CASE UpdateRow \/ NoteTx \/ EndTx \/ FailTx \/ UpdateFails
  BY <1>4, UpdateRowTypes, NoteTxTypes, EndTxTypes, FailTypes
<1>5. CASE BeginUndo \/ RestoreRow \/ DeleteRec \/ DeleteRow
  BY <1>5, BeginUndoTypes, RestoreRowTypes, DeleteRecTypes, DeleteRowTypes
<1>6. CASE UndoFails \/ EndUndo \/ Crash \/ ChargeStays
  BY <1>6, EndTypes
<1>7. CASE UNCHANGED vars
  BY <1>7 DEF vars, TypeInv, TypeOK, RowsOfJob, At
<1> QED
  BY <1>1, <1>2, <1>3, <1>4, <1>5, <1>6, <1>7 DEF Next

(* The tables, the records of old values and the lists of written rows     *)
(* keep their types, in every transaction, undo and crash                  *)
(* (selectiveLoggingAndUpd, selectiveRollback, autoRollback).              *)
THEOREM TypeCorrect == Spec => []TypeOK
<1>1. TypeInv => TypeOK
  BY DEF TypeInv
<1> QED
  BY <1>1, InitTypes, StepTypes, PTL DEF Spec

-----------------------------------------------------------------------------
(* The chains of records.                                                  *)

Faults == crashes + refused

LEMMA FaultsType == TypeInv => Faults \in Nat
BY DEF Faults, TypeInv, TypeOK

(* The record that is being linked or unlinked belongs to no row.          *)
Loose == At("apply", "update") \/ At("undo", "delete")

Orphans(S) == DOMAIN recs \ S

(* S holds the chains of all rows.  What an update is about to link is not *)
(* among them, and leads to where the row leads now.  The other orphans    *)
(* come from crashes and refused UPDATEs.                                  *)
Linked(S) ==
    /\ S \subseteq DOMAIN recs
    /\ HoldsChains(S)
    /\ Loose => job.rec \in Orphans(S) /\ job.rec # NoRec
    /\ At("apply", "update") => recs[job.rec].prev = rows[job.key].rb
    /\ IsFiniteSet(Orphans(S))
    /\ Cardinality(Orphans(S)) <= Faults + (IF Loose THEN 1 ELSE 0)

ChainInv == TypeInv /\ \E S : Linked(S)

LEMMA LinkedSet == ASSUME NEW S, Linked(S) PROVE S \in SUBSET DOMAIN recs /\ HoldsChains(S)
BY DEF Linked

LEMMA InitChains == Init => ChainInv
<1> SUFFICES ASSUME Init PROVE Linked({})
  BY InitTypes DEF ChainInv
<1>1. DOMAIN recs = {} /\ rows = Genesis /\ Faults = 0
  BY DEF Init, Faults
<1>2. HoldsChains({})
  BY <1>1, GenesisAssumption DEF HoldsChains
<1>3. ~Loose
  BY NoJobFields DEF Init, Loose, At
<1>4. Orphans({}) = {}
  BY <1>1 DEF Orphans
<1>5. IsFiniteSet(Orphans({})) /\ Cardinality(Orphans({})) = 0
  BY <1>4, FS_EmptySet
<1> QED
  BY <1>1, <1>2, <1>3, <1>5 DEF Linked, Loose

(* What LogOld does: a record more that belongs to no row yet.             *)
LEMMA LogOldChains ==
    ASSUME TypeInv, NEW S, Linked(S), NEW k \in Keys, NEW c \in Writes, LogOld(k, c)
    PROVE  Linked(S)'
<1>1. PICK r \in RecIds \ DOMAIN recs :
          /\ recs' = [i \in DOMAIN recs \cup {r} |->
                         IF i = r THEN [data |-> OldValues(rows[k].val, c),
                                        prev |-> rows[k].rb]
                         ELSE recs[i]]
          /\ job' = [job EXCEPT !.step = "update", !.key = k, !.change = c, !.rec = r]
  BY DEF LogOld
<1>2. DOMAIN recs' = DOMAIN recs \cup {r} /\ rows' = rows /\ Faults' = Faults
  BY <1>1 DEF LogOld, Faults
<1>3. \A q \in S : recs'[q] = recs[q]
  BY <1>1 DEF Linked
<1>4. HoldsChains(S)'
  BY <1>2, <1>3 DEF Linked, HoldsChains
<1>5. job'.rec = r /\ job'.key = k /\ job'.mode = job.mode /\ job'.step = "update"
  BY <1>1 DEF TypeInv, RowsOfJob, Jobs
<1>6. r # NoRec /\ r \notin S
  BY BoundsAssumption DEF Linked
<1>7. Orphans(S)' = Orphans(S) \cup {r}
  BY <1>2, <1>6 DEF Orphans
<1>8. recs'[r].prev = rows[k].rb
  BY <1>1
<1>9. ~Loose /\ Loose' /\ ~At("undo", "delete")'
  BY <1>5 DEF LogOld, MayWrite, Loose, At
<1>10. /\ IsFiniteSet(Orphans(S)) /\ Cardinality(Orphans(S)) <= Faults
       /\ Cardinality(Orphans(S)) \in Nat /\ r \notin Orphans(S) /\ Faults \in Nat
  BY <1>9, FS_CardinalityType, FaultsType DEF Linked, Orphans, TypeInv, TypeOK
<1>11. IsFiniteSet(Orphans(S)') /\ Cardinality(Orphans(S)') = Cardinality(Orphans(S)) + 1
  BY <1>7, <1>10, FS_AddElement
<1>12. Cardinality(Orphans(S)') <= Faults' + 1
  BY <1>2, <1>10, <1>11
<1>13. S \subseteq DOMAIN recs'
  BY <1>2 DEF Linked
<1>14. r \in Orphans(S)'
  BY <1>7
<1> QED
  BY <1>2, <1>4, <1>5, <1>6, <1>8, <1>9, <1>11, <1>12, <1>13, <1>14 DEF Linked

(* UpdateRow links it.                                                     *)
LEMMA UpdateRowChains ==
    ASSUME TypeInv, NEW S, Linked(S), NEW r, r = job.rec, UpdateRow
    PROVE  Linked(S \cup {r})'
<1> DEFINE k == job.key
<1>1. At("apply", "update") /\ Loose /\ k \in Keys
  BY DEF UpdateRow, Loose, TypeInv, RowsOfJob
<1>2. /\ r \in DOMAIN recs /\ r \notin S /\ r # NoRec /\ recs[r].prev = rows[k].rb
      /\ S \subseteq DOMAIN recs
  BY <1>1 DEF Linked, Orphans
<1>3. UNCHANGED recs /\ Faults' = Faults
  BY DEF UpdateRow, Faults
<1>4. \A l \in Keys : rows'[l].rb = IF l = k THEN r ELSE rows[l].rb
  BY <1>1 DEF UpdateRow, TypeInv, TypeOK, Tables
<1>5. \A l \in Keys : rows[l].rb \in S \cup {NoRec}
  BY DEF Linked, HoldsChains
<1>6. \A q \in S : recs[q].prev \in S \cup {NoRec}
  BY DEF Linked, HoldsChains
<1>7. \A l, m \in Keys : rows'[l].rb = rows'[m].rb /\ rows'[l].rb # NoRec => l = m
  BY <1>2, <1>4, <1>5 DEF Linked, HoldsChains
<1>8. \A q \in S \cup {r}, l \in Keys : recs[q].prev = rows'[l].rb => rows'[l].rb = NoRec
  BY <1>1, <1>2, <1>4, <1>5, <1>6 DEF Linked, HoldsChains
<1>9. \A p, q \in S \cup {r} : recs[p].prev = recs[q].prev /\ recs[p].prev # NoRec => p = q
  BY <1>1, <1>2 DEF Linked, HoldsChains
<1>10. HoldsChains(S \cup {r})'
  BY <1>1, <1>2, <1>3, <1>4, <1>5, <1>6, <1>7, <1>8, <1>9 DEF HoldsChains
<1>11. Orphans(S \cup {r})' = Orphans(S) \ {r}
  BY <1>3 DEF Orphans
<1>12. ~Loose'
  BY DEF UpdateRow, TypeInv, RowsOfJob, Jobs, Loose, At
<1>13. r \in Orphans(S) /\ IsFiniteSet(Orphans(S)) /\ Cardinality(Orphans(S)) <= Faults + 1
       /\ Cardinality(Orphans(S)) \in Nat /\ Faults \in Nat
  BY <1>1, FS_CardinalityType, FaultsType DEF Linked, TypeInv, TypeOK
<1>14. /\ IsFiniteSet(Orphans(S \cup {r})')
       /\ Cardinality(Orphans(S \cup {r})') = Cardinality(Orphans(S)) - 1
  BY <1>11, <1>13, FS_RemoveElement
<1>15. Cardinality(Orphans(S \cup {r})') <= Faults'
  BY <1>3, <1>13, <1>14
<1>16. Faults' \in Nat
  BY <1>3, <1>13
<1> QED
  BY <1>2, <1>3, <1>10, <1>12, <1>14, <1>15, <1>16 DEF Linked, Loose

(* RestoreRow unlinks the youngest record of a row.                        *)
LEMMA RestoreRowChains ==
    ASSUME TypeInv, NEW S, Linked(S), NEW r, r = rows[UndoKey].rb, RestoreRow
    PROVE  Linked(S \ {r})'
<1> DEFINE k == UndoKey
<1>1. k \in Keys
  BY UndoKeyType DEF RestoreRow, At
<1>2. r # NoRec /\ r \in DOMAIN recs /\ r \in S /\ rows[k].rb = r
  BY <1>1 DEF RestoreRow, Unreadable, Linked, HoldsChains
<1>3. UNCHANGED recs /\ Faults' = Faults /\ S \subseteq DOMAIN recs
  BY DEF RestoreRow, Linked, Faults
<1>4. \A l \in Keys : rows'[l].rb = IF l = k THEN recs[r].prev ELSE rows[l].rb
  BY <1>1 DEF RestoreRow, TypeInv, TypeOK, Tables
<1>5. \A l \in Keys : rows[l].rb \in S \cup {NoRec} /\ (rows[l].rb = r => l = k)
  BY <1>1, <1>2 DEF Linked, HoldsChains
<1>6. \A q \in S : recs[q].prev \in S \cup {NoRec} /\ recs[q].prev # r
  BY <1>1, <1>2 DEF Linked, HoldsChains
<1>7. \A l \in Keys : rows'[l].rb \in (S \ {r}) \cup {NoRec}
  BY <1>2, <1>4, <1>5, <1>6
<1>8. \A l, m \in Keys : rows'[l].rb = rows'[m].rb /\ rows'[l].rb # NoRec => l = m
  BY <1>1, <1>2, <1>4 DEF Linked, HoldsChains
<1>9. \A q \in S \ {r}, l \in Keys : recs[q].prev = rows'[l].rb => rows'[l].rb = NoRec
  BY <1>2, <1>4 DEF Linked, HoldsChains
<1>10. \A p, q \in S \ {r} : recs[p].prev = recs[q].prev /\ recs[p].prev # NoRec => p = q
  BY DEF Linked, HoldsChains
<1>11. HoldsChains(S \ {r})'
  BY <1>3, <1>6, <1>7, <1>8, <1>9, <1>10 DEF HoldsChains
<1>12. job'.mode = job.mode /\ job'.step = "delete" /\ job'.rec = r
  BY <1>2 DEF RestoreRow, TypeInv, RowsOfJob, Jobs
<1>13. ~Loose /\ Loose' /\ ~At("apply", "update")'
  BY <1>12 DEF RestoreRow, Loose, At
<1>14. Orphans(S \ {r})' = Orphans(S) \cup {r} /\ r \notin Orphans(S)
  BY <1>2, <1>3 DEF Orphans
<1>15. /\ IsFiniteSet(Orphans(S)) /\ Cardinality(Orphans(S)) <= Faults
       /\ Cardinality(Orphans(S)) \in Nat /\ Faults \in Nat
  BY <1>13, FS_CardinalityType, FaultsType DEF Linked, TypeInv, TypeOK
<1>16. /\ IsFiniteSet(Orphans(S \ {r})')
       /\ Cardinality(Orphans(S \ {r})') = Cardinality(Orphans(S)) + 1
  <2>1. /\ IsFiniteSet(Orphans(S) \cup {r})
        /\ Cardinality(Orphans(S) \cup {r}) = Cardinality(Orphans(S)) + 1
    BY <1>14, <1>15, FS_AddElement
  <2> QED
    BY <1>14, <2>1
<1>17. Cardinality(Orphans(S \ {r})') <= Faults' + 1
  BY <1>3, <1>15, <1>16
<1> QED
  BY <1>2, <1>3, <1>11, <1>12, <1>13, <1>14, <1>16, <1>17 DEF Linked

(* DeleteRec deletes it.                                                   *)
LEMMA DeleteRecChains ==
    ASSUME TypeInv, NEW S, Linked(S), DeleteRec
    PROVE  Linked(S)'
<1>1. At("undo", "delete") /\ Loose /\ job.rec \in Orphans(S)
  BY DEF DeleteRec, Loose, Linked
<1>2. recs' = [i \in DOMAIN recs \ {job.rec} |-> recs[i]] /\ rows' = rows /\ Faults' = Faults
  BY DEF DeleteRec, Faults
<1>3. DOMAIN recs' = DOMAIN recs \ {job.rec} /\ \A q \in S : recs'[q] = recs[q]
  BY <1>1, <1>2 DEF Orphans, Linked
<1>4. HoldsChains(S)'
  <2>1. rows' = rows /\ HoldsChains(S)
    BY <1>2 DEF Linked
  <2> QED
    BY <1>3, <2>1 DEF HoldsChains
<1>5. job'.mode = "undo" /\ job'.step = "restore"
  BY DEF DeleteRec, At, TypeInv, RowsOfJob, Jobs
<1>6. ~Loose'
  BY <1>5 DEF Loose, At
<1>7. Orphans(S)' = Orphans(S) \ {job.rec}
  BY <1>3 DEF Orphans
<1>8. /\ IsFiniteSet(Orphans(S)) /\ Cardinality(Orphans(S)) <= Faults + 1
      /\ Cardinality(Orphans(S)) \in Nat /\ Faults \in Nat
  BY <1>1, FS_CardinalityType, FaultsType DEF Linked, TypeInv, TypeOK
<1>9. IsFiniteSet(Orphans(S)') /\ Cardinality(Orphans(S)') = Cardinality(Orphans(S)) - 1
  BY <1>1, <1>7, <1>8, FS_RemoveElement
<1>10. Cardinality(Orphans(S)') <= Faults' /\ Faults' \in Nat
  BY <1>2, <1>8, <1>9
<1>11. S \subseteq DOMAIN recs'
  BY <1>1, <1>3 DEF Linked, Orphans
<1> QED
  BY <1>4, <1>6, <1>9, <1>10, <1>11 DEF Linked, Loose

(* Steps that touch no record: a row keeps its rb_id or loses it.          *)
LEMMA UntouchedChains ==
    ASSUME TypeInv, NEW S, Linked(S), UNCHANGED recs, ~Loose',
           \A k \in Keys : rows'[k].rb \in {rows[k].rb, NoRec},
           \/ Faults' = Faults /\ ~Loose
           \/ Faults' = Faults + 1
    PROVE  Linked(S)'
<1>1. HoldsChains(S)'
  BY DEF Linked, HoldsChains
<1>2. Orphans(S)' = Orphans(S)
  BY DEF Orphans
<1>3. Cardinality(Orphans(S)) \in Nat /\ Faults \in Nat
  BY FS_CardinalityType, FaultsType DEF Linked, TypeInv, TypeOK
<1>4. Cardinality(Orphans(S)) <= Faults'
  BY <1>3 DEF Linked
<1>5. Faults' \in Nat
  BY <1>3
<1> QED
  BY <1>1, <1>2, <1>4, <1>5 DEF Linked, Loose

LEMMA InsertRowChains ==
    ASSUME TypeInv, NEW S, Linked(S), NEW k \in Keys, NEW c \in Writes, InsertRow(k, c)
    PROVE  Linked(S)'
<1>1. \A l \in Keys : rows'[l].rb \in {rows[l].rb, NoRec}
  BY DEF InsertRow, TypeInv, TypeOK
<1>2. ~Loose /\ ~Loose'
  BY DEF InsertRow, MayWrite, TypeInv, RowsOfJob, Jobs, Loose, At
<1> QED
  BY <1>1, <1>2, UntouchedChains DEF InsertRow, Faults

LEMMA DeleteRowChains ==
    ASSUME TypeInv, NEW S, Linked(S), DeleteRow
    PROVE  Linked(S)'
<1>1. \A l \in Keys : rows'[l].rb \in {rows[l].rb, NoRec}
  BY DEF DeleteRow, NoRow, TypeInv, TypeOK
<1>2. ~Loose /\ ~Loose'
  BY DEF DeleteRow, TypeInv, RowsOfJob, Jobs, Loose, At
<1> QED
  BY <1>1, <1>2, UntouchedChains DEF DeleteRow, Faults

(* Steps that only move the job on, or end it.                             *)
LEMMA JobChains ==
    ASSUME TypeInv, NEW S, Linked(S),
           \/ \E t \in Tx : BeginTx(t)
           \/ NoteTx \/ EndTx \/ FailTx \/ UpdateFails \/ BeginUndo \/ UndoFails \/ EndUndo \/ Crash
           \/ ChargeStays
    PROVE  Linked(S)'
<1>1. UNCHANGED <<rows, recs>>
  BY DEF BeginTx, NoteTx, EndTx, FailTx, UpdateFails, BeginUndo, UndoFails, EndUndo, Crash,
          ChargeStays
<1>2. ~Loose'
  <2>1. CASE \E t \in Tx : BeginTx(t)
    BY <2>1 DEF BeginTx, NoJob, Loose, At
  <2>2. CASE NoteTx
    BY <2>2 DEF NoteTx, TypeInv, RowsOfJob, Jobs, Loose, At
  <2>3. CASE EndTx \/ UndoFails \/ EndUndo \/ Crash \/ ChargeStays
    BY <2>3, NoJobFields DEF EndTx, UndoFails, EndUndo, Crash, ChargeStays, Loose, At
  <2>4. CASE FailTx \/ UpdateFails \/ BeginUndo
    BY <2>4 DEF FailTx, UpdateFails, BeginUndo, Undoing, NoJob, Loose, At
  <2> QED
    BY <2>1, <2>2, <2>3, <2>4
<1>3. (Faults' = Faults /\ ~Loose) \/ Faults' = Faults + 1
  <2>1. CASE \/ \E t \in Tx : BeginTx(t)
             \/ BeginUndo
    BY <2>1, NoJobFields DEF BeginTx, BeginUndo, Idle, Loose, At, Faults
  <2>2. CASE NoteTx \/ EndTx \/ FailTx \/ UndoFails \/ EndUndo \/ ChargeStays
    BY <2>2 DEF NoteTx, EndTx, FailTx, UndoFails, EndUndo, ChargeStays, Loose, At, Faults
  <2>3. CASE Crash \/ UpdateFails
    BY <2>3 DEF Crash, UpdateFails, Faults, TypeInv, TypeOK
  <2> QED
    BY <2>1, <2>2, <2>3
<1> QED
  BY <1>1, <1>2, <1>3, UntouchedChains

LEMMA StepChains == ChainInv /\ [Next]_vars => ChainInv'
<1> SUFFICES ASSUME ChainInv, [Next]_vars PROVE \E S : Linked(S)'
  BY StepTypes DEF ChainInv
<1>1. PICK S : Linked(S)
  BY DEF ChainInv
<1>2. TypeInv
  BY DEF ChainInv
<1>3. CASE \E k \in Keys, c \in Writes : LogOld(k, c)
  BY <1>1, <1>2, <1>3, LogOldChains
<1>4. CASE \E k \in Keys, c \in Writes : InsertRow(k, c)
  BY <1>1, <1>2, <1>4, InsertRowChains
<1>5. CASE UpdateRow
  <2>1. PICK r : r = job.rec
    OBVIOUS
  <2> QED
    BY <1>1, <1>2, <1>5, <2>1, UpdateRowChains
<1>6. CASE RestoreRow
  <2>1. PICK r : r = rows[UndoKey].rb
    OBVIOUS
  <2> QED
    BY <1>1, <1>2, <1>6, <2>1, RestoreRowChains
<1>7. CASE DeleteRec
  BY <1>1, <1>2, <1>7, DeleteRecChains
<1>8. CASE DeleteRow
  BY <1>1, <1>2, <1>8, DeleteRowChains
<1>9. CASE \/ \E t \in Tx : BeginTx(t)
           \/ NoteTx \/ EndTx \/ FailTx \/ UpdateFails \/ BeginUndo \/ UndoFails \/ EndUndo \/ Crash
           \/ ChargeStays
  BY <1>1, <1>2, <1>9, JobChains
<1>10. CASE UNCHANGED vars
  <2>1. Linked(S)'
    BY <1>1, <1>10 DEF vars, Linked, HoldsChains, Orphans, Loose, At, Faults
  <2> QED
    BY <2>1
<1> QED
  BY <1>3, <1>4, <1>5, <1>6, <1>7, <1>8, <1>9, <1>10 DEF Next

(* Whenever the process dies and whatever is taken back twice then, all    *)
(* records that an undo needs are there, each for one row alone (the order *)
(* of the statements in selectiveLoggingAndUpd and selectiveRollback).     *)
THEOREM Whole == Spec => []ChainsWhole
<1>1. ChainInv => ChainsWhole
  BY LinkedSet DEF ChainInv, ChainsWhole
<1> QED
  BY <1>1, InitChains, StepChains, PTL DEF Spec

(* The table rollback keeps at most one record that belongs to no row for  *)
(* each crash and each refused UPDATE: whatever is taken back leaves       *)
(* nothing behind (selectiveRollback).                                     *)
THEOREM OrphansBounded == Spec => []FewOrphans
<1>1. ChainInv => FewOrphans
  <2> SUFFICES ASSUME ChainInv, Idle
               PROVE  \E S \in SUBSET DOMAIN recs :
                          HoldsChains(S) /\ Cardinality(DOMAIN recs \ S) <= crashes + refused
    BY DEF FewOrphans
  <2>1. PICK S : Linked(S)
    BY DEF ChainInv
  <2>2. ~Loose /\ Faults \in Nat
    BY NoJobFields, FaultsType DEF Idle, Loose, At, ChainInv
  <2>3. Cardinality(DOMAIN recs \ S) <= Faults
    BY <2>1, <2>2 DEF Linked, Orphans
  <2> QED
    BY <2>1, <2>3, LinkedSet DEF Faults
<1> QED
  BY <1>1, InitChains, StepChains, PTL DEF Spec

-----------------------------------------------------------------------------
(* The promise, for columns whose values the texts of the log can represent.*)

(* No column of bytes, and no NULL in a column of text.  A NULL in another *)
(* column is allowed: an undo fails there, and does not lose it.           *)
Representable ==
    \A f \in Fields :
        /\ Kind[f] # "bytes"
        /\ Kind[f] = "text" =>
               /\ Null \notin Domain[f]
               /\ \A k \in Keys : Genesis[k].val # NoVal => Genesis[k].val[f] # Null

NoNulls(change) == \A f \in DOMAIN change : Kind[f] = "text" => change[f] # Null

TextsHold ==
    /\ \A k \in Keys : rows[k].val \in Present => NoNulls(rows[k].val)
    /\ \A r \in DOMAIN recs : NoNulls(recs[r].data)

(* The record r of rc can be put back.                                     *)
Fits(r, rc) ==
    /\ r \in DOMAIN rc
    /\ \A f \in DOMAIN rc[r].data : Kind[f] # "number" \/ rc[r].data[f] # NullText

(* The tables rs, once a write of the row k is taken back with rc.         *)
Undone(rs, k, rc) ==
    [rs EXCEPT ![k] =
        IF rs[k].rb = NoRec THEN NoRow
        ELSE [val |-> Changed(rs[k].val, rc[rs[k].rb].data), rb |-> rc[rs[k].rb].prev]]

RecOf(e) == e.after[e.key].rb

(* The entry can be taken back with the records rc, or the undo fails.     *)
TakesBack(e, rc) ==
    /\ RecOf(e) # NoRec => RecOf(e) \in DOMAIN rc
    /\ RecOf(e) = NoRec \/ Fits(RecOf(e), rc) => e.before = Undone(e.after, e.key, rc)

(* The number of writes of a transaction that are not taken back yet.      *)
Top(t) ==
    IF job.mode = "undo" /\ job.tx = t
    THEN IF job.step = "delete" THEN job.at - 1 ELSE job.at
    ELSE Len(log[t])

(* The write that is not in rollback_tx yet.                               *)
Pending == [key |-> job.key, before |-> job.before, after |-> rows]

EntriesHold ==
    /\ \A t \in Tx : \A i \in 1 .. Top(t) : TakesBack(log[t][i], recs)
    /\ \A t, u \in Tx : \A i \in 1 .. Top(t), j \in 1 .. Top(u) :
           RecOf(log[t][i]) = RecOf(log[u][j]) /\ RecOf(log[t][i]) # NoRec
               => t = u /\ i = j

LooseHolds ==
    /\ Loose => \A t \in Tx : \A i \in 1 .. Top(t) : RecOf(log[t][i]) # job.rec
    /\ At("apply", "update") =>
           recs[job.rec].data = OldValues(rows[job.key].val, job.change)
    /\ At("apply", "note") =>
           /\ TakesBack(Pending, recs)
           /\ RecOf(Pending) # NoRec =>
                  \A t \in Tx : \A i \in 1 .. Top(t) : RecOf(log[t][i]) # RecOf(Pending)

(* The first n writes of the list w lead from the tables a to b.           *)
Spans(w, n, a, b) == IF n = 0 THEN a = b ELSE w[1].before = a /\ w[n].after = b

WritesMeet ==
    \A t \in Tx : \A i \in 1 .. Len(log[t]) :
        i < Len(log[t]) => log[t][i].after = log[t][i + 1].before

IsDone(t) == \E i \in 1 .. Len(done) : done[i].tx = t

(* The tables between two operations.                                      *)
Base == IF Idle THEN rows ELSE job.start

DoneHolds ==
    /\ \A i, j \in 1 .. Len(done) : done[i].tx = done[j].tx => i = j
    /\ \A i \in 1 .. Len(done) : i < Len(done) => done[i].after = done[i + 1].before
    /\ \A i \in 1 .. Len(done) :
           Spans(log[done[i].tx], Len(log[done[i].tx]), done[i].before, done[i].after)
    /\ \A t \in Tx : ~IsDone(t) /\ (Idle \/ job.tx # t) => log[t] = <<>>
    /\ done # <<>> => done[Len(done)].after = Base

LastIsJob == done # <<>> /\ done[Len(done)].tx = job.tx

(* The tables to which an undo leads.                                      *)
Goal == IF LastIsJob THEN done[Len(done)].before ELSE job.start

JobHolds ==
    /\ job.mode = "apply" =>
           /\ ~IsDone(job.tx)
           /\ Spans(log[job.tx], Len(log[job.tx]), job.start,
                    IF job.step = "note" THEN job.before ELSE rows)
    /\ job.mode = "undo" =>
           /\ IsDone(job.tx) => LastIsJob
           /\ Spans(log[job.tx], Top(job.tx), Goal, rows)

StackHolds ==
    /\ TextsHold /\ EntriesHold /\ LooseHolds /\ WritesMeet /\ DoneHolds /\ JobHolds

StackInv == ChainInv /\ (Intact => StackHolds)

-----------------------------------------------------------------------------
LEMMA Readable == \A r : Fits(r, recs) <=> ~Unreadable(r)
BY DEF Fits, Unreadable

LEMMA TakesBackStill ==
    ASSUME NEW e, NEW rc, NEW rd, TakesBack(e, rc),
           RecOf(e) # NoRec => RecOf(e) \in DOMAIN rd /\ rd[RecOf(e)] = rc[RecOf(e)]
    PROVE  TakesBack(e, rd)
BY DEF TakesBack, Fits, Undone, RecOf

LEMMA TopType ==
    ASSUME TypeInv, NEW t \in Tx
    PROVE  /\ Top(t) \in Nat /\ Top(t) <= Len(log[t])
           /\ Len(log[t]) \in Nat /\ log[t] \in Seq(Entries)
<1>1. log[t] \in Seq(Entries) /\ Len(log[t]) \in Nat
  BY DEF TypeInv, TypeOK
<1>2. CASE job.mode = "undo" /\ job.tx = t
  <2>1. job.at \in Nat /\ job.at <= Len(log[t])
    BY <1>2, Working
  <2>2. job.step = "delete" => job.at > 0
    BY <1>2 DEF TypeInv, RowsOfJob, At
  <2> QED
    BY <1>1, <1>2, <2>1, <2>2 DEF Top
<1>3. CASE ~(job.mode = "undo" /\ job.tx = t)
  BY <1>1, <1>3 DEF Top
<1> QED
  BY <1>2, <1>3

LEMMA TopTypeNext ==
    TypeInv' => \A t \in Tx : Top(t)' \in Nat /\ Top(t)' <= Len(log'[t])
<1>1. TypeInv => \A t \in Tx : Top(t) \in Nat /\ Top(t) <= Len(log[t])
  BY TopType
<1>2. TypeInv' => (\A t \in Tx : Top(t) \in Nat /\ Top(t) <= Len(log[t]))'
  BY <1>1, PTL
<1> QED
  BY <1>2

LEMMA EntryType ==
    ASSUME TypeInv, NEW t \in Tx, NEW i \in 1 .. Len(log[t])
    PROVE  /\ log[t][i] \in Entries /\ log[t][i].key \in Keys
           /\ log[t][i].after \in Tables /\ log[t][i].before \in Tables
<1>1. log[t] \in Seq(Entries)
  BY DEF TypeInv, TypeOK
<1>2. log[t][i] \in Entries
  BY <1>1, ElementOfSeq
<1> QED
  BY <1>2 DEF Entries

(* The entries that are left stay as they are, as long as no record of     *)
(* theirs goes away.                                                       *)
LEMMA EntriesStay ==
    ASSUME TypeInv, TypeInv', EntriesHold, log' = log,
           \A t \in Tx : Top(t)' <= Top(t),
           \A t \in Tx : \A i \in 1 .. Top(t)' :
               RecOf(log[t][i]) # NoRec =>
                   /\ RecOf(log[t][i]) \in DOMAIN recs'
                   /\ recs'[RecOf(log[t][i])] = recs[RecOf(log[t][i])]
    PROVE  EntriesHold'
<1>1. \A t \in Tx : Top(t) \in Nat /\ Top(t)' \in Nat
  BY TopType, TopTypeNext
<1>2. \A t \in Tx : \A i \in 1 .. Top(t)' : i \in 1 .. Top(t)
  BY <1>1
<1>3. ASSUME NEW t \in Tx, NEW i \in 1 .. Top(t)'
      PROVE  TakesBack(log[t][i], recs')
  <2>1. TakesBack(log[t][i], recs)
    BY <1>2, <1>3 DEF EntriesHold
  <2> QED
    BY <1>3, <2>1, TakesBackStill
<1>4. \A t, u \in Tx : \A i \in 1 .. Top(t)', j \in 1 .. Top(u)' :
          RecOf(log[t][i]) = RecOf(log[u][j]) /\ RecOf(log[t][i]) # NoRec
              => t = u /\ i = j
  BY <1>2 DEF EntriesHold
<1> QED
  BY <1>3, <1>4 DEF EntriesHold, RecOf

(* A live entry's record is in rollback.                                   *)
LEMMA RecThere ==
    ASSUME EntriesHold, NEW t \in Tx, NEW i \in 1 .. Top(t), RecOf(log[t][i]) # NoRec
    PROVE  RecOf(log[t][i]) \in DOMAIN recs
BY DEF EntriesHold, TakesBack

-----------------------------------------------------------------------------
(* A transaction begins.                                                   *)
LEMMA BeginTxStack ==
    ASSUME StackInv, TypeInv', Intact, NEW x \in Tx, BeginTx(x)
    PROVE  StackHolds'
<1>1. StackHolds /\ TypeInv
  BY DEF StackInv, ChainInv
<1>2. /\ UNCHANGED <<rows, recs, log, done>>
      /\ job'.mode = "apply" /\ job'.step = "write" /\ job'.tx = x /\ job'.start = rows
  BY DEF BeginTx, NoJob, Seen
<1>3. Idle /\ job.mode = "none" /\ ~Idle'
  BY <1>2, NoJobFields DEF BeginTx, Idle
<1>4. ~IsDone(x)
  <2>1. DOMAIN done = 1 .. Len(done)
    BY <1>1 DEF TypeInv, TypeOK
  <2> QED
    BY <2>1 DEF BeginTx, IsDone
<1>5. log[x] = <<>>
  BY <1>1, <1>3, <1>4 DEF StackHolds, DoneHolds
<1>6. \A t \in Tx : Top(t)' = Top(t)
  BY <1>2, <1>3 DEF Top
<1>7. EntriesHold'
  <2>1. \A t \in Tx : Top(t)' <= Top(t)
    BY <1>1, <1>6, TopType
  <2> QED
    BY <1>1, <1>2, <1>6, <2>1, RecThere, EntriesStay DEF StackHolds
<1>8. TextsHold' /\ WritesMeet'
  BY <1>1, <1>2 DEF StackHolds, TextsHold, WritesMeet
<1>9. LooseHolds'
  BY <1>2 DEF LooseHolds, Loose, At
<1>10. DoneHolds'
  BY <1>1, <1>2, <1>3 DEF StackHolds, DoneHolds, Base, IsDone
<1>11. JobHolds'
  BY <1>2, <1>4, <1>5 DEF JobHolds, Spans, IsDone
<1> QED
  BY <1>7, <1>8, <1>9, <1>10, <1>11 DEF StackHolds

-----------------------------------------------------------------------------
(* A transaction writes.                                                   *)

LEMMA WriteNoNulls ==
    ASSUME Representable, NEW c \in Writes
    PROVE  NoNulls(c) /\ NoNulls(Changed(Default, c))
<1>1. \A f \in DOMAIN c : f \in Fields /\ c[f] \in Domain[f]
  BY ValuesAssumption
<1>2. \A f \in Fields : Default[f] \in Domain[f]
  BY ValuesAssumption
<1> QED
  BY <1>1, <1>2 DEF Representable, NoNulls, Changed

LEMMA OldNoNulls ==
    ASSUME Representable, NEW val \in Present, NoNulls(val), NEW c \in Writes
    PROVE  NoNulls(OldValues(val, c))
<1>1. \A f \in DOMAIN c : f \in Fields
  BY ValuesAssumption
<1>2. \A f \in DOMAIN c : Kind[f] = "text" => Logged(f, val[f]) = val[f] /\ val[f] # Null
  BY <1>1 DEF Representable, NoNulls, Logged, Present
<1> QED
  BY <1>2 DEF NoNulls, OldValues

LEMMA ChangedNoNulls ==
    ASSUME NEW val \in Present, NoNulls(val), NEW c, NoNulls(c)
    PROVE  NoNulls(Changed(val, c))
BY DEF NoNulls, Changed, Present

(* What is put back is what was there.                                     *)
LEMMA PutBack ==
    ASSUME Representable, NEW val \in Present, NoNulls(val), NEW c \in Writes,
           \A f \in DOMAIN c : Kind[f] # "number" \/ Logged(f, val[f]) # NullText
    PROVE  Changed(Changed(val, c), OldValues(val, c)) = val
<1>1. \A f \in DOMAIN c : f \in Fields
  BY ValuesAssumption
<1>2. \A f \in DOMAIN c : Logged(f, val[f]) = val[f]
  BY <1>1, ValuesAssumption DEF Representable, NoNulls, Logged, Present
<1>3. Changed(Changed(val, c), OldValues(val, c)) = [f \in Fields |-> val[f]]
  BY <1>2 DEF Changed, OldValues
<1> QED
  BY <1>3 DEF Present

LEMMA LogOldStack ==
    ASSUME StackInv, TypeInv', Intact, Representable,
           NEW k \in Keys, NEW c \in Writes, LogOld(k, c)
    PROVE  StackHolds'
<1>1. StackHolds /\ TypeInv
  BY DEF StackInv, ChainInv
<1>2. PICK r \in RecIds \ DOMAIN recs :
          /\ recs' = [i \in DOMAIN recs \cup {r} |->
                         IF i = r THEN [data |-> OldValues(rows[k].val, c),
                                        prev |-> rows[k].rb]
                         ELSE recs[i]]
          /\ job' = [job EXCEPT !.step = "update", !.key = k, !.change = c, !.rec = r]
  BY DEF LogOld
<1>3. UNCHANGED <<rows, log, done>> /\ job.mode = "apply" /\ job.step = "write"
  BY DEF LogOld, MayWrite, At
<1>4. /\ job'.mode = "apply" /\ job'.step = "update" /\ job'.tx = job.tx
      /\ job'.start = job.start /\ job'.key = k /\ job'.change = c /\ job'.rec = r
  BY <1>1, <1>2, <1>3 DEF TypeInv, RowsOfJob, Jobs
<1>5. ~Idle /\ ~Idle'
  BY <1>3, <1>4, NoJobFields DEF Idle
<1>6. DOMAIN recs' = DOMAIN recs \cup {r} /\ \A q \in DOMAIN recs : recs'[q] = recs[q]
  BY <1>2
<1>7. recs'[r].data = OldValues(rows[k].val, c)
  BY <1>2
<1>8. \A t \in Tx : Top(t)' = Top(t)
  BY <1>3, <1>4 DEF Top
<1>9. \A t \in Tx : \A i \in 1 .. Top(t) :
          RecOf(log[t][i]) # NoRec => RecOf(log[t][i]) \in DOMAIN recs
  BY <1>1, RecThere DEF StackHolds
<1>10. EntriesHold'
  <2>1. \A t \in Tx : Top(t)' <= Top(t)
    BY <1>1, <1>8, TopType
  <2> QED
    BY <1>1, <1>3, <1>6, <1>8, <1>9, <2>1, EntriesStay DEF StackHolds
<1>11. TextsHold'
  <2>1. rows[k].val \in Present
    BY <1>1 DEF LogOld, TypeInv, TypeOK, Tables, Rows, Contents, Present
  <2>2. NoNulls(OldValues(rows[k].val, c))
    BY <1>1, <2>1, OldNoNulls DEF StackHolds, TextsHold
  <2> QED
    BY <1>1, <1>3, <1>6, <1>7, <2>2 DEF StackHolds, TextsHold
<1>12. LooseHolds'
  <2>1. r # NoRec
    BY BoundsAssumption
  <2>2. \A t \in Tx : \A i \in 1 .. Top(t) : RecOf(log[t][i]) # r
    BY <1>9, <2>1
  <2> QED
    BY <1>3, <1>4, <1>7, <1>8, <2>2 DEF LooseHolds, Loose, At, RecOf
<1>13. WritesMeet'
  BY <1>1, <1>3 DEF StackHolds, WritesMeet
<1>14. DoneHolds'
  BY <1>1, <1>3, <1>4, <1>5 DEF StackHolds, DoneHolds, Base, IsDone
<1>15. JobHolds'
  BY <1>1, <1>3, <1>4 DEF StackHolds, JobHolds, IsDone
<1> QED
  BY <1>10, <1>11, <1>12, <1>13, <1>14, <1>15 DEF StackHolds

LEMMA UpdateRowStack ==
    ASSUME StackInv, TypeInv', Intact, Representable, UpdateRow
    PROVE  StackHolds'
<1> DEFINE k == job.key
           r == job.rec
           val == rows[k].val
<1>1. StackHolds /\ TypeInv
  BY DEF StackInv, ChainInv
<1>2. /\ UNCHANGED <<recs, log, done>> /\ job.mode = "apply" /\ job.step = "update"
      /\ rows' = [rows EXCEPT ![k] = [val |-> Changed(val, job.change), rb |-> r]]
      /\ job' = [job EXCEPT !.step = "note", !.before = rows]
  BY DEF UpdateRow, At, Seen
<1>3. /\ k \in Keys /\ job.change \in Writes /\ val \in Present
      /\ rows \in Tables /\ rows[k] \in Rows
  BY <1>1, <1>2 DEF TypeInv, TypeOK, RowsOfJob, At, Tables
<1>4. /\ job'.mode = "apply" /\ job'.step = "note" /\ job'.tx = job.tx
      /\ job'.start = job.start /\ job'.key = k /\ job'.before = rows
  BY <1>1, <1>2 DEF TypeInv, RowsOfJob, Jobs
<1>5. ~Idle /\ ~Idle'
  BY <1>2, <1>4, NoJobFields DEF Idle
<1>6. /\ r \in DOMAIN recs /\ r # NoRec /\ recs[r].prev = rows[k].rb
      /\ recs[r].data = OldValues(val, job.change)
      /\ \A t \in Tx : \A i \in 1 .. Top(t) : RecOf(log[t][i]) # r
  <2>1. PICK S : Linked(S)
    BY DEF StackInv, ChainInv
  <2> QED
    BY <1>1, <1>2, <2>1 DEF StackHolds, LooseHolds, Linked, Orphans, Loose, At
<1>7. \A t \in Tx : Top(t)' = Top(t)
  BY <1>2, <1>4 DEF Top
<1>8. EntriesHold'
  <2>1. \A t \in Tx : Top(t)' <= Top(t)
    BY <1>1, <1>7, TopType
  <2> QED
    BY <1>1, <1>2, <1>7, <2>1, RecThere, EntriesStay DEF StackHolds
<1>9. NoNulls(val) /\ NoNulls(Changed(val, job.change))
  BY <1>1, <1>3, WriteNoNulls, ChangedNoNulls DEF StackHolds, TextsHold
<1>10. TextsHold'
  BY <1>1, <1>2, <1>3, <1>9 DEF StackHolds, TextsHold, Tables
<1>11. rows'[k] = [val |-> Changed(val, job.change), rb |-> r]
  BY <1>2, <1>3 DEF Tables
<1>12. ASSUME Fits(r, recs) PROVE rows = Undone(rows', k, recs)
  <2>1. \A f \in DOMAIN job.change : Kind[f] # "number" \/ Logged(f, val[f]) # NullText
    BY <1>6, <1>12 DEF Fits, OldValues
  <2>2. Changed(Changed(val, job.change), OldValues(val, job.change)) = val
    BY <1>3, <1>9, <2>1, PutBack
  <2>3. Undone(rows', k, recs) = [rows' EXCEPT ![k] = [val |-> val, rb |-> rows[k].rb]]
    <3>1. rows'[k].rb = r /\ rows'[k].val = Changed(val, job.change)
      BY <1>11
    <3>2. Changed(rows'[k].val, recs[r].data) = val
      BY <1>6, <2>2, <3>1
    <3> QED
      BY <1>6, <3>1, <3>2 DEF Undone
  <2>4. rows[k] = [val |-> val, rb |-> rows[k].rb]
    BY <1>3 DEF Rows
  <2> QED
    BY <1>2, <1>3, <2>3, <2>4 DEF Tables
<1>13. LooseHolds'
  <2>1. Pending' = [key |-> k, before |-> rows, after |-> rows']
    BY <1>4 DEF Pending
  <2>2. RecOf(Pending') = r /\ TakesBack(Pending', recs)
    BY <1>6, <1>11, <1>12, <2>1 DEF RecOf, TakesBack
  <2> QED
    BY <1>2, <1>4, <1>6, <1>7, <2>2 DEF LooseHolds, Loose, At, RecOf
<1>14. WritesMeet'
  BY <1>1, <1>2 DEF StackHolds, WritesMeet
<1>15. DoneHolds'
  BY <1>1, <1>2, <1>4, <1>5 DEF StackHolds, DoneHolds, Base, IsDone
<1>16. JobHolds'
  BY <1>1, <1>2, <1>4 DEF StackHolds, JobHolds, IsDone
<1> QED
  BY <1>8, <1>10, <1>13, <1>14, <1>15, <1>16 DEF StackHolds

LEMMA InsertRowStack ==
    ASSUME StackInv, TypeInv', Intact, Representable,
           NEW k \in Keys, NEW c \in Writes, InsertRow(k, c)
    PROVE  StackHolds'
<1>1. StackHolds /\ TypeInv
  BY DEF StackInv, ChainInv
<1>2. /\ UNCHANGED <<recs, log, done>> /\ job.mode = "apply" /\ job.step = "write"
      /\ rows' = [rows EXCEPT ![k] = [val |-> Changed(Default, c), rb |-> NoRec]]
      /\ job' = [job EXCEPT !.step = "note", !.key = k, !.before = rows]
      /\ rows[k].val = NoVal
  BY DEF InsertRow, MayWrite, At, Seen
<1>3. /\ job'.mode = "apply" /\ job'.step = "note" /\ job'.tx = job.tx
      /\ job'.start = job.start /\ job'.key = k /\ job'.before = rows
  BY <1>1, <1>2 DEF TypeInv, RowsOfJob, Jobs
<1>4. ~Idle /\ ~Idle'
  BY <1>2, <1>3, NoJobFields DEF Idle
<1>5. rows \in Tables /\ rows[k] = NoRow
  <2>1. rows \in Tables /\ rows[k] \in Rows
    BY <1>1 DEF TypeInv, TypeOK, Tables
  <2>2. NoVal \notin Present
    <3>1. \E f \in Fields : TRUE
      BY ValuesAssumption
    <3>2. DOMAIN NoVal = {}
      BY DEF NoVal
    <3> QED
      BY <3>1, <3>2 DEF Present
  <2>3. rows[k].rb = NoRec
    BY <1>1, <1>2, <2>2 DEF TypeInv, RowsOfJob
  <2> QED
    BY <1>2, <2>1, <2>3 DEF NoRow, Rows
<1>6. \A t \in Tx : Top(t)' = Top(t)
  BY <1>2, <1>3 DEF Top
<1>7. EntriesHold'
  <2>1. \A t \in Tx : Top(t)' <= Top(t)
    BY <1>1, <1>6, TopType
  <2> QED
    BY <1>1, <1>2, <1>6, <2>1, RecThere, EntriesStay DEF StackHolds
<1>8. TextsHold'
  BY <1>1, <1>2, <1>5, WriteNoNulls DEF StackHolds, TextsHold, Tables
<1>9. LooseHolds'
  <2>1. Pending' = [key |-> k, before |-> rows, after |-> rows']
    BY <1>3 DEF Pending
  <2>2. rows'[k].rb = NoRec
    BY <1>2, <1>5 DEF Tables
  <2>3. rows = [rows' EXCEPT ![k] = NoRow]
    BY <1>2, <1>5 DEF Tables
  <2>4. RecOf(Pending') = NoRec /\ TakesBack(Pending', recs)
    BY <2>1, <2>2, <2>3 DEF RecOf, TakesBack, Undone
  <2> QED
    BY <1>2, <1>3, <2>4 DEF LooseHolds, Loose, At
<1>10. WritesMeet'
  BY <1>1, <1>2 DEF StackHolds, WritesMeet
<1>11. DoneHolds'
  BY <1>1, <1>2, <1>3, <1>4 DEF StackHolds, DoneHolds, Base, IsDone
<1>12. JobHolds'
  BY <1>1, <1>2, <1>3 DEF StackHolds, JobHolds, IsDone
<1> QED
  BY <1>7, <1>8, <1>9, <1>10, <1>11, <1>12 DEF StackHolds

LEMMA NoteTxStack ==
    ASSUME StackInv, TypeInv', Intact, Representable, NoteTx
    PROVE  StackHolds'
<1> DEFINE x == job.tx
           n == Len(log[x])
<1>1. StackHolds /\ TypeInv
  BY DEF StackInv, ChainInv
<1>2. /\ UNCHANGED <<rows, recs, done>> /\ job.mode = "apply" /\ job.step = "note"
      /\ log' = [log EXCEPT ![x] = Append(log[x], Pending)]
      /\ job' = [job EXCEPT !.step = "write", !.change = <<>>, !.rec = NoRec]
  BY DEF NoteTx, At, Seen, Pending
<1>3. /\ job'.mode = "apply" /\ job'.step = "write" /\ job'.tx = x
      /\ job'.start = job.start
  BY <1>1, <1>2 DEF TypeInv, RowsOfJob, Jobs
<1>4. ~Idle /\ ~Idle' /\ x \in Tx
  BY <1>1, <1>2, <1>3, NoJobFields, Working DEF Idle
<1>5. Pending \in Entries
  BY <1>1, <1>2 DEF Pending, Entries, TypeInv, TypeOK, RowsOfJob, At
<1>6. /\ n \in Nat /\ Len(log'[x]) = n + 1 /\ log'[x][n + 1] = Pending
      /\ \A i \in 1 .. n : log'[x][i] = log[x][i]
  <2>1. log[x] \in Seq(Entries) /\ log'[x] = Append(log[x], Pending)
    BY <1>1, <1>2, <1>4 DEF TypeInv, TypeOK
  <2> QED
    BY <1>5, <2>1, AppendProperties
<1>7. \A t \in Tx : t # x => log'[t] = log[t]
  BY <1>1, <1>2 DEF TypeInv, TypeOK
<1>8. Top(x) = n /\ Top(x)' = n + 1 /\ \A t \in Tx : t # x => Top(t)' = Top(t)
  BY <1>2, <1>3, <1>6, <1>7 DEF Top
<1>9. /\ TakesBack(Pending, recs)
      /\ RecOf(Pending) # NoRec =>
             \A t \in Tx : \A i \in 1 .. Top(t) : RecOf(log[t][i]) # RecOf(Pending)
  BY <1>1, <1>2 DEF StackHolds, LooseHolds, At
<1>10. ASSUME NEW t \in Tx, NEW i \in 1 .. Top(t)'
       PROVE  \/ i \in 1 .. Top(t) /\ log'[t][i] = log[t][i]
              \/ t = x /\ i = n + 1 /\ log'[t][i] = Pending
  <2>1. CASE t # x
    BY <1>7, <1>8, <1>10, <2>1
  <2>2. CASE t = x
    <3>1. i \in 1 .. n + 1
      BY <1>3, <1>6, <1>10, <2>2 DEF Top
    <3>2. i \in 1 .. n \/ i = n + 1
      BY <1>6, <3>1
    <3> QED
      BY <1>6, <1>8, <2>2, <3>2
  <2> QED
    BY <2>1, <2>2
<1>11. EntriesHold'
  <2>1. ASSUME NEW t \in Tx, NEW i \in 1 .. Top(t)'
        PROVE  TakesBack(log'[t][i], recs')
    BY <1>1, <1>2, <1>9, <1>10 DEF StackHolds, EntriesHold
  <2>2. ASSUME NEW t \in Tx, NEW u \in Tx, NEW i \in 1 .. Top(t)', NEW j \in 1 .. Top(u)',
               RecOf(log'[t][i]) = RecOf(log'[u][j]), RecOf(log'[t][i]) # NoRec
        PROVE  t = u /\ i = j
    BY <1>1, <1>9, <1>10, <2>2 DEF StackHolds, EntriesHold
  <2> QED
    BY <2>1, <2>2 DEF EntriesHold, RecOf
<1>12. TextsHold'
  BY <1>1, <1>2 DEF StackHolds, TextsHold
<1>13. LooseHolds'
  BY <1>3 DEF LooseHolds, Loose, At
<1>14. /\ n = 0 => job.start = Pending.before
       /\ n # 0 => log[x][1].before = job.start /\ log[x][n].after = Pending.before
  BY <1>1, <1>2 DEF StackHolds, JobHolds, Spans, Pending
<1>15. WritesMeet'
  <2>1. ASSUME NEW t \in Tx, NEW i \in 1 .. Len(log'[t]), i < Len(log'[t])
        PROVE  log'[t][i].after = log'[t][i + 1].before
    <3>1. CASE t # x
      BY <1>1, <1>7, <2>1, <3>1 DEF StackHolds, WritesMeet
    <3>2. CASE t = x /\ i < n
      <4>1. i \in 1 .. n /\ i + 1 \in 1 .. n
        BY <1>6, <2>1, <3>2
      <4>2. log'[x][i] = log[x][i] /\ log'[x][i + 1] = log[x][i + 1]
        BY <1>6, <4>1
      <4> QED
        BY <1>1, <3>2, <4>1, <4>2 DEF StackHolds, WritesMeet
    <3>3. CASE t = x /\ i >= n
      <4>1. i = n /\ n # 0 /\ n \in 1 .. n
        BY <1>6, <2>1, <3>3
      <4>2. log'[x][i] = log[x][n] /\ log'[x][i + 1] = Pending
        BY <1>6, <4>1
      <4> QED
        BY <1>14, <3>3, <4>1, <4>2
    <3> QED
      BY <1>6, <2>1, <3>1, <3>2, <3>3
  <2> QED
    BY <2>1 DEF WritesMeet
<1>16. ~IsDone(x) /\ ~IsDone(x)'
  BY <1>1, <1>2 DEF StackHolds, JobHolds, IsDone
<1>17. DoneHolds'
  <2>1. \A i \in 1 .. Len(done) : done[i].tx \in Tx /\ done[i].tx # x
    <3>1. ASSUME NEW i \in 1 .. Len(done) PROVE done[i].tx \in Tx
      <4>1. done[i] \in Txs
        BY <1>1, <3>1, ElementOfSeq DEF TypeInv, TypeOK
      <4> QED
        BY <4>1 DEF Txs
    <3> QED
      BY <1>16, <3>1 DEF IsDone
  <2>2. \A i \in 1 .. Len(done) : log'[done[i].tx] = log[done[i].tx]
    BY <1>7, <2>1
  <2> QED
    BY <1>1, <1>2, <1>3, <1>4, <1>7, <2>2 DEF StackHolds, DoneHolds, Base, IsDone
<1>18. JobHolds'
  <2>1. Spans(log'[x], n + 1, job.start, rows)
    BY <1>6, <1>14 DEF Spans, Pending
  <2> QED
    BY <1>2, <1>3, <1>6, <1>16, <2>1 DEF JobHolds
<1> QED
  BY <1>11, <1>12, <1>13, <1>15, <1>17, <1>18 DEF StackHolds

LEMMA DoneType ==
    ASSUME TypeInv, NEW i \in 1 .. Len(done)
    PROVE  done[i] \in Txs /\ done[i].tx \in Tx
<1>1. done[i] \in Txs
  BY ElementOfSeq DEF TypeInv, TypeOK
<1> QED
  BY <1>1 DEF Txs

LEMMA EndTxStack ==
    ASSUME StackInv, TypeInv', Intact, Representable, EndTx
    PROVE  StackHolds'
<1> DEFINE x == job.tx
           m == Len(done)
           new == [tx |-> x, before |-> job.start, after |-> rows]
<1>1. StackHolds /\ TypeInv
  BY DEF StackInv, ChainInv
<1>2. /\ UNCHANGED <<rows, recs, log>> /\ job.mode = "apply" /\ job.step = "write"
      /\ done' = Append(done, new) /\ job' = NoJob
  BY DEF EndTx, At, Seen
<1>3. job'.mode = "none" /\ ~Idle /\ Idle' /\ x \in Tx
  BY <1>1, <1>2, NoJobFields, Working DEF Idle
<1>4. /\ m \in Nat /\ Len(done') = m + 1 /\ done'[m + 1] = new
      /\ \A i \in 1 .. m : done'[i] = done[i]
  <2>1. done \in Seq(Txs) /\ new \in Txs
    BY <1>1, <1>3, Working, <1>2 DEF TypeInv, TypeOK, Txs
  <2> QED
    BY <1>2, <2>1, AppendProperties
<1>5. \A t \in Tx : Top(t)' = Top(t)
  BY <1>2, <1>3 DEF Top
<1>6. EntriesHold'
  <2>1. \A t \in Tx : Top(t)' <= Top(t)
    BY <1>1, <1>5, TopType
  <2> QED
    BY <1>1, <1>2, <1>5, <2>1, RecThere, EntriesStay DEF StackHolds
<1>7. TextsHold' /\ WritesMeet'
  BY <1>1, <1>2 DEF StackHolds, TextsHold, WritesMeet
<1>8. LooseHolds'
  BY <1>3 DEF LooseHolds, Loose, At
<1>9. ~IsDone(x) /\ Spans(log[x], Len(log[x]), job.start, rows)
  BY <1>1, <1>2 DEF StackHolds, JobHolds
<1>10. DoneHolds'
  <2>1. \A i, j \in 1 .. Len(done') : done'[i].tx = done'[j].tx => i = j
    BY <1>1, <1>4, <1>9 DEF StackHolds, DoneHolds, IsDone
  <2>2. ASSUME NEW i \in 1 .. Len(done'), i < Len(done')
        PROVE  done'[i].after = done'[i + 1].before
    <3>1. CASE i < m
      <4>1. i \in 1 .. m /\ i + 1 \in 1 .. m
        BY <1>4, <2>2, <3>1
      <4> QED
        BY <1>1, <1>4, <3>1, <4>1 DEF StackHolds, DoneHolds
    <3>2. CASE i = m
      <4>1. m \in 1 .. m /\ done # <<>>
        BY <1>1, <1>4, <2>2, <3>2, EmptySeq DEF TypeInv, TypeOK
      <4>2. done[m].after = job.start
        BY <1>1, <1>3, <4>1 DEF StackHolds, DoneHolds, Base
      <4> QED
        BY <1>4, <3>2, <4>1, <4>2
    <3> QED
      BY <1>4, <2>2, <3>1, <3>2
  <2>3. \A i \in 1 .. Len(done') :
            Spans(log'[done'[i].tx], Len(log'[done'[i].tx]), done'[i].before, done'[i].after)
    BY <1>1, <1>2, <1>4, <1>9 DEF StackHolds, DoneHolds
  <2>4. \A t \in Tx : ~IsDone(t)' => log'[t] = <<>>
    <3>1. \A t \in Tx : IsDone(t) \/ t = x => IsDone(t)'
      BY <1>4 DEF IsDone
    <3> QED
      BY <1>1, <1>2, <3>1 DEF StackHolds, DoneHolds
  <2>5. done'[Len(done')].after = Base'
    BY <1>2, <1>3, <1>4 DEF Base
  <2> QED
    BY <2>1, <2>2, <2>3, <2>4, <2>5 DEF DoneHolds
<1>11. JobHolds'
  BY <1>3 DEF JobHolds
<1> QED
  BY <1>6, <1>7, <1>8, <1>10, <1>11 DEF StackHolds

-----------------------------------------------------------------------------
(* A transaction is taken back.                                            *)

LEMMA LastDone ==
    ASSUME TypeInv, done # <<>>
    PROVE  Len(done) \in Nat /\ Len(done) \in 1 .. Len(done)
BY EmptySeq DEF TypeInv, TypeOK

LEMMA UndoingStack ==
    ASSUME StackInv, TypeInv', UNCHANGED <<rows, recs, log, done>>, NEW x \in Tx,
           job.mode # "undo",
           job'.mode = "undo", job'.step = "restore", job'.tx = x,
           job'.at = Len(log[x]), job'.start = Base,
           StackHolds,
           IsDone(x) => done # <<>> /\ done[Len(done)].tx = x,
           ~IsDone(x) => Spans(log[x], Len(log[x]), Base, rows),
           \A t \in Tx : ~IsDone(t) /\ t # x => log[t] = <<>>,
           done # <<>> /\ IsDone(x) => done[Len(done)].after = rows
    PROVE  StackHolds'
<1>1. TypeInv
  BY DEF StackInv, ChainInv
<1>2. ~Idle'
  BY NoJobFields DEF Idle
<1>3. \A t \in Tx : Top(t)' = Top(t)
  BY DEF Top
<1>4. EntriesHold'
  <2>1. \A t \in Tx : Top(t)' <= Top(t)
    BY <1>1, <1>3, TopType
  <2> QED
    BY <1>1, <1>3, <2>1, RecThere, EntriesStay DEF StackHolds
<1>5. TextsHold' /\ WritesMeet'
  BY DEF StackHolds, TextsHold, WritesMeet
<1>6. LooseHolds'
  BY DEF LooseHolds, Loose, At
<1>7. DoneHolds'
  BY <1>2 DEF StackHolds, DoneHolds, Base, IsDone
<1>8. JobHolds'
  <2>1. IsDone(x)' <=> IsDone(x)
    BY DEF IsDone
  <2>2. Top(x)' = Len(log[x])
    BY DEF Top
  <2>3. CASE IsDone(x)
    <3>1. LastIsJob' /\ Goal' = done[Len(done)].before
      BY <2>3 DEF LastIsJob, Goal
    <3>2. Spans(log[x], Len(log[x]), done[Len(done)].before, done[Len(done)].after)
      BY <1>1, <2>3, LastDone DEF StackHolds, DoneHolds
    <3> QED
      BY <2>1, <2>2, <2>3, <3>1, <3>2 DEF JobHolds
  <2>4. CASE ~IsDone(x)
    <3>1. ~LastIsJob' /\ Goal' = Base
      BY <1>1, <2>4, LastDone DEF LastIsJob, Goal, IsDone
    <3> QED
      BY <2>1, <2>2, <2>4, <3>1 DEF JobHolds
  <2> QED
    BY <2>3, <2>4
<1> QED
  BY <1>4, <1>5, <1>6, <1>7, <1>8 DEF StackHolds

LEMMA FailStack ==
    ASSUME StackInv, TypeInv', Intact, FailTx \/ UpdateFails
    PROVE  StackHolds'
<1>1. StackHolds /\ TypeInv
  BY DEF StackInv, ChainInv
<1>2. /\ UNCHANGED <<rows, recs, log, done>> /\ job.mode = "apply" /\ job.step # "note"
      /\ job' = Undoing(job.tx, job.start)
  BY DEF FailTx, UpdateFails, At
<1>3. ~Idle /\ job.tx \in Tx
  BY <1>1, <1>2, NoJobFields, Working DEF Idle
<1>4. /\ job'.mode = "undo" /\ job'.step = "restore" /\ job'.tx = job.tx
      /\ job'.at = Len(log[job.tx]) /\ job'.start = job.start
  BY <1>2 DEF Undoing, NoJob
<1>5. Base = job.start
  BY <1>3 DEF Base
<1>6. ~IsDone(job.tx) /\ Spans(log[job.tx], Len(log[job.tx]), job.start, rows)
  BY <1>1, <1>2 DEF StackHolds, JobHolds
<1>7. \A t \in Tx : ~IsDone(t) /\ t # job.tx => log[t] = <<>>
  BY <1>1 DEF StackHolds, DoneHolds
<1> QED
  BY <1>1, <1>2, <1>3, <1>4, <1>5, <1>6, <1>7, UndoingStack

LEMMA BeginUndoStack ==
    ASSUME StackInv, TypeInv', Intact, BeginUndo
    PROVE  StackHolds'
<1> DEFINE x == done[Len(done)].tx
<1>1. StackHolds /\ TypeInv
  BY DEF StackInv, ChainInv
<1>2. /\ UNCHANGED <<rows, recs, log, done>> /\ Idle /\ done # <<>>
      /\ job' = Undoing(x, rows)
  BY DEF BeginUndo, Seen
<1>3. x \in Tx /\ IsDone(x) /\ job.mode = "none"
  BY <1>1, <1>2, LastDone, DoneType, NoJobFields DEF IsDone, Idle
<1>4. /\ job'.mode = "undo" /\ job'.step = "restore" /\ job'.tx = x
      /\ job'.at = Len(log[x]) /\ job'.start = rows
  BY <1>2 DEF Undoing, NoJob
<1>5. Base = rows
  BY <1>2 DEF Base
<1>6. done[Len(done)].after = rows
  BY <1>1, <1>2, <1>5 DEF StackHolds, DoneHolds
<1>7. \A t \in Tx : ~IsDone(t) /\ t # x => log[t] = <<>>
  BY <1>1, <1>2 DEF StackHolds, DoneHolds
<1> QED
  BY <1>1, <1>2, <1>3, <1>4, <1>5, <1>6, <1>7, UndoingStack

(* What RestoreRow and DeleteRow have in common.                           *)
LEMMA TakenBackStack ==
    ASSUME StackInv, TypeInv', StackHolds, job.mode = "undo", job.step = "restore", job.at > 0,
           rows' = log[job.tx][job.at].before, UNCHANGED <<recs, log, done>>,
           job'.mode = "undo", job'.tx = job.tx, job'.start = job.start,
           Top(job.tx)' = job.at - 1
    PROVE  /\ EntriesHold' /\ WritesMeet' /\ DoneHolds' /\ JobHolds'
           /\ rows = log[job.tx][job.at].after
<1> DEFINE x == job.tx
<1>1. TypeInv /\ x \in Tx /\ job.at \in Nat /\ job.at <= Len(log[x]) /\ Len(log[x]) \in Nat
  BY Working DEF StackInv, ChainInv
<1>2. ~Idle /\ ~Idle'
  BY NoJobFields DEF Idle
<1>3. Top(x) = job.at /\ \A t \in Tx : t # x => Top(t)' = Top(t)
  BY DEF Top
<1>4. EntriesHold'
  <2>1. \A t \in Tx : Top(t)' <= Top(t)
    BY <1>1, <1>3, TopType
  <2>2. \A t \in Tx : \A i \in 1 .. Top(t)' : i \in 1 .. Top(t)
    BY <1>1, <2>1, TopType, TopTypeNext
  <2> QED
    BY <1>1, <2>1, <2>2, RecThere, EntriesStay DEF StackHolds
<1>5. WritesMeet'
  BY DEF StackHolds, WritesMeet
<1>6. DoneHolds'
  BY <1>2 DEF StackHolds, DoneHolds, Base, IsDone
<1>7. Spans(log[x], job.at, Goal, rows)
  BY <1>3 DEF StackHolds, JobHolds
<1>8. log[x][1].before = Goal /\ log[x][job.at].after = rows
  BY <1>7 DEF Spans
<1>9. Spans(log[x], job.at - 1, Goal, rows')
  <2>1. CASE job.at = 1
    BY <1>8, <2>1 DEF Spans
  <2>2. CASE job.at > 1
    <3>1. job.at - 1 \in 1 .. Len(log[x]) /\ job.at - 1 < Len(log[x])
      BY <1>1, <2>2
    <3>2. log[x][job.at - 1].after = log[x][job.at - 1 + 1].before
      BY <1>1, <3>1 DEF StackHolds, WritesMeet
    <3>3. job.at - 1 + 1 = job.at /\ job.at - 1 # 0
      BY <1>1, <2>2
    <3> QED
      BY <1>8, <3>2, <3>3 DEF Spans
  <2> QED
    BY <1>1, <2>1, <2>2
<1>10. Goal' = Goal /\ (LastIsJob' <=> LastIsJob) /\ (IsDone(x)' <=> IsDone(x))
  BY DEF Goal, LastIsJob, IsDone
<1>11. JobHolds'
  BY <1>9, <1>10 DEF StackHolds, JobHolds
<1> QED
  BY <1>4, <1>5, <1>6, <1>8, <1>11

LEMMA RestoreRowStack ==
    ASSUME StackInv, TypeInv', Intact, RestoreRow
    PROVE  StackHolds'
<1> DEFINE x == job.tx
           e == log[x][job.at]
           k == UndoKey
           r == rows[k].rb
<1>1. StackHolds /\ TypeInv
  BY DEF StackInv, ChainInv
<1>2. /\ job.mode = "undo" /\ job.step = "restore" /\ job.at > 0
      /\ UNCHANGED <<recs, log, done>>
      /\ r # NoRec /\ ~Unreadable(r)
      /\ rows' = [rows EXCEPT ![k] = [val |-> Changed(rows[k].val, recs[r].data),
                                     rb |-> recs[r].prev]]
      /\ job' = [job EXCEPT !.step = "delete", !.rec = r]
  BY DEF RestoreRow, At
<1>3. /\ x \in Tx /\ job.at \in 1 .. Len(log[x]) /\ job.at \in Nat
      /\ Top(x) = job.at /\ job.at \in 1 .. Top(x)
  BY <1>1, <1>2, Working DEF Top
<1>4. /\ job'.mode = "undo" /\ job'.step = "delete" /\ job'.tx = x
      /\ job'.start = job.start /\ job'.at = job.at /\ job'.rec = r
  BY <1>1, <1>2 DEF TypeInv, RowsOfJob, Jobs
<1>5. Top(x)' = job.at - 1 /\ \A t \in Tx : t # x => Top(t)' = Top(t)
  BY <1>2, <1>4 DEF Top
<1>6. e.after = rows /\ e.key = k
  <2>1. Spans(log[x], job.at, Goal, rows)
    BY <1>1, <1>2, <1>3 DEF StackHolds, JobHolds
  <2> QED
    BY <1>3, <2>1 DEF Spans, UndoKey
<1>7. rows' = e.before
  <2>1. TakesBack(e, recs)
    BY <1>1, <1>3 DEF StackHolds, EntriesHold
  <2>2. RecOf(e) = r /\ Fits(r, recs)
    BY <1>2, <1>6, Readable DEF RecOf
  <2>3. e.before = Undone(rows, k, recs)
    BY <1>6, <2>1, <2>2 DEF TakesBack
  <2> QED
    BY <1>2, <2>3 DEF Undone
<1>8. EntriesHold' /\ WritesMeet' /\ DoneHolds' /\ JobHolds'
  BY <1>1, <1>2, <1>4, <1>5, <1>7, TakenBackStack
<1>9. TextsHold'
  <2>1. k \in Keys /\ r \in DOMAIN recs
    BY <1>1, <1>2, UndoKeyType DEF Unreadable
  <2>2. rows[k].val \in Present /\ NoNulls(rows[k].val) /\ NoNulls(recs[r].data)
    BY <1>1, <1>2, <2>1 DEF StackHolds, TextsHold, TypeInv, RowsOfJob
  <2>3. NoNulls(Changed(rows[k].val, recs[r].data))
    BY <2>2, ChangedNoNulls
  <2> QED
    BY <1>1, <1>2, <2>1, <2>3 DEF StackHolds, TextsHold, TypeInv, TypeOK, Tables
<1>10. \A t \in Tx : \A i \in 1 .. Top(t)' : RecOf(log[t][i]) # r
  <2>1. RecOf(e) = r
    BY <1>6 DEF RecOf
  <2>2. ASSUME NEW t \in Tx, NEW i \in 1 .. Top(t)' PROVE i \in 1 .. Top(t) /\ ~(t = x /\ i = job.at)
    <3>1. CASE t # x
      BY <1>5, <2>2, <3>1
    <3>2. CASE t = x
      <4>1. i \in 1 .. job.at - 1
        BY <1>2, <1>4, <2>2, <3>2 DEF Top
      <4> QED
        BY <1>3, <3>2, <4>1
    <3> QED
      BY <3>1, <3>2
  <2> QED
    BY <1>1, <1>2, <1>3, <2>1, <2>2 DEF StackHolds, EntriesHold
<1>11. LooseHolds'
  BY <1>2, <1>4, <1>10 DEF LooseHolds, Loose, At, RecOf
<1> QED
  BY <1>8, <1>9, <1>11 DEF StackHolds

LEMMA DeleteRowStack ==
    ASSUME StackInv, TypeInv', Intact, DeleteRow
    PROVE  StackHolds'
<1> DEFINE x == job.tx
           e == log[x][job.at]
           k == UndoKey
<1>1. StackHolds /\ TypeInv
  BY DEF StackInv, ChainInv
<1>2. /\ job.mode = "undo" /\ job.step = "restore" /\ job.at > 0
      /\ UNCHANGED <<recs, log, done>> /\ rows[k].rb = NoRec
      /\ rows' = [rows EXCEPT ![k] = NoRow] /\ job' = [job EXCEPT !.at = job.at - 1]
  BY DEF DeleteRow, At
<1>3. /\ x \in Tx /\ job.at \in 1 .. Len(log[x]) /\ job.at \in Nat
      /\ Top(x) = job.at /\ job.at \in 1 .. Top(x)
  BY <1>1, <1>2, Working DEF Top
<1>4. /\ job'.mode = "undo" /\ job'.step = "restore" /\ job'.tx = x
      /\ job'.start = job.start /\ job'.at = job.at - 1
  BY <1>1, <1>2 DEF TypeInv, RowsOfJob, Jobs
<1>5. Top(x)' = job.at - 1
  BY <1>4 DEF Top
<1>6. e.after = rows /\ e.key = k
  <2>1. Spans(log[x], job.at, Goal, rows)
    BY <1>1, <1>2, <1>3 DEF StackHolds, JobHolds
  <2> QED
    BY <1>3, <2>1 DEF Spans, UndoKey
<1>7. rows' = e.before
  <2>1. TakesBack(e, recs)
    BY <1>1, <1>3 DEF StackHolds, EntriesHold
  <2>2. e.before = Undone(rows, k, recs)
    BY <1>2, <1>6, <2>1 DEF TakesBack, RecOf
  <2> QED
    BY <1>2, <2>2 DEF Undone
<1>8. EntriesHold' /\ WritesMeet' /\ DoneHolds' /\ JobHolds'
  BY <1>1, <1>2, <1>4, <1>5, <1>7, TakenBackStack
<1>9. TextsHold'
  <2>1. k \in Keys
    BY <1>1, <1>2, UndoKeyType
  <2>2. NoNulls(NoRow.val)
    <3>1. NoRow.val = <<>> /\ DOMAIN <<>> = {}
      BY DEF NoRow, NoVal
    <3> QED
      BY <3>1 DEF NoNulls
  <2>3. \A l \in Keys : rows'[l].val = rows[l].val \/ rows'[l].val = NoRow.val
    BY <1>1, <1>2, <2>1 DEF TypeInv, TypeOK, Tables
  <2> QED
    BY <1>1, <1>2, <2>2, <2>3 DEF StackHolds, TextsHold
<1>10. LooseHolds'
  BY <1>4 DEF LooseHolds, Loose, At
<1> QED
  BY <1>8, <1>9, <1>10 DEF StackHolds

LEMMA DeleteRecStack ==
    ASSUME StackInv, TypeInv', Intact, DeleteRec
    PROVE  StackHolds'
<1>1. StackHolds /\ TypeInv
  BY DEF StackInv, ChainInv
<1>2. /\ UNCHANGED <<rows, log, done>> /\ job.mode = "undo" /\ job.step = "delete"
      /\ recs' = [i \in DOMAIN recs \ {job.rec} |-> recs[i]]
      /\ job' = [job EXCEPT !.step = "restore", !.at = job.at - 1, !.rec = NoRec]
  BY DEF DeleteRec, At
<1>3. /\ job'.mode = "undo" /\ job'.step = "restore" /\ job'.tx = job.tx
      /\ job'.start = job.start /\ job'.at = job.at - 1
  BY <1>1, <1>2 DEF TypeInv, RowsOfJob, Jobs
<1>4. ~Idle /\ ~Idle'
  BY <1>2, <1>3, NoJobFields DEF Idle
<1>5. \A t \in Tx : Top(t)' = Top(t)
  BY <1>2, <1>3 DEF Top
<1>6. DOMAIN recs' = DOMAIN recs \ {job.rec} /\ \A q \in DOMAIN recs' : recs'[q] = recs[q]
  BY <1>2
<1>7. EntriesHold'
  <2>1. \A t \in Tx : Top(t)' <= Top(t)
    BY <1>1, <1>5, TopType
  <2>2. \A t \in Tx : \A i \in 1 .. Top(t) : RecOf(log[t][i]) # job.rec
    BY <1>1, <1>2 DEF StackHolds, LooseHolds, Loose, At
  <2> QED
    BY <1>1, <1>2, <1>5, <1>6, <2>1, <2>2, RecThere, EntriesStay DEF StackHolds
<1>8. TextsHold' /\ WritesMeet'
  BY <1>1, <1>2, <1>6 DEF StackHolds, TextsHold, WritesMeet
<1>9. LooseHolds'
  BY <1>3 DEF LooseHolds, Loose, At
<1>10. DoneHolds'
  BY <1>1, <1>2, <1>3, <1>4 DEF StackHolds, DoneHolds, Base, IsDone
<1>11. JobHolds'
  <2>1. Top(job.tx)' = Top(job.tx)
    BY <1>2, <1>3 DEF Top
  <2>2. Goal' = Goal /\ (LastIsJob' <=> LastIsJob) /\ (IsDone(job.tx)' <=> IsDone(job.tx))
    BY <1>2, <1>3 DEF Goal, LastIsJob, IsDone
  <2> QED
    BY <1>1, <1>2, <1>3, <2>1, <2>2 DEF StackHolds, JobHolds
<1> QED
  BY <1>7, <1>8, <1>9, <1>10, <1>11 DEF StackHolds

(* The sequence without its last element.                                  *)
LEMMA FrontType ==
    ASSUME NEW X, NEW s \in Seq(X), s # <<>>
    PROVE  LET m == Len(s)  front == SubSeq(s, 1, m - 1) IN
           /\ m \in Nat /\ m >= 1 /\ Len(front) = m - 1
           /\ DOMAIN front = 1 .. m - 1
           /\ \A i \in 1 .. m - 1 : front[i] = s[i]
<1>1. Len(s) \in Nat /\ Len(s) >= 1
  BY EmptySeq
<1>2. Len(SubSeq(s, 1, Len(s) - 1)) = Len(s) - 1
  <2> DEFINE n == Len(s) - 1
  <2>1. n \in Int /\ n \in Nat /\ \A i \in 1 .. n : s[i] \in X
    BY <1>1
  <2> HIDE DEF n
  <2>2. Len(SubSeq(s, 1, n)) = IF 1 <= n THEN n - 1 + 1 ELSE 0
    BY <2>1, SubSeqProperties
  <2>3. Len(SubSeq(s, 1, n)) = n
    BY <2>1, <2>2
  <2> QED
    BY <2>3 DEF n
<1>3. \A i \in 1 .. Len(s) - 1 : SubSeq(s, 1, Len(s) - 1)[i] = s[i]
  BY <1>1, SubSeqProperties
<1>4. DOMAIN SubSeq(s, 1, Len(s) - 1) = 1 .. Len(s) - 1
  BY <1>1
<1> QED
  BY <1>1, <1>2, <1>3, <1>4

LEMMA EndUndoStack ==
    ASSUME StackInv, TypeInv', Intact, EndUndo
    PROVE  StackHolds' /\ rows = Goal
<1> DEFINE m == Len(done)
<1>1. StackHolds /\ TypeInv
  BY DEF StackInv, ChainInv
<1>0. PICK x \in Tx : x = job.tx
  BY <1>1, Working DEF EndUndo, At
<1>2. /\ UNCHANGED <<rows, recs>> /\ job.mode = "undo" /\ job.step = "restore"
      /\ job.at = 0 /\ job' = NoJob /\ log' = [log EXCEPT ![x] = <<>>]
      /\ done' = IF LastIsJob THEN SubSeq(done, 1, m - 1) ELSE done
  BY <1>0 DEF EndUndo, At, LastIsJob
<1>3. job'.mode = "none" /\ ~Idle /\ Idle'
  BY <1>2, NoJobFields DEF Idle
<1>4. Top(x) = 0 /\ rows = Goal
  BY <1>0, <1>1, <1>2 DEF StackHolds, JobHolds, Spans, Top
<1>5. log'[x] = <<>> /\ \A t \in Tx : t # x => log'[t] = log[t]
  BY <1>1, <1>2 DEF TypeInv, TypeOK
<1>6. Top(x)' = 0 /\ \A t \in Tx : t # x => Top(t)' = Top(t)
  <2>1. Top(x)' = Len(log'[x])
    BY <1>3 DEF Top
  <2>2. Top(x)' = 0
    BY <1>5, <2>1
  <2>3. \A t \in Tx : t # x => Top(t)' = Top(t)
    BY <1>0, <1>2, <1>3, <1>5 DEF Top
  <2> QED
    BY <2>2, <2>3
<1>7. EntriesHold'
  <2>1. \A t \in Tx : \A i \in 1 .. Top(t)' :
            t # x /\ i \in 1 .. Top(t) /\ log'[t][i] = log[t][i]
    <3> SUFFICES ASSUME NEW t \in Tx, NEW i \in 1 .. Top(t)'
                 PROVE  t # x /\ i \in 1 .. Top(t) /\ log'[t][i] = log[t][i]
      OBVIOUS
    <3>1. t # x
      BY <1>6
    <3> QED
      BY <1>5, <1>6, <3>1
  <2>2. \A t \in Tx : \A i \in 1 .. Top(t)' : TakesBack(log'[t][i], recs')
    BY <1>1, <1>2, <2>1 DEF StackHolds, EntriesHold
  <2>3. \A t, u \in Tx : \A i \in 1 .. Top(t)', j \in 1 .. Top(u)' :
            RecOf(log'[t][i]) = RecOf(log'[u][j]) /\ RecOf(log'[t][i]) # NoRec
                => t = u /\ i = j
    BY <1>1, <2>1 DEF StackHolds, EntriesHold
  <2> QED
    BY <2>2, <2>3 DEF EntriesHold, RecOf
<1>8. TextsHold' /\ WritesMeet'
  BY <1>1, <1>2, <1>5 DEF StackHolds, TextsHold, WritesMeet
<1>9. LooseHolds'
  BY <1>3 DEF LooseHolds, Loose, At
<1>10. /\ m \in Nat /\ Len(done') \in Nat /\ Len(done') <= m
       /\ \A i \in 1 .. Len(done') : done'[i] = done[i] /\ done[i].tx # x
       /\ \A i \in 1 .. m : done[i].tx # x => i \in 1 .. Len(done')
  <2>1. CASE LastIsJob
    <3>1. done \in Seq(Txs) /\ done # <<>>
      BY <1>1, <2>1 DEF LastIsJob, TypeInv, TypeOK
    <3>2. /\ m \in Nat /\ m >= 1 /\ Len(done') = m - 1
          /\ \A i \in 1 .. m - 1 : done'[i] = done[i]
      BY <1>2, <2>1, <3>1, FrontType
    <3>3. done[m].tx = x
      BY <1>0, <2>1 DEF LastIsJob
    <3>4. \A i \in 1 .. m - 1 : done[i].tx # x
      BY <1>1, <3>2, <3>3 DEF StackHolds, DoneHolds
    <3> QED
      BY <3>2, <3>3, <3>4
  <2>2. CASE ~LastIsJob
    <3>1. m \in Nat /\ done' = done
      BY <1>1, <1>2, <2>2 DEF TypeInv, TypeOK
    <3>2. \A i \in 1 .. m : done[i].tx # x
      BY <1>0, <1>1, <1>2, <2>2 DEF StackHolds, JobHolds, IsDone
    <3> QED
      BY <3>1, <3>2
  <2> QED
    BY <2>1, <2>2
<1>11. done' # <<>> => done'[Len(done')].after = rows
  <2> SUFFICES ASSUME done' # <<>> PROVE done'[Len(done')].after = rows
    OBVIOUS
  <2>1. CASE LastIsJob
    <3>1. done \in Seq(Txs) /\ done # <<>> /\ done' \in Seq(Txs)
      BY <1>1, <2>1 DEF LastIsJob, TypeInv, TypeOK
    <3>2. /\ m \in Nat /\ m >= 1 /\ Len(done') = m - 1
          /\ \A i \in 1 .. m - 1 : done'[i] = done[i]
      BY <1>2, <2>1, <3>1, FrontType
    <3>3. m - 1 \in 1 .. m - 1 /\ m - 1 < m
      BY <3>1, <3>2, EmptySeq
    <3>4. done[m - 1].after = done[m].before
      <4>1. m - 1 \in 1 .. m /\ m - 1 + 1 = m
        BY <3>2, <3>3
      <4> QED
        BY <1>1, <3>3, <4>1 DEF StackHolds, DoneHolds
    <3> QED
      BY <1>4, <2>1, <3>2, <3>3, <3>4 DEF Goal
  <2>2. CASE ~LastIsJob
    BY <1>1, <1>2, <1>3, <1>4, <2>2 DEF StackHolds, DoneHolds, Goal, Base
  <2> QED
    BY <2>1, <2>2
<1>12. DoneHolds'
  <2>1. \A t \in Tx : ~IsDone(t)' => log'[t] = <<>>
    <3>1. \A t \in Tx : t # x => (IsDone(t) => IsDone(t)')
      BY <1>10 DEF IsDone
    <3> QED
      BY <1>0, <1>1, <1>5, <3>1 DEF StackHolds, DoneHolds
  <2>2. \A i \in 1 .. Len(done') :
            Spans(log'[done'[i].tx], Len(log'[done'[i].tx]), done'[i].before, done'[i].after)
    <3> SUFFICES ASSUME NEW i \in 1 .. Len(done')
                 PROVE  Spans(log'[done'[i].tx], Len(log'[done'[i].tx]),
                              done'[i].before, done'[i].after)
      OBVIOUS
    <3>1. i \in 1 .. m /\ done'[i] = done[i] /\ done[i].tx # x
      BY <1>10
    <3>2. log'[done[i].tx] = log[done[i].tx]
      BY <1>1, <1>5, <3>1, DoneType
    <3> QED
      BY <1>1, <3>1, <3>2 DEF StackHolds, DoneHolds
  <2>3. \A i \in 1 .. Len(done') : i < Len(done') => done'[i].after = done'[i + 1].before
    <3> SUFFICES ASSUME NEW i \in 1 .. Len(done'), i < Len(done')
                 PROVE  done'[i].after = done'[i + 1].before
      OBVIOUS
    <3>1. i \in 1 .. m /\ i < m /\ i + 1 \in 1 .. Len(done')
      BY <1>10
    <3> QED
      BY <1>1, <1>10, <3>1 DEF StackHolds, DoneHolds
  <2>4. \A i, j \in 1 .. Len(done') : done'[i].tx = done'[j].tx => i = j
    <3>1. \A i \in 1 .. Len(done') : i \in 1 .. m
      BY <1>10
    <3> QED
      BY <1>1, <1>10, <3>1 DEF StackHolds, DoneHolds
  <2> QED
    BY <1>2, <1>3, <1>11, <2>1, <2>2, <2>3, <2>4 DEF DoneHolds, Base
<1>13. JobHolds'
  BY <1>3 DEF JobHolds
<1> QED
  BY <1>4, <1>7, <1>8, <1>9, <1>12, <1>13 DEF StackHolds

-----------------------------------------------------------------------------
(* The stack of entries holds as long as nothing has damaged the tables.   *)
LEMMA InitStack == Init /\ Representable => StackInv
<1> SUFFICES ASSUME Init, Representable PROVE StackInv
  OBVIOUS
<1>1. ChainInv
  BY InitChains
<1>2. /\ rows = Genesis /\ recs = <<>> /\ done = <<>> /\ job = NoJob
      /\ \A t \in Tx : log[t] = <<>> /\ Len(log[t]) = 0
  BY DEF Init
<1>3. job.mode = "none" /\ Idle
  BY <1>2, NoJobFields DEF Idle
<1>4. DOMAIN recs = {} /\ Len(done) = 0
  BY DEF Init
<1>5. \A t \in Tx : Top(t) = 0
  BY <1>2, <1>3 DEF Top
<1>6. TextsHold
  <2>1. \A k \in Keys : rows[k].val \in Present => NoNulls(rows[k].val)
    <3> SUFFICES ASSUME NEW k \in Keys, rows[k].val \in Present,
                        NEW f \in DOMAIN rows[k].val, Kind[f] = "text"
                 PROVE  rows[k].val[f] # Null
      BY DEF NoNulls
    <3>1. f \in Fields
      BY DEF Present
    <3>2. rows[k].val # NoVal
      <4>1. DOMAIN NoVal = {}
        BY DEF NoVal
      <4> QED
        BY <4>1
    <3> QED
      BY <1>2, <3>1, <3>2 DEF Representable
  <2> QED
    BY <1>4, <2>1 DEF TextsHold
<1>7. EntriesHold /\ WritesMeet
  BY <1>2, <1>5 DEF EntriesHold, WritesMeet
<1>8. LooseHolds /\ JobHolds
  BY <1>3 DEF LooseHolds, JobHolds, Loose, At
<1>9. DoneHolds
  BY <1>2, <1>4 DEF DoneHolds
<1> QED
  BY <1>1, <1>6, <1>7, <1>8, <1>9 DEF StackInv, StackHolds

LEMMA Damaged ==
    ASSUME TypeInv, [Next]_vars, ~Intact
    PROVE  ~Intact'
<1>1. crashes \in Nat /\ (crashes # 0 \/ damaged = TRUE)
  BY DEF TypeInv, TypeOK, Intact
<1>2. (crashes' = crashes \/ crashes' = crashes + 1) /\ (damaged' = damaged \/ damaged' = TRUE)
  <2>1. CASE UNCHANGED <<crashes, damaged>>
    BY <2>1
  <2>2. CASE Crash \/ UndoFails \/ ChargeStays
    BY <2>2 DEF Crash, UndoFails, ChargeStays
  <2> QED
    BY <2>1, <2>2
       DEF Next, vars, BeginTx, LogOld, InsertRow, UpdateRow, NoteTx,
           EndTx, FailTx, UpdateFails, BeginUndo, RestoreRow, DeleteRec, DeleteRow, EndUndo
<1>3. crashes' # 0 \/ damaged' = TRUE
  BY <1>1, <1>2
<1> QED
  BY <1>3 DEF Intact

LEMMA StepStack == Representable /\ StackInv /\ [Next]_vars => StackInv'
<1> SUFFICES ASSUME Representable, StackInv, [Next]_vars, Intact' PROVE StackHolds'
  BY StepChains DEF StackInv
<1>1. TypeInv /\ TypeInv'
  BY StepChains DEF StackInv, ChainInv
<1>2. Intact
  BY <1>1, Damaged
<1>3. CASE \E t \in Tx : BeginTx(t)
  BY <1>1, <1>2, <1>3, BeginTxStack
<1>4. CASE \E k \in Keys, c \in Writes : LogOld(k, c)
  BY <1>1, <1>2, <1>4, LogOldStack
<1>5. CASE \E k \in Keys, c \in Writes : InsertRow(k, c)
  BY <1>1, <1>2, <1>5, InsertRowStack
<1>6. CASE UpdateRow
  BY <1>1, <1>2, <1>6, UpdateRowStack
<1>7. CASE NoteTx
  BY <1>1, <1>2, <1>7, NoteTxStack
<1>8. CASE EndTx
  BY <1>1, <1>2, <1>8, EndTxStack
<1>9. CASE FailTx \/ UpdateFails
  BY <1>1, <1>2, <1>9, FailStack
<1>10. CASE BeginUndo
  BY <1>1, <1>2, <1>10, BeginUndoStack
<1>11. CASE RestoreRow
  BY <1>1, <1>2, <1>11, RestoreRowStack
<1>12. CASE DeleteRec
  BY <1>1, <1>2, <1>12, DeleteRecStack
<1>13. CASE DeleteRow
  BY <1>1, <1>2, <1>13, DeleteRowStack
<1>14. CASE EndUndo
  BY <1>1, <1>2, <1>14, EndUndoStack
<1>15. CASE UndoFails \/ Crash \/ ChargeStays
  BY <1>1, <1>2, <1>15 DEF UndoFails, Crash, ChargeStays, Intact, TypeInv, TypeOK
<1>16. CASE UNCHANGED vars
  BY <1>2, <1>16
     DEF vars, StackInv, StackHolds, TextsHold, EntriesHold, LooseHolds, WritesMeet,
         DoneHolds, JobHolds, Top, Pending, Base, Goal, LastIsJob, IsDone, Loose, At, Idle,
         TakesBack, RecOf
<1> QED
  BY <1>3, <1>4, <1>5, <1>6, <1>7, <1>8, <1>9, <1>10, <1>11, <1>12, <1>13, <1>14, <1>15,
     <1>16 DEF Next

-----------------------------------------------------------------------------
(* The steps of the promise.                                               *)

LEMMA NowType == TypeInv => TablesNow \in [Keys -> Contents]
<1> SUFFICES ASSUME TypeInv PROVE TablesNow \in [Keys -> Contents]
  OBVIOUS
<1>1. ~Idle => job.start \in Tables
  BY DEF TypeInv, TypeOK, Idle, Tables
<1>2. (IF ~Intact THEN Genesis ELSE IF Idle THEN rows ELSE job.start) \in Tables
  BY <1>1, GenesisAssumption DEF TypeInv, TypeOK, Tables
<1>3. ASSUME NEW rs \in Tables PROVE ContentsOf(rs) \in [Keys -> Contents]
  BY DEF ContentsOf, Tables, Rows
<1> QED
  BY <1>2, <1>3 DEF TablesNow

LEMMA NowTypeNext == TypeInv' => TablesNow' \in [Keys -> Contents]
<1>1. TypeInv => TablesNow \in [Keys -> Contents]
  BY NowType
<1>2. TypeInv' => (TablesNow \in [Keys -> Contents])'
  BY <1>1, PTL
<1> QED
  BY <1>2

(* Nothing that is promised changes inside of an operation.                *)
LEMMA Inside ==
    ASSUME Intact, Intact', ~Idle, ~Idle', job'.start = job.start, done' = done
    PROVE  UNCHANGED Promise!vars
BY DEF Promise!vars, TablesNow, Past, Intact

LEMMA BeginKeeps ==
    ASSUME TypeInv, Intact, Intact',
           \/ \E t \in Tx : BeginTx(t)
           \/ BeginUndo
    PROVE  UNCHANGED Promise!vars
<1>1. Idle /\ done' = done /\ rows' = rows /\ job'.mode # "none" /\ job'.start = rows
  BY DEF BeginTx, BeginUndo, Undoing, NoJob, Seen
<1>2. ~Idle'
  BY <1>1, NoJobFields DEF Idle
<1>3. TablesNow' = TablesNow
  BY <1>1, <1>2 DEF TablesNow, ContentsOf
<1>4. Past' = Past
  BY <1>1 DEF Past
<1> QED
  BY <1>3, <1>4 DEF Promise!vars, Intact

LEMMA WorkKeeps ==
    ASSUME TypeInv, Intact, Intact',
           \/ \E k \in Keys, c \in Writes : LogOld(k, c) \/ InsertRow(k, c)
           \/ UpdateRow \/ NoteTx \/ FailTx \/ UpdateFails
           \/ RestoreRow \/ DeleteRec \/ DeleteRow
    PROVE  UNCHANGED Promise!vars
<1>1. job.mode # "none" /\ done' = done
  BY DEF LogOld, InsertRow, MayWrite, UpdateRow, NoteTx, FailTx, UpdateFails, RestoreRow, DeleteRec,
         DeleteRow, At
<1>2. job'.mode # "none" /\ job'.start = job.start
  <2>1. CASE FailTx \/ UpdateFails
    BY <2>1 DEF FailTx, UpdateFails, Undoing, NoJob
  <2>2. CASE ~(FailTx \/ UpdateFails)
    BY <1>1, <2>2
       DEF LogOld, InsertRow, UpdateRow, NoteTx, RestoreRow, DeleteRec, DeleteRow,
           TypeInv, RowsOfJob, Jobs
  <2> QED
    BY <2>1, <2>2
<1>3. ~Idle /\ ~Idle'
  BY <1>1, <1>2, NoJobFields DEF Idle
<1> QED
  BY <1>1, <1>2, <1>3, Inside

(* What past holds of a transaction in force.                              *)
Snapshot(d) == [tx |-> d.tx, before |-> ContentsOf(d.before)]

LEMMA PastType ==
    ASSUME TypeInv, Intact
    PROVE  /\ Past = [i \in 1 .. Len(done) |-> Snapshot(done[i])]
           /\ Past \in Seq({Snapshot(d) : d \in Txs}) /\ Len(Past) = Len(done)
<1>1. done \in Seq(Txs) /\ DOMAIN done = 1 .. Len(done) /\ Len(done) \in Nat
  BY DEF TypeInv, TypeOK
<1>2. Past = [i \in 1 .. Len(done) |-> Snapshot(done[i])]
  BY <1>1 DEF Past, Snapshot
<1>3. \A i \in 1 .. Len(done) : done[i] \in Txs
  BY <1>1, ElementOfSeq
<1>4. \A i \in 1 .. Len(done) : Snapshot(done[i]) \in {Snapshot(d) : d \in Txs}
  BY <1>3
<1> QED
  BY <1>1, <1>2, <1>4

LEMMA PastTypeNext ==
    TypeInv' /\ Intact' => Past' = [i \in 1 .. Len(done') |-> Snapshot(done'[i])]
<1>1. TypeInv /\ Intact => Past = [i \in 1 .. Len(done) |-> Snapshot(done[i])]
  BY PastType
<1>2. TypeInv' /\ Intact' => (Past = [i \in 1 .. Len(done) |-> Snapshot(done[i])])'
  BY <1>1, PTL
<1> QED
  BY <1>2

LEMMA EndTxKeeps ==
    ASSUME StackInv, TypeInv', Intact, Intact', EndTx
    PROVE  Promise!Execute(job.tx) /\ job.tx \in Tx
<1> DEFINE new == [tx |-> job.tx, before |-> job.start, after |-> rows]
           S == {Snapshot(d) : d \in Txs}
           m == Len(done)
<1>1. StackHolds /\ TypeInv
  BY DEF StackInv, ChainInv
<1>2. /\ done' = Append(done, new) /\ job.mode = "apply" /\ rows' = rows /\ job' = NoJob
  BY DEF EndTx, At, Seen
<1>3. job.tx \in Tx /\ job.start \in Tables /\ rows \in Tables /\ ~Idle /\ Idle'
  BY <1>1, <1>2, Working, NoJobFields DEF Idle, TypeInv, TypeOK, Tables
<1>4. done \in Seq(Txs) /\ new \in Txs /\ m \in Nat
  BY <1>1, <1>3 DEF TypeInv, TypeOK, Txs
<1>5. /\ Len(done') = m + 1 /\ done'[m + 1] = new
      /\ \A i \in 1 .. m : done'[i] = done[i]
  BY <1>2, <1>4, AppendProperties
<1>6. /\ Past \in Seq(S) /\ Len(Past) = m
      /\ \A i \in 1 .. m : Past[i] = Snapshot(done[i])
  BY <1>1, PastType
<1>7. Past' = [i \in 1 .. m + 1 |-> Snapshot(done'[i])]
  BY <1>5, PastTypeNext
<1>8. Append(Past, Snapshot(new)) = [i \in 1 .. m + 1 |-> IF i = m + 1 THEN Snapshot(new)
                                                        ELSE Past[i]]
  BY <1>4, <1>6
<1>9. Past' = Append(Past, Snapshot(new))
  <2>1. \A i \in 1 .. m + 1 : Snapshot(done'[i]) = IF i = m + 1 THEN Snapshot(new) ELSE Past[i]
    <3> SUFFICES ASSUME NEW i \in 1 .. m + 1
                 PROVE  Snapshot(done'[i]) = IF i = m + 1 THEN Snapshot(new) ELSE Past[i]
      OBVIOUS
    <3>1. CASE i = m + 1
      BY <1>5, <3>1
    <3>2. CASE i # m + 1
      <4>1. i \in 1 .. m
        BY <1>4, <3>2
      <4> QED
        BY <1>5, <1>6, <3>2, <4>1
    <3> QED
      BY <3>1, <3>2
  <2> QED
    BY <1>7, <1>8, <2>1
<1>10. Snapshot(new) = [tx |-> job.tx, before |-> TablesNow]
  BY <1>3 DEF Snapshot, TablesNow
<1>11. \A i \in DOMAIN Past : Past[i].tx # job.tx
  <2>1. \A i \in 1 .. m : done[i].tx # job.tx
    BY <1>1, <1>2 DEF StackHolds, JobHolds, IsDone
  <2>2. DOMAIN Past = 1 .. m
    BY <1>6
  <2> QED
    BY <1>6, <2>1, <2>2 DEF Snapshot
<1>12. TablesNow' \in [Keys -> Contents]
  BY NowTypeNext
<1> QED
  BY <1>3, <1>9, <1>10, <1>11, <1>12 DEF Promise!Execute

LEMMA EndUndoTakesBack ==
    ASSUME StackInv, TypeInv', Intact, Intact', EndUndo
    PROVE  Promise!TakeBack \/ UNCHANGED Promise!vars
<1> DEFINE m == Len(done)
           S == {Snapshot(d) : d \in Txs}
<1>1. StackHolds /\ TypeInv
  BY DEF StackInv, ChainInv
<1>2. /\ job.mode = "undo" /\ rows' = rows /\ job' = NoJob
      /\ done' = IF LastIsJob THEN SubSeq(done, 1, m - 1) ELSE done
  BY DEF EndUndo, At, LastIsJob
<1>3. ~Idle /\ Idle' /\ rows = Goal
  BY <1>2, NoJobFields, EndUndoStack DEF Idle
<1>4. TablesNow' = ContentsOf(rows)
  BY <1>2, <1>3 DEF TablesNow, ContentsOf
<1>5. CASE LastIsJob
  <2>1. done \in Seq(Txs) /\ done # <<>>
    BY <1>1, <1>5 DEF LastIsJob, TypeInv, TypeOK
  <2>2. /\ m \in Nat /\ m >= 1 /\ Len(done') = m - 1
        /\ \A i \in 1 .. m - 1 : done'[i] = done[i]
    BY <1>2, <1>5, <2>1, FrontType
  <2>3. /\ Past \in Seq(S) /\ Len(Past) = m
        /\ \A i \in 1 .. m : Past[i] = Snapshot(done[i])
    BY <1>1, PastType
  <2>4. Past # <<>>
    BY <2>2, <2>3
  <2>5. TablesNow' = Past[m].before
    <3>1. rows = done[m].before
      BY <1>3, <1>5 DEF Goal
    <3>2. Past[m].before = ContentsOf(done[m].before)
      <4>1. m \in 1 .. m
        BY <2>2
      <4>2. Past[m] = Snapshot(done[m])
        BY <2>3, <4>1
      <4> QED
        BY <4>2 DEF Snapshot
    <3> QED
      BY <1>4, <3>1, <3>2
  <2>6. Past' = SubSeq(Past, 1, m - 1)
    <3>1. Past' = [i \in 1 .. m - 1 |-> Snapshot(done'[i])]
      BY <2>2, PastTypeNext
    <3>2. \A i \in 1 .. m - 1 : Snapshot(done'[i]) = Past[i]
      BY <2>2, <2>3
    <3>3. SubSeq(Past, 1, m - 1) = [i \in 1 .. m - 1 |-> Past[i]]
      BY <2>2, <2>3
    <3> QED
      BY <3>1, <3>2, <3>3
  <2> QED
    BY <2>3, <2>4, <2>5, <2>6 DEF Promise!TakeBack
<1>6. CASE ~LastIsJob
  <2>1. done' = done /\ Past' = Past
    BY <1>2, <1>6 DEF Past
  <2>2. TablesNow = ContentsOf(job.start)
    BY <1>3 DEF TablesNow
  <2>3. TablesNow' = TablesNow
    BY <1>3, <1>4, <1>6, <2>2 DEF Goal
  <2> QED
    BY <2>1, <2>3 DEF Promise!vars
<1> QED
  BY <1>5, <1>6

LEMMA InitPromise == Init => Promise!Init
<1> SUFFICES ASSUME Init PROVE Promise!Init
  OBVIOUS
<1>1. TablesNow \in [Keys -> Contents]
  BY InitTypes, NowType
<1>2. Past = <<>>
  <2>1. done = <<>> /\ DOMAIN done = {}
    BY DEF Init
  <2> QED
    BY <2>1 DEF Past
<1>3. Intact = TRUE
  BY DEF Init, Intact
<1> QED
  BY <1>1, <1>2, <1>3 DEF Promise!Init

LEMMA StepPromise ==
    StackInv /\ StackInv' /\ [Next]_vars => [Promise!Next]_(Promise!vars)
<1> SUFFICES ASSUME StackInv, StackInv', [Next]_vars, Promise!vars' # Promise!vars
             PROVE  Promise!Next
  OBVIOUS
<1>1. TypeInv /\ TypeInv'
  BY DEF StackInv, ChainInv
<1>2. CASE ~Intact
  <2>1. ~Intact'
    BY <1>1, <1>2, Damaged
  <2>2. TablesNow' = TablesNow /\ Past' = Past
    BY <1>2, <2>1 DEF TablesNow, Past, ContentsOf
  <2>3. Intact' = Intact
    BY <1>2, <2>1 DEF Intact
  <2> QED
    BY <2>2, <2>3 DEF Promise!vars
<1>3. CASE Intact /\ ~Intact'
  BY <1>1, <1>3, NowTypeNext DEF Promise!Next, Promise!Damage, Past
<1>4. CASE Intact /\ Intact'
  <2>1. CASE (\E t \in Tx : BeginTx(t)) \/ BeginUndo
    BY <1>1, <1>4, <2>1, BeginKeeps
  <2>2. CASE \/ \E k \in Keys, c \in Writes : LogOld(k, c) \/ InsertRow(k, c)
             \/ UpdateRow \/ NoteTx \/ FailTx \/ UpdateFails
             \/ RestoreRow \/ DeleteRec \/ DeleteRow
    BY <1>1, <1>4, <2>2, WorkKeeps
  <2>3. CASE EndTx
    BY <1>1, <1>4, <2>3, EndTxKeeps DEF Promise!Next
  <2>4. CASE EndUndo
    BY <1>1, <1>4, <2>4, EndUndoTakesBack DEF Promise!Next
  <2>5. CASE UndoFails \/ Crash \/ ChargeStays
    BY <1>1, <1>4, <2>5 DEF UndoFails, Crash, ChargeStays, Intact, TypeInv, TypeOK
  <2>6. CASE UNCHANGED vars
    BY <2>6 DEF vars, Promise!vars, TablesNow, Past, Intact, ContentsOf, Idle
  <2> QED
    BY <2>1, <2>2, <2>3, <2>4, <2>5, <2>6 DEF Next
<1> QED
  BY <1>2, <1>3, <1>4

(* Where the texts of the log can represent the values, taking back the    *)
(* last transaction, in force or failed, brings back all tables as they    *)
(* were before it, until a process dies inside of an operation, an undo    *)
(* fails, or a failed contract stays charged (selectiveLoggingAndUpd,      *)
(* selectiveRollback, autoRollback).                                       *)
THEOREM Kept == ASSUME Representable PROVE Spec => KeepsPromise
<1>1. Init => StackInv
  BY InitStack
<1>2. StackInv /\ [Next]_vars => StackInv'
  BY StepStack
<1>3. Spec => []StackInv
  BY <1>1, <1>2, PTL DEF Spec
<1>4. StackInv /\ StackInv' /\ [Next]_vars => [Promise!Next]_(Promise!vars)
  BY StepPromise
<1> QED
  BY <1>3, <1>4, InitPromise, PTL DEF Spec, KeepsPromise, Promise!Spec
=============================================================================
