------------------------------ MODULE UndoLog ------------------------------
(***************************************************************************)
(* How the changes of transactions are logged and taken back:              *)
(* selectiveLoggingAndUpd keeps the old values of what it overwrites in    *)
(* the table rollback, as the head of a chain through rb_id that starts in *)
(* the row itself, and names the row in rollback_tx; selectiveRollback     *)
(* takes one step back along the chain; autoRollback does so for all rows  *)
(* a transaction has written, last first.                                  *)
(*                                                                         *)
(* One parser works at a time (main_lock, module DaemonLock).  Each        *)
(* statement that changes a table is a step, since no SQL transaction      *)
(* groups them; those that only read are part of the step they precede.    *)
(* rollback_tx is kept by transaction, as it is only read by tx_hash.      *)
(***************************************************************************)
EXTENDS Integers, Sequences, FiniteSets

CONSTANTS
    Tx,          \* transactions
    Keys,        \* rows, each a table and a key
    Fields,      \* columns
    Kind,        \* type of each column: "text", "number" or "bytes"
    Domain,      \* the values a column is given by transactions
    Writes,      \* what writes set: some columns, to values of their domains
    Default,     \* its value when an INSERT does not give one
    Null,        \* the SQL value NULL
    Empty,       \* the empty string
    NullText,    \* the text "NULL", which OneRow makes of it
    HexText,     \* the hexadecimal digits of some bytes
    RecIds,      \* values of rollback.rb_id: bounds the number of records
    Genesis,     \* the rows of a new database
    MaxWrites,   \* bound on the rows of rollback_tx of one transaction
    MaxFaults    \* bound on crashes and on statements that the database refuses

NoRec == 0       \* rb_id of a row that was never updated
NoVal == <<>>    \* the values of a row that is not there

(* What a column can hold: restoring adds texts to what is written.        *)
Values == (UNION {Domain[f] : f \in Fields}) \cup {NullText, HexText}

Contents == [Fields -> Values] \cup {NoVal}

(* A row that is not there reads as one whose rb_id is 0.                  *)
Rows == [val : Contents, rb : RecIds \cup {NoRec}]

Changes == UNION {[fs -> Values] : fs \in SUBSET Fields}

NoRow == [val |-> NoVal, rb |-> NoRec]

ASSUME ValuesAssumption ==
    /\ Kind \in [Fields -> {"text", "number", "bytes"}]
    /\ \A f \in Fields : Default[f] \in Domain[f]
    /\ \A f \in Fields : NullText \notin Domain[f] /\ HexText \notin Domain[f]
    /\ NullText # HexText
    /\ \A c \in Writes : DOMAIN c \subseteq Fields /\ DOMAIN c # {}
                         /\ \A f \in DOMAIN c : c[f] \in Domain[f]

ASSUME GenesisAssumption ==
    /\ Genesis \in [Keys -> Rows]
    /\ \A k \in Keys : Genesis[k].rb = NoRec

ASSUME BoundsAssumption ==
    /\ NoRec \notin RecIds
    /\ MaxWrites \in Nat /\ MaxFaults \in Nat

VARIABLES
    rows,     \* the tables that transactions write
    recs,     \* rollback: the old values under each rb_id
    log,      \* rollback_tx: for each transaction its rows, in order of id
    done,     \* the transactions of block_chain, in order
    job,      \* what the parser is doing
    crashes,  \* crashes so far
    refused,  \* UPDATEs that the database has refused so far
    damaged   \* history: an undo has failed, or a charge has stayed

(* The fields before and after of the entries of log and done are history: *)
(* the tables as they were before and after that write or transaction, as  *)
(* long as nothing has damaged them or the order in which they are undone. *)
Intact == crashes = 0 /\ ~damaged

Seen == IF Intact THEN rows ELSE Genesis

vars == <<rows, recs, log, done, job, crashes, refused, damaged>>

Modes == {"none", "apply", "undo"}
Steps == {"", "write", "update", "note", "restore", "delete"}

Tables == [Keys -> Rows]

Entries == [key : Keys, before : Tables, after : Tables]

Txs == [tx : Tx, before : Tables, after : Tables]

NoJob == [mode |-> "none", step |-> "", tx |-> {}, key |-> {}, at |-> 0,
          change |-> <<>>, rec |-> NoRec, before |-> {}, start |-> {}]

TypeOK ==
    /\ rows \in Tables
    /\ DOMAIN recs \subseteq RecIds
    /\ \A r \in DOMAIN recs :
           recs[r].data \in Changes /\ recs[r].prev \in RecIds \cup {NoRec}
    /\ log \in [Tx -> Seq(Entries)]
    /\ done \in Seq(Txs)
    /\ crashes \in Nat /\ refused \in Nat /\ damaged \in BOOLEAN
    /\ \/ job = NoJob
       \/ /\ job.mode \in Modes /\ job.step \in Steps /\ job.tx \in Tx
          /\ job.start \in Tables
          /\ job.at \in Nat /\ job.at <= Len(log[job.tx])

Init ==
    /\ rows = Genesis
    /\ recs = <<>>
    /\ log = [t \in Tx |-> <<>>]
    /\ done = <<>>
    /\ job = NoJob
    /\ crashes = 0
    /\ refused = 0
    /\ damaged = FALSE

-----------------------------------------------------------------------------
(* The text in which a value is logged, and whether it can be read back:   *)
(* it is put into the row as it is, in the case of bytes as their          *)
(* hexadecimal digits, of NULL as that word.                               *)
Logged(f, v) ==
    IF Kind[f] = "bytes" /\ v # Empty THEN HexText
    ELSE IF v = Null THEN NullText ELSE v

OldValues(val, change) == [f \in DOMAIN change |-> Logged(f, val[f])]

Changed(val, change) ==
    [f \in Fields |-> IF f \in DOMAIN change THEN change[f] ELSE val[f]]

(* The record is not there, or PostgreSQL refuses a text as a number.      *)
Unreadable(r) ==
    r \notin DOMAIN recs
      \/ \E f \in DOMAIN recs[r].data :
             Kind[f] = "number" /\ recs[r].data[f] = NullText

Idle == job = NoJob

At(mode, step) == job.mode = mode /\ job.step = step

(* A transaction that is not in force yet is executed.                     *)
BeginTx(t) ==
    /\ Idle
    /\ \A i \in DOMAIN done : done[i].tx # t
    /\ job' = [NoJob EXCEPT !.mode = "apply", !.step = "write", !.tx = t,
                            !.start = Seen]
    /\ UNCHANGED <<rows, recs, log, done, crashes, refused, damaged>>

MayWrite == At("apply", "write") /\ Len(log[job.tx]) < MaxWrites

(* selectiveLoggingAndUpd of a row that is there: the old values go into a *)
(* new record of rollback ...                                              *)
LogOld(k, change) ==
    /\ MayWrite
    /\ rows[k].val # NoVal
    /\ \E r \in RecIds \ DOMAIN recs :
           /\ recs' = [i \in DOMAIN recs \cup {r} |->
                          IF i = r THEN [data |-> OldValues(rows[k].val, change),
                                         prev |-> rows[k].rb]
                          ELSE recs[i]]
           /\ job' = [job EXCEPT !.step = "update", !.key = k,
                                 !.change = change, !.rec = r]
    /\ UNCHANGED <<rows, log, done, crashes, refused, damaged>>

(* ... whose rb_id goes into the row with the new values.                  *)
UpdateRow ==
    /\ At("apply", "update")
    /\ rows' = [rows EXCEPT ![job.key] =
                   [val |-> Changed(rows[job.key].val, job.change), rb |-> job.rec]]
    /\ job' = [job EXCEPT !.step = "note", !.before = Seen]
    /\ UNCHANGED <<recs, log, done, crashes, refused, damaged>>

(* selectiveLoggingAndUpd of a row that is not there.                      *)
InsertRow(k, change) ==
    /\ MayWrite
    /\ rows[k].val = NoVal
    /\ rows' = [rows EXCEPT ![k] = [val |-> Changed(Default, change), rb |-> NoRec]]
    /\ job' = [job EXCEPT !.step = "note", !.key = k, !.before = Seen]
    /\ UNCHANGED <<recs, log, done, crashes, refused, damaged>>

(* The INSERT into rollback_tx.                                            *)
NoteTx ==
    /\ At("apply", "note")
    /\ log' = [log EXCEPT ![job.tx] =
                  Append(log[job.tx], [key |-> job.key, before |-> job.before, after |-> Seen])]
    /\ job' = [job EXCEPT !.step = "write", !.change = <<>>, !.rec = NoRec]
    /\ UNCHANGED <<rows, recs, done, crashes, refused, damaged>>

(* The transaction is in force ...                                         *)
EndTx ==
    /\ At("apply", "write")
    /\ done' = Append(done, [tx |-> job.tx, before |-> job.start, after |-> Seen])
    /\ job' = NoJob
    /\ UNCHANGED <<rows, recs, log, crashes, refused, damaged>>

(* Mutant: one row too many.                                               *)
UndoingPast(t, start) ==
    [NoJob EXCEPT !.mode = "undo", !.step = "restore", !.tx = t,
                  !.at = Len(log[t]) + 1, !.start = start]

Undoing(t, start) ==
    [NoJob EXCEPT !.mode = "undo", !.step = "restore", !.tx = t,
                  !.at = Len(log[t]), !.start = start]

(* ... or fails after some writes, and RollbackTo takes them back.         *)
FailTx ==
    /\ At("apply", "write")
    /\ job' = Undoing(job.tx, job.start)
    /\ UNCHANGED <<rows, recs, log, done, crashes, refused, damaged>>

(* A contract that fails before its conditions run has been charged by     *)
(* then, and is not taken back: what payFPrice wrote stays in the tables   *)
(* and in rollback_tx, and the next undo of the same transaction, whatever *)
(* is written meanwhile, takes it for the transaction's own.               *)
ChargeStays ==
    /\ At("apply", "write") /\ log[job.tx] # <<>>
    /\ job' = NoJob
    /\ damaged' = TRUE
    /\ UNCHANGED <<rows, recs, log, done, crashes, refused>>

(* The UPDATE is refused, for a value that is none of the column's type:   *)
(* the transaction fails with a record in rollback that no row has.        *)
UpdateFails ==
    /\ At("apply", "update")
    /\ crashes + refused < MaxFaults
    /\ refused' = refused + 1
    /\ job' = Undoing(job.tx, job.start)
    /\ UNCHANGED <<rows, recs, log, done, crashes, damaged>>

(* ParseDataRollback takes back the last transaction in force.             *)
BeginUndo ==
    /\ Idle /\ done # <<>>
    /\ job' = Undoing(done[Len(done)].tx, Seen)
    /\ UNCHANGED <<rows, recs, log, done, crashes, refused, damaged>>

(* autoRollback: the row at hand.                                          *)
UndoKey == log[job.tx][job.at].key

(* Mutant: the older rb_id stays in the record.                            *)
RestoreValues ==
    /\ At("undo", "restore") /\ job.at > 0
    /\ LET row == rows[UndoKey] IN
       /\ row.rb # NoRec /\ ~Unreadable(row.rb)
       /\ rows' = [rows EXCEPT ![UndoKey].val = Changed(row.val, recs[row.rb].data)]
       /\ job' = [job EXCEPT !.step = "delete", !.rec = row.rb]
    /\ UNCHANGED <<recs, log, done, crashes, refused, damaged>>

(* selectiveRollback of a row that was updated: the values of its record,  *)
(* the older rb_id among them, go back into the row ...                    *)
RestoreRow ==
    /\ At("undo", "restore") /\ job.at > 0
    /\ LET row == rows[UndoKey] IN
       /\ row.rb # NoRec /\ ~Unreadable(row.rb)
       /\ rows' = [rows EXCEPT ![UndoKey] =
                      [val |-> Changed(row.val, recs[row.rb].data),
                       rb  |-> recs[row.rb].prev]]
       /\ job' = [job EXCEPT !.step = "delete", !.rec = row.rb]
    /\ UNCHANGED <<recs, log, done, crashes, refused, damaged>>

(* Mutant: the record is kept.                                             *)
KeepRec ==
    /\ At("undo", "delete")
    /\ job' = [job EXCEPT !.step = "restore", !.at = job.at - 1, !.rec = NoRec]
    /\ UNCHANGED <<rows, recs, log, done, crashes, refused, damaged>>

(* ... and the record is deleted.                                          *)
DeleteRec ==
    /\ At("undo", "delete")
    /\ recs' = [i \in DOMAIN recs \ {job.rec} |-> recs[i]]
    /\ job' = [job EXCEPT !.step = "restore", !.at = job.at - 1, !.rec = NoRec]
    /\ UNCHANGED <<rows, log, done, crashes, refused, damaged>>

(* selectiveRollback of a row that was inserted.                           *)
DeleteRow ==
    /\ At("undo", "restore") /\ job.at > 0
    /\ rows[UndoKey].rb = NoRec
    /\ rows' = [rows EXCEPT ![UndoKey] = NoRow]
    /\ job' = [job EXCEPT !.at = job.at - 1]
    /\ UNCHANGED <<recs, log, done, crashes, refused, damaged>>

(* selectiveRollback returns an error, and with it all of its callers.     *)
UndoFails ==
    /\ At("undo", "restore") /\ job.at > 0
    /\ rows[UndoKey].rb # NoRec /\ Unreadable(rows[UndoKey].rb)
    /\ job' = NoJob
    /\ damaged' = TRUE
    /\ UNCHANGED <<rows, recs, log, done, crashes, refused>>

(* Mutant: the rows of rollback_tx stay.                                   *)
EndUndoKeeps ==
    /\ At("undo", "restore") /\ job.at = 0
    /\ done' = IF done # <<>> /\ done[Len(done)].tx = job.tx
               THEN SubSeq(done, 1, Len(done) - 1) ELSE done
    /\ job' = NoJob
    /\ UNCHANGED <<rows, recs, log, crashes, refused, damaged>>

(* The end of autoRollback: the rows of rollback_tx are deleted.           *)
EndUndo ==
    /\ At("undo", "restore") /\ job.at = 0
    /\ log' = [log EXCEPT ![job.tx] = <<>>]
    /\ done' = IF done # <<>> /\ done[Len(done)].tx = job.tx
               THEN SubSeq(done, 1, Len(done) - 1) ELSE done
    /\ job' = NoJob
    /\ UNCHANGED <<rows, recs, crashes, refused, damaged>>

(* The process ends between two statements.                                *)
Crash ==
    /\ ~Idle
    /\ crashes + refused < MaxFaults
    /\ crashes' = crashes + 1
    /\ job' = NoJob
    /\ UNCHANGED <<rows, recs, log, done, refused, damaged>>

Next ==
    \/ \E t \in Tx : BeginTx(t)
    \/ \E k \in Keys, c \in Writes : LogOld(k, c) \/ InsertRow(k, c)
    \/ UpdateRow \/ NoteTx \/ EndTx \/ FailTx \/ ChargeStays \/ UpdateFails
    \/ BeginUndo \/ RestoreRow \/ DeleteRec \/ DeleteRow \/ UndoFails \/ EndUndo
    \/ Crash

Spec == Init /\ [][Next]_vars

-----------------------------------------------------------------------------
(* Properties.                                                             *)

ContentsOf(rs) == [k \in Keys |-> rs[k].val]

(* Between two operations the tables are what they are; inside of one they *)
(* count as unchanged.  After damage nothing is promised.                  *)
TablesNow ==
    ContentsOf(IF ~Intact THEN Genesis ELSE IF Idle THEN rows ELSE job.start)

Past ==
    IF Intact
    THEN [i \in DOMAIN done |-> [tx |-> done[i].tx, before |-> ContentsOf(done[i].before)]]
    ELSE <<>>

Promise ==
    INSTANCE Snapshots WITH Tables <- [Keys -> Contents], tables <- TablesNow,
                            past <- Past, intact <- Intact

(* The undo log is a stack of snapshots: taking back the last transaction, *)
(* in force or failed, brings back all tables as they were before it,      *)
(* whatever rows and columns it and its predecessors have written how      *)
(* often, until a process dies inside of an operation, an undo fails, or   *)
(* a failed contract stays charged (selectiveLoggingAndUpd,                *)
(* selectiveRollback, autoRollback).                                       *)
KeepsPromise == Promise!Spec

(* A set of records that holds the chains of all rows, in which no record  *)
(* belongs to two rows or to two younger records.                          *)
HoldsChains(S) ==
    /\ \A k \in Keys : rows[k].rb \in S \cup {NoRec}
    /\ \A q \in S : recs[q].prev \in S \cup {NoRec}
    /\ \A k, l \in Keys : rows[k].rb = rows[l].rb /\ rows[k].rb # NoRec => k = l
    /\ \A q \in S, k \in Keys : recs[q].prev = rows[k].rb => rows[k].rb = NoRec
    /\ \A p, q \in S : recs[p].prev = recs[q].prev /\ recs[p].prev # NoRec => p = q

(* Whenever the process dies and whatever is taken back twice then, no     *)
(* chain is broken, or an undo would fail for ever: each record that is    *)
(* needed is in rollback, and needed by one row alone, so that an undo of  *)
(* a row takes nothing from another (the order of the statements of        *)
(* selectiveLoggingAndUpd and of selectiveRollback).                       *)
ChainsWhole == \E S \in SUBSET DOMAIN recs : HoldsChains(S)

(* A crash or a refused UPDATE leaves at most one record that belongs to   *)
(* no row, so that rollback does not grow with what is taken back.         *)
FewOrphans ==
    Idle => \E S \in SUBSET DOMAIN recs :
                HoldsChains(S) /\ Cardinality(DOMAIN recs \ S) <= crashes + refused

(* "Data that we will be restored" (selectiveRollback): the row has the    *)
(* values it had before the write that is taken back.                      *)
RestoredAsBefore ==
    At("undo", "delete") => rows[UndoKey].val = log[job.tx][job.at].before[UndoKey].val
=============================================================================
