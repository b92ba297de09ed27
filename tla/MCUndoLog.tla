----------------------------- MODULE MCUndoLog -----------------------------
(* Small instances of UndoLog: a row that the database starts with and one *)
(* that it does not; a text and a number that can be NULL, or bytes.       *)
EXTENDS UndoLog, TLC

CONSTANTS t1, t2, k1, k2, r1, r2, r3, a, b, null, empty, nulltext, hex

Columns == {"name", "amount"}
ColumnTypes == [name |-> "text", amount |-> "number"]
ColumnDomains == [name |-> {a, b}, amount |-> {null}]
ColumnWrites == {[name |-> a], [name |-> b], [amount |-> null]}
ColumnDefaults == [name |-> a, amount |-> null]

OneRow == [k \in Keys |-> IF k = k1 THEN [val |-> [name |-> a, amount |-> a], rb |-> NoRec]
                          ELSE NoRow]

Renamings == Permutations(Tx) \cup Permutations(RecIds)

KeyColumn == {"node_public_key"}
KeyTypes == [node_public_key |-> "bytes"]
KeyDomains == [node_public_key |-> {a, b, empty}]
KeyWrites == {[node_public_key |-> a], [node_public_key |-> b]}
KeyDefaults == [node_public_key |-> empty]
KeyRow == [k \in Keys |-> [val |-> [node_public_key |-> a], rb |-> NoRec]]

(* Once the undo of a row has failed or a charge has stayed, one row is    *)
(* left to be written, in the same transaction or in another.              *)
FewWrites == Len(log[t1]) + Len(log[t2]) <= (IF damaged THEN 2 ELSE 3)
=============================================================================
