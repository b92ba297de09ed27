----------------------------- MODULE Snapshots -----------------------------
(***************************************************************************)
(* What the undo log promises: a stack of snapshots.  A transaction may    *)
(* change the tables in any way; taking back the last transaction brings   *)
(* back the tables as they were before it.  The promise ends when the      *)
(* process dies inside of a transaction or an undo, when an undo fails,    *)
(* and when the fee of a failed contract stays, which is no transaction.   *)
(***************************************************************************)
EXTENDS Integers, Sequences

CONSTANTS
    Tx,       \* transactions
    Tables    \* what the tables can contain

VARIABLES
    tables,   \* the tables, as between two operations
    past,     \* the transactions in force, each with the tables before it
    intact    \* the promise still holds

vars == <<tables, past, intact>>

Init == tables \in Tables /\ past = <<>> /\ intact = TRUE

Execute(t) ==
    /\ intact
    /\ \A i \in DOMAIN past : past[i].tx # t
    /\ tables' \in Tables
    /\ past' = Append(past, [tx |-> t, before |-> tables])
    /\ UNCHANGED intact

TakeBack ==
    /\ intact /\ past # <<>>
    /\ tables' = past[Len(past)].before
    /\ past' = SubSeq(past, 1, Len(past) - 1)
    /\ UNCHANGED intact

Damage ==
    /\ intact' = FALSE
    /\ tables' \in Tables
    /\ past' = <<>>

Next == (\E t \in Tx : Execute(t)) \/ TakeBack \/ Damage

Spec == Init /\ [][Next]_vars
=============================================================================
