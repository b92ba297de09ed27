------------------------------ MODULE NodeChain ------------------------------
(***************************************************************************)
(* What a node promises about its chain, whoever makes, sends or refuses   *)
(* blocks.  The chain is never a mixture of two: it grows, has its end     *)
(* replaced by one that is not shorter and not longer than a limit, or is  *)
(* cut by a reset, at once.  And it is always a chain of checked blocks    *)
(* that has no transaction twice and no two that conflict.  The promise    *)
(* ends when a job is left half done.                                      *)
(***************************************************************************)
EXTENDS Integers, Sequences, SequencesExt

CONSTANTS
    Genesis,    \* block 1
    Conflicts,  \* sets of transactions of which one can be applied
    Ahead,      \* limit on blocks for a branch that makes the chain higher
    Level       \* ... and for one that does not

VARIABLES
    chain,      \* the blocks from block 1 on, each with its transactions
    intact      \* the promise still holds

vars == <<chain, intact>>

AllTxs(c) == FlattenSeq([i \in DOMAIN c |-> c[i].txs])

(* Each transaction could be applied after the ones before it.             *)
Spendable(txs) ==
    \A i, j \in DOMAIN txs :
        i # j => txs[i] # txs[j] /\ {txs[i], txs[j]} \notin Conflicts

Valid(c) ==
    /\ Spendable(AllTxs(c))
    /\ \A i \in 2 .. Len(c) : ~c[i].bad

Init == chain = <<Genesis>> /\ intact = TRUE

(* A branch leaves the chain after its first n blocks.  The block at which *)
(* it leaves is not counted, which makes the limit one higher.             *)
Branch(n, limit) ==
    /\ SubSeq(chain', 1, n) = SubSeq(chain, 1, n)
    /\ Len(chain') - n <= limit + 1

Grow(n) == Len(chain') > Len(chain) /\ Branch(n, Ahead)

Replace(n) == Len(chain') = Len(chain) /\ Branch(n, Level)

Reset(n) == chain' = SubSeq(chain, 1, n)

Change ==
    /\ intact
    /\ \E n \in 1 .. Len(chain) : Grow(n) \/ Replace(n) \/ Reset(n)
    /\ Valid(chain')
    /\ UNCHANGED intact

Damage == intact' = FALSE

Next == Change \/ Damage

Spec == Init /\ [][Next]_vars
=============================================================================
