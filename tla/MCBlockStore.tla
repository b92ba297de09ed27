---------------------------- MODULE MCBlockStore ----------------------------
(* Small instances of BlockStore.  t1 conflicts with t2 and with t3, and   *)
(* they fail in different places.  The other nodes offer two good chains,  *)
(* one whose third block fails at its last transaction, and two whose      *)
(* third block has a bad header.                                           *)
EXTENDS BlockStore

CONSTANTS t1, t2, t3, me, peer, other

Block1 == [txs |-> <<>>, by |-> other, bad |-> FALSE]

Pay(txs, by) == [txs |-> txs, by |-> by, bad |-> FALSE]

BadPay == [Pay(<<>>, peer) EXCEPT !.bad = TRUE]

TxConflicts == {{t1, t2}, {t1, t3}}
NoConflicts == {}
Failures == t1 :> "front" @@ t2 :> "main" @@ t3 :> "init"
Failure == t1 :> "front"

GoodChain == <<Block1, Pay(<<t1>>, peer), Pay(<<>>, other)>>
LongGoodChain ==
    <<Block1, Pay(<<>>, peer), Pay(<<>>, other), Pay(<<>>, peer)>>
ConflictChain == <<Block1, Pay(<<>>, peer), Pay(<<t1, t2>>, other)>>
BadChain == <<Block1, Pay(<<>>, peer), BadPay>>
LongBadChain == <<Block1, Pay(<<>>, peer), BadPay, Pay(<<>>, other)>>

TwoChains == {GoodChain, ConflictChain}
LongChains == {GoodChain, LongBadChain, LongGoodChain}
OneConflictChain == {ConflictChain}
OneBadChain == {BadChain}

(* After a crash and an undo out of order nothing is promised any more.    *)
Promising == ~{"crash", "mixed"} \subseteq incidents

(* At most two transactions fit into a ledger.  One that has gone wrong     *)
(* collects fees without end, and is followed up to its third effect.      *)
ShortLedger == Len(ledger) <= 2
=============================================================================
