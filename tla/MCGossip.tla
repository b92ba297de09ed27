------------------------------ MODULE MCGossip ------------------------------
(* Two nodes that both make blocks.  One of them announces, or the other   *)
(* asks for confirmations.                                                 *)
EXTENDS Gossip

CONSTANTS n1, n2, t1

Makes == {"BlockGenerator"}

OneTellsOrOneChecks ==
    {[n \in Nodes |-> IF n = n1 THEN Makes \cup {"Disseminator"} ELSE Makes],
     [n \in Nodes |-> IF n = n2 THEN Makes \cup {"Confirmations"} ELSE Makes]}
=============================================================================
