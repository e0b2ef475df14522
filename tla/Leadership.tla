----------------------------- MODULE Leadership -----------------------------
(***************************************************************************)
(* What a cluster of HA managers is for, in the words of the README: one   *)
(* node is active and the rest are passive, and when no node is active one *)
(* of them takes over.  HACluster implements it in a settled cluster.      *)
(***************************************************************************)
EXTENDS Naturals, FiniteSets

CONSTANT Node

VARIABLE holders    \* the nodes that run with the shared active identity

Init == \E n \in Node : holders \in {{}, {n}}

TakeOver(n) == holders = {} /\ holders' = {n}

StepDown == holders # {} /\ holders' = {}

Next == StepDown \/ \E n \in Node : TakeOver(n)

Spec == Init /\ [][Next]_holders
=============================================================================
