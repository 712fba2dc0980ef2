------------------------------ MODULE MCPeers ------------------------------
(* Model-checking instances of Peers: n1 bootstraps the cluster, the other *)
(* nodes have it in their files.                                           *)
EXTENDS Peers

CONSTANTS n1

MCConfigured == [n \in Node |-> IF n = n1 THEN {} ELSE {n1}]

=============================================================================
