----------------------------- MODULE MCBalancer -----------------------------
(* Model-checking instance of Balancer: two nodes list the proxies in      *)
(* opposite orders, the third has only one of them.                        *)
EXTENDS Balancer

CONSTANTS n1, n2, n3, p1, p2

MCProxies == <<p1, p2>>

MCWeight == [p \in {p1, p2} |-> IF p = p1 THEN 2 ELSE 1]

MCOrder ==
  [n \in Node |-> CASE n = n1 -> <<p1, p2>>
                    [] n = n2 -> <<p2, p1>>
                    [] n = n3 -> <<p2>>]

\* One accepting node with a failure, and two accepting nodes without; with the
\* third node among them consistent hashing misses a proxy.
MCScenarios ==
  {x \in [name : {"ROUND_ROBIN", "RANDOM", "WEIGHTED_ROUND_ROBIN"},
          hash : BOOLEAN, callers : {{n1}, {n1, n2}, {n1, n3}}, faults : {0, 1}] :
     /\ x.faults = 1 <=> x.callers = {n1}
     /\ x.name = "WEIGHTED_ROUND_ROBIN" => ~x.hash
     /\ n3 \in x.callers => x.hash}

=============================================================================
