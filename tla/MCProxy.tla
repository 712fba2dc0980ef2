------------------------------ MODULE MCProxy ------------------------------
(* Model-checking instances of Proxy.                                      *)
EXTENDS Proxy, SequencesExt

\* Range visits the dead clients, under the empty ID, before the last port.
RangeOrder ==
  LET keys == Port \cup {NoID} \cup Conn
  IN  CHOOSE r \in [keys -> 1..Cardinality(keys)] :
        /\ \A j, k \in keys : r[j] = r[k] => j = k
        /\ \E p, q \in Port : r[p] < r[NoID] /\ r[NoID] < r[q]

MCRank == RangeOrder

Symmetry ==
  Permutations(InitialClients) \cup Permutations(Client \ InitialClients)

=============================================================================
