------------------------------- MODULE Peers -------------------------------
(***************************************************************************)
(* Membership of the cluster (raft/raft.go, raft/rpc.go).  Raft's own      *)
(* configuration says who votes; next to it every node keeps a map         *)
(* Fsm.raftPeers with the gRPC addresses it needs to forward a request to  *)
(* the leader.  The map is filled from the configuration file, by AddPeer  *)
(* directly, by commands of the replicated log, and by a synchroniser that *)
(* compares it with raft's configuration every peerSyncInterval.  It is    *)
(* not part of a snapshot.                                                 *)
(*                                                                         *)
(* External (hashicorp/raft): one committed log of commands and            *)
(* configurations that the nodes process in order.  An address never       *)
(* changes, so the map is the set of its keys.                             *)
(***************************************************************************)
EXTENDS Naturals, Sequences, FiniteSets

CONSTANTS
  Node,        \* node IDs
  Bootstrap,   \* the node started with isBootstrap
  Configured,  \* per node: the peers in its configuration file
  Leavers,     \* the nodes that may leave or be removed
  MaxLog,      \* bound on the log
  MaxFaults,   \* bound on failed applies, failed AddVoters and restarts
  None

ASSUME PeersAssumption ==
  /\ Bootstrap \in Node
  /\ Configured \in [Node -> SUBSET Node]
  /\ Leavers \subseteq Node
  /\ MaxLog \in Nat
  /\ MaxFaults \in Nat
  /\ None \notin Node

VARIABLES
  leader, \* raft's leader
  log,    \* committed entries: commands and configurations
  got,    \* per node: how many entries its log on disk has
  pos,    \* per node: how many of them its FSM has applied
  peers,  \* per node: the keys of Fsm.raftPeers
  join,   \* per node: the AddPeer request for it, and where it is
  sync,   \* per node: syncPeers in progress
  left,   \* per node: whether it stays, is leaving or has left
  faults  \* how many faults happened

vars == <<leader, log, got, pos, peers, join, sync, left, faults>>

Up(n) == left[n] # "yes"

\* The configuration of the first k entries of the log.
Servers(k) ==
  LET confs == {i \in 1..k : log[i].type = "CONFIGURATION"}
  IN  IF confs = {} THEN {}
      ELSE log[CHOOSE i \in confs : \A j \in confs : j <= i].servers

\* GetPeers on n, and the configuration in force.
GetPeers(n) == Servers(got[n])
Members == Servers(Len(log))

NoSync == [pc |-> "idle", raft |-> {}, missing |-> {}, extra |-> {}]

Out == [pc |-> "try", at |-> None, index |-> 0]

\* initializeFSM, and bootstrapCluster on the bootstrap node.
InitialPeers(n) ==
  Configured[n] \cup (IF n = Bootstrap THEN {n} ELSE {})

\* configureCluster: tryConnectToCluster runs unless the node bootstraps or
\* has no peers.
InitialJoin(n) ==
  IF n = Bootstrap \/ Configured[n] = {} THEN [Out EXCEPT !.pc = "done"] ELSE Out

Init ==
  /\ leader = Bootstrap
  /\ log = <<[type |-> "CONFIGURATION", servers |-> InitialPeers(Bootstrap)]>>
  /\ got = [n \in Node |-> IF n = Bootstrap THEN 1 ELSE 0]
  /\ pos = got
  /\ peers = [n \in Node |-> InitialPeers(n)]
  /\ join = [n \in Node |-> InitialJoin(n)]
  /\ sync = [n \in Node |-> NoSync]
  /\ left = [n \in Node |-> "no"]
  /\ faults = 0

\* A fault of the network or of raft, within the bound.
Fault == faults < MaxFaults /\ faults' = faults + 1

\* The leader appends an entry and has it in its own log.
Propose(entry) ==
  /\ Len(log) < MaxLog
  /\ log' = Append(log, entry)
  /\ got' = [got EXCEPT ![leader] = Len(log) + 1]

\* getLeaderClient: q has the address of the leader it knows.
CanForward(q) == leader # None /\ q \in Members /\ leader \in peers[q]

\* A request at q reaches the leader, directly or forwarded.
Reaches(q) == Up(q) /\ (leader = q \/ CanForward(q))

\* Apply at q returns an error: no leader was found in time, or raft failed.
Fails(q) == (~Reaches(q) /\ UNCHANGED faults) \/ Fault

-----------------------------------------------------------------------------
(* Joining: tryConnectToCluster on p, AddPeer and AddPeerInternal on the   *)
(* leader.                                                                 *)

\* tryConnectToCluster calls AddPeer on a configured peer, which handles the
\* request itself or forwards it.  A call that fails is tried again at the
\* next tick, which is the same as not making it.
Join(p) ==
  /\ join[p].pc = "try" /\ Up(p)
  /\ \E q \in Configured[p] : Reaches(q)
  /\ join' = [join EXCEPT ![p] = [Out EXCEPT !.pc = "insert", !.at = leader]]
  /\ UNCHANGED <<leader, log, got, pos, peers, sync, left, faults>>

\* Mutant of AddInsert: a peer that the map has already is made a voter
\* without the command.
AddInsertKnown(p) ==
  /\ join[p].pc = "insert"
  /\ peers' = [peers EXCEPT ![join[p].at] = @ \cup {p}]
  /\ join' = [join EXCEPT ![p].pc = IF p \in peers[join[p].at] THEN "voter" ELSE "apply"]
  /\ UNCHANGED <<leader, log, got, pos, sync, left, faults>>

\* AddPeerInternal writes the leader's map directly, outside the log.
AddInsert(p) ==
  /\ join[p].pc = "insert"
  /\ peers' = [peers EXCEPT ![join[p].at] = @ \cup {p}]
  /\ join' = [join EXCEPT ![p].pc = "apply"]
  /\ UNCHANGED <<leader, log, got, pos, sync, left, faults>>

\* Mutant of AddApply: the voter is added whether or not the command was
\* applied.
AddApplyIgnored(p) ==
  /\ join[p].pc = "apply"
  /\ \/ /\ Reaches(join[p].at)
        /\ Propose([type |-> "ADD_PEER", peer |-> p])
        /\ UNCHANGED faults
     \/ Fails(join[p].at) /\ UNCHANGED <<log, got>>
  /\ join' = [join EXCEPT ![p].pc = "voter"]
  /\ UNCHANGED <<leader, pos, peers, sync, left>>

\* Apply of the ADD_PEER command.  On an error, after which the command may
\* still have been committed, AddPeer returns and leaves the entry in the
\* leader's map.
AddApply(p) ==
  /\ join[p].pc = "apply"
  /\ \/ /\ Reaches(join[p].at)
        /\ Propose([type |-> "ADD_PEER", peer |-> p])
        /\ join' = [join EXCEPT ![p] =
             [pc |-> "voter", at |-> join[p].at, index |-> Len(log) + 1]]
        /\ UNCHANGED faults
     \/ /\ join' = [join EXCEPT ![p] = Out]
        /\ \/ Fails(join[p].at) /\ UNCHANGED <<log, got>>
           \/ /\ Reaches(join[p].at) /\ Fault
              /\ Propose([type |-> "ADD_PEER", peer |-> p])
  /\ UNCHANGED <<leader, pos, peers, sync, left>>

\* AddVoter, once the leader has applied the command.  It fails on a node
\* that is no longer the leader, and may fail although it took effect.
AddVoter(p) ==
  /\ join[p].pc = "voter"
  /\ \/ /\ leader = join[p].at /\ pos[leader] >= join[p].index
        /\ Propose([type |-> "CONFIGURATION", servers |-> Members \cup {p}])
        /\ join' = [join EXCEPT ![p] = [Out EXCEPT !.pc = "done"]]
        /\ UNCHANGED faults
     \/ /\ join' = [join EXCEPT ![p].pc = "rollback"]
        /\ \/ leader # join[p].at /\ UNCHANGED <<faults, log, got>>
           \/ Fault /\ UNCHANGED <<log, got>>
           \/ /\ leader = join[p].at /\ pos[leader] >= join[p].index /\ Fault
              /\ Propose([type |-> "CONFIGURATION", servers |-> Members \cup {p}])
  /\ UNCHANGED <<leader, pos, peers, sync, left>>

\* The REMOVE_PEER command that undoes ADD_PEER; when it cannot be applied
\* either, the error is returned and the entry stays.
AddRollback(p) ==
  /\ join[p].pc = "rollback"
  /\ \/ /\ Reaches(join[p].at)
        /\ Propose([type |-> "REMOVE_PEER", peer |-> p])
        /\ UNCHANGED faults
     \/ Fails(join[p].at) /\ UNCHANGED <<log, got>>
  /\ join' = [join EXCEPT ![p] = Out]
  /\ UNCHANGED <<leader, pos, peers, sync, left>>

-----------------------------------------------------------------------------
(* Leaving.                                                                *)

\* RemovePeerInternal on the leader, which steps down when it is the one
\* removed.  raft refuses to remove the last voter.
RemoveServer(p) ==
  /\ p \in Leavers /\ p \in Members /\ Members # {p}
  /\ Propose([type |-> "CONFIGURATION", servers |-> Members \ {p}])
  /\ leader' = IF leader = p THEN None ELSE leader

\* RemovePeer of p, called at a node q: p keeps running.
RemovePeer(p) ==
  /\ \E q \in Node : Reaches(q)
  /\ RemoveServer(p)
  /\ UNCHANGED <<pos, peers, join, sync, left, faults>>

\* LeaveCluster on p: RemovePeer of itself, ...
Leave(p) ==
  /\ left[p] = "no" /\ Reaches(p) /\ Cardinality(GetPeers(p)) # 1
  /\ RemoveServer(p)
  /\ left' = [left EXCEPT ![p] = "leaving"]
  /\ UNCHANGED <<pos, peers, join, sync, faults>>

\* The goroutines of n end, and with them the requests it was handling;
\* request is what becomes of its own.
Stop(n, request) ==
  /\ leader' = IF leader = n THEN None ELSE leader
  /\ sync' = [sync EXCEPT ![n] = NoSync]
  /\ join' = [q \in Node |-> IF q = n THEN request
                             ELSE IF join[q].at = n THEN Out ELSE join[q]]

\* ... then Shutdown.
LeaveShutdown(p) ==
  /\ left[p] = "leaving"
  /\ Stop(p, [Out EXCEPT !.pc = "done"])
  /\ left' = [left EXCEPT ![p] = "yes"]
  /\ UNCHANGED <<log, got, pos, peers, faults>>

-----------------------------------------------------------------------------
(* The replicated log (external: hashicorp/raft), and FSM.Apply.           *)

\* The leader replicates to the members, and tries once to send a node that
\* was removed the entries up to the one that removes it.
Receive(n) ==
  /\ leader # None /\ Up(n) /\ got[n] < Len(log)
  /\ n \in Members \cup GetPeers(n)
  /\ got' = [got EXCEPT ![n] = @ + 1]
  /\ UNCHANGED <<leader, log, pos, peers, join, sync, left, faults>>

\* FSM.Apply of ADD_PEER and REMOVE_PEER.
ApplyNext(n) ==
  /\ Up(n) /\ pos[n] < got[n] /\ leader # None
  /\ pos' = [pos EXCEPT ![n] = @ + 1]
  /\ LET entry == log[pos[n] + 1]
     IN  peers' = [peers EXCEPT ![n] =
           CASE entry.type = "ADD_PEER"    -> @ \cup {entry.peer}
             [] entry.type = "REMOVE_PEER" -> @ \ {entry.peer}
             [] OTHER                      -> @]
  /\ UNCHANGED <<leader, log, got, join, sync, left, faults>>

\* The leader sends a snapshot instead of entries it no longer has.
\* FSM.Restore leaves raftPeers as it is.
InstallSnapshot(n) ==
  /\ leader # None /\ leader # n /\ n \in Members /\ Up(n)
  /\ got[n] < pos[leader]
  /\ got' = [got EXCEPT ![n] = pos[leader]]
  /\ pos' = [pos EXCEPT ![n] = pos[leader]]
  /\ UNCHANGED <<leader, log, peers, join, sync, left, faults>>

\* The process of n restarts: the map is filled from the file again, and the
\* log is applied again from the latest snapshot on, which may be of any
\* earlier moment.
Restart(n) ==
  /\ Up(n) /\ Fault
  /\ peers' = [peers EXCEPT ![n] = InitialPeers(n)]
  /\ \E k \in 0..pos[n] : pos' = [pos EXCEPT ![n] = k]
  /\ Stop(n, InitialJoin(n))
  /\ left' = [left EXCEPT ![n] = "no"]
  /\ UNCHANGED <<log, got>>

\* A voter that has every committed entry is elected.
Elect(n) ==
  /\ leader = None /\ n \in Members /\ Up(n)
  /\ leader' = n
  /\ got' = [got EXCEPT ![n] = Len(log)]
  /\ UNCHANGED <<log, pos, peers, join, sync, left, faults>>

-----------------------------------------------------------------------------
(* syncPeers, every peerSyncInterval.                                      *)

\* raft's configuration is read first ...
SyncStart(n) ==
  /\ Up(n) /\ sync[n].pc = "idle"
  /\ sync' = [sync EXCEPT ![n] = [NoSync EXCEPT !.pc = "copy", !.raft = GetPeers(n)]]
  /\ UNCHANGED <<leader, log, got, pos, peers, join, left, faults>>

\* ... then the map is copied, and the two are compared.
SyncCopy(n) ==
  /\ sync[n].pc = "copy"
  /\ sync' = [sync EXCEPT ![n] =
       [pc |-> "query", raft |-> {}, missing |-> sync[n].raft \ peers[n],
        extra |-> peers[n] \ sync[n].raft]]
  /\ UNCHANGED <<leader, log, got, pos, peers, join, left, faults>>

\* The answer of q to GetPeerInfo for p.
GetPeerInfo(q, p) == Up(q) /\ p \in peers[q]

\* queryPeerInfo asks every other peer of the map, never p itself, whether it
\* has the address of p.
SyncQuery(n, p) ==
  /\ sync[n].pc = "query" /\ p \in sync[n].missing
  /\ sync' = [sync EXCEPT ![n].missing = @ \ {p}]
  /\ \/ /\ \E q \in peers[n] \ {p, n} : GetPeerInfo(q, p)
        /\ peers' = [peers EXCEPT ![n] = @ \cup {p}]
        /\ UNCHANGED faults
     \/ /\ \/ /\ \A q \in peers[n] \ {p, n} : ~GetPeerInfo(q, p)
              /\ UNCHANGED faults
           \/ Fault
        /\ UNCHANGED peers
  /\ UNCHANGED <<leader, log, got, pos, join, left>>

\* Mutant of SyncDelete: what is not in raft's configuration is kept.
SyncDeleteNothing(n) ==
  /\ sync[n].pc = "query" /\ sync[n].missing = {}
  /\ sync' = [sync EXCEPT ![n] = NoSync]
  /\ UNCHANGED <<leader, log, got, pos, peers, join, left, faults>>

\* What was in the map and not in raft's configuration is deleted.
SyncDelete(n) ==
  /\ sync[n].pc = "query" /\ sync[n].missing = {}
  /\ peers' = [peers EXCEPT ![n] = @ \ sync[n].extra]
  /\ sync' = [sync EXCEPT ![n] = NoSync]
  /\ UNCHANGED <<leader, log, got, pos, join, left, faults>>

Sync(n) == SyncCopy(n) \/ (\E p \in Node : SyncQuery(n, p)) \/ SyncDelete(n)

AddPeer(p) == AddInsert(p) \/ AddApply(p) \/ AddVoter(p) \/ AddRollback(p)

Replicate(n) == Receive(n) \/ ApplyNext(n)

Next ==
  \E n \in Node :
    \/ Join(n) \/ AddPeer(n) \/ RemovePeer(n) \/ Leave(n) \/ LeaveShutdown(n)
    \/ Replicate(n) \/ InstallSnapshot(n) \/ Restart(n) \/ Elect(n)
    \/ SyncStart(n) \/ Sync(n)

\* The goroutines of a node that is up are scheduled, its ticker starts the
\* synchroniser again and again, and raft elects a leader and replicates to
\* the members.
Fairness ==
  \A n \in Node :
    /\ WF_vars(n \in Members /\ Replicate(n))
    /\ WF_vars(Elect(n))
    /\ WF_vars(SyncStart(n)) /\ WF_vars(Sync(n))

Spec == Init /\ [][Next]_vars

FairSpec == Spec /\ Fairness

-----------------------------------------------------------------------------
(* Properties.                                                             *)

Entry ==
  [type : {"CONFIGURATION"}, servers : SUBSET Node]
    \cup [type : {"ADD_PEER", "REMOVE_PEER"}, peer : Node]

Joining ==
  [pc : {"try", "insert", "apply", "voter", "rollback", "done"},
   at : Node \cup {None}, index : Nat]

Synchronizer ==
  [pc : {"idle", "copy", "query"}, raft : SUBSET Node, missing : SUBSET Node,
   extra : SUBSET Node]

\* The types of the variables; a node has applied no entry that its log does
\* not have, and has no entry that was not committed.
TypeOK ==
  /\ leader \in Node \cup {None}
  /\ log \in Seq(Entry)
  /\ got \in [Node -> Nat] /\ pos \in [Node -> Nat]
  /\ \A n \in Node : pos[n] <= got[n] /\ got[n] <= Len(log)
  /\ peers \in [Node -> SUBSET Node]
  /\ join \in [Node -> Joining]
  /\ sync \in [Node -> Synchronizer]
  /\ left \in [Node -> {"no", "leaving", "yes"}]
  /\ faults \in Nat

\* AddPeerInternal commits the address of a node before it makes the node a
\* voter, whatever fails, restarts or changes the leader in between: no node
\* that processes the log can meet a voter, and so a leader, whose address
\* was not in an earlier entry.
VoterAnnounced ==
  \A i \in 1..Len(log) : log[i].type = "CONFIGURATION" =>
    \A p \in log[i].servers \ InitialPeers(Bootstrap) :
      \E j \in 1..(i - 1) : log[j].type = "ADD_PEER" /\ log[j].peer = p

\* Between the steps of AddPeerInternal a request is held by a node, and one
\* about to call AddVoter has its command in the log, at the index it waits
\* for, whatever was appended, restarted or rolled back since: the inductive
\* strengthening of VoterAnnounced.
PeersInv ==
  /\ TypeOK
  /\ VoterAnnounced
  /\ \A p \in Node :
       /\ join[p].pc \notin {"try", "done"} => join[p].at \in Node
       /\ join[p].pc = "voter" =>
            /\ join[p].index \in 1..Len(log)
            /\ log[join[p].index] = [type |-> "ADD_PEER", peer |-> p]

\* An address that does not belong to a member does not stay: whatever
\* AddPeer left behind when one of its steps failed, the log applied again
\* after a restart, or a departed node, the synchroniser of every node that
\* stays up removes it for good.
GhostsVanish ==
  \A n \in Node : <>[](Up(n) => peers[n] \subseteq GetPeers(n))

\* syncPeers "synchronizes peers between Raft configuration and FSM": once
\* the membership no longer changes a member has the address of every member.
Synchronized ==
  \A n \in Node : <>[](Up(n) => GetPeers(n) \subseteq peers[n])

=============================================================================
