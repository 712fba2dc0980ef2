------------------------------ MODULE Balancer ------------------------------
(***************************************************************************)
(* Choosing a proxy for a new connection (network/roundrobin.go,           *)
(* weightedroundrobin.go, random.go, consistenthash.go, loadbalancer.go)   *)
(* over the replicated state the strategies keep (FSM of raft/raft.go).    *)
(*                                                                         *)
(* Every node runs one server of the group.  Its accept loop calls         *)
(* NextProxy, which reads the node's own copy of the replicated state,     *)
(* computes a command from it and waits until the leader has applied the   *)
(* command.  Nothing ties the command to the state it was computed from:   *)
(* a follower, or a node that restarted, may read a copy that is behind.   *)
(*                                                                         *)
(* External (hashicorp/raft): one committed log, a prefix of which each    *)
(* node has applied; the command of a call that ended with an error may    *)
(* have been committed.                                                    *)
(***************************************************************************)
EXTENDS Integers, Sequences, FiniteSets, Functions

CONSTANTS
  Node,       \* the nodes of the cluster
  Proxies,    \* the proxies of the group, in the order of the distribution
  Weight,     \* the configured weight of each of them
  Order,      \* per node: server.Proxies, the proxies of the group that its
              \* configuration has, filled by ranging over a map
  Source,     \* source addresses of incoming connections
  Scenarios,  \* subset of ScenarioKinds
  Modulus,    \* the range of a round robin index, 2^32 in the code
  SnapshotThreshold, \* commands between two snapshots
  MaxLog,     \* bound on the committed log
  None        \* no proxy, no node

Proxy == Range(Proxies)

\* The strategy the servers are configured with, whether consistent hashing
\* wraps it, which nodes accept connections, and how many calls may fail or
\* nodes restart.
ScenarioKinds ==
  [name : {"ROUND_ROBIN", "RANDOM", "WEIGHTED_ROUND_ROBIN"},
   hash : BOOLEAN, callers : SUBSET Node, faults : Nat]

ASSUME BalancerAssumption ==
  /\ Proxies \in Seq(Proxy) /\ Proxies # << >>
  /\ Weight \in [Proxy -> Nat \ {0}]
  /\ Order \in [Node -> Seq(Proxy) \ {<< >>}]
  /\ Scenarios \subseteq ScenarioKinds
  /\ \A x \in Scenarios, n \in Node :
       x.name = "WEIGHTED_ROUND_ROBIN" /\ n \in x.callers
         => Range(Order[n]) = Proxy
  /\ Modulus \in Nat \ {0}
  /\ SnapshotThreshold \in Nat \ {0}
  /\ MaxLog \in Nat
  /\ None \notin Node \cup Proxy

VARIABLES
  scenario, \* what the behaviour is about, fixed by Init
  leader,   \* the raft leader
  log,      \* the committed commands, with what NextProxy chose
  states,   \* history: states[i + 1] is the state after i commands
  fresh,    \* history: every command was computed from the state it changed
  fsm,      \* per node: its FSM
  applied,  \* per node: how many commands its FSM has applied
  snap,     \* per node: the last snapshot on disk
  call,     \* per node: the NextProxy in progress
  served,   \* history: the proxy last returned for each source
  faults    \* how many calls failed or nodes restarted by themselves

raftVars == <<leader, log, states, fresh, applied, snap, faults>>
vars == <<scenario, leader, log, states, fresh, fsm, applied, snap, call,
          served, faults>>

-----------------------------------------------------------------------------
(* The replicated state.  A weight that is not in the FSM is read with     *)
(* current weight 0, the missing index as 0.                               *)

NewFSM == [rr   |-> 0,
           wrr  |-> [p \in Proxy |-> 0],
           hash |-> [s \in Source |-> None]]

FSMApply(f, entry) ==
  CASE entry.type = "ROUND_ROBIN" -> [f EXCEPT !.rr = entry.index]
    [] entry.type = "WEIGHTED_ROUND_ROBIN" -> [f EXCEPT !.wrr = entry.updates]
    [] entry.type = "HASH" -> [f EXCEPT !.hash[entry.source] = entry.proxy]
    [] OTHER -> f

\* Mutant of Persisted: the weights are not part of the snapshot.
PersistedWithoutWeights(f) == [f EXCEPT !.wrr = NewFSM.wrr]

\* What a snapshot carries through Persist and Restore.
Persisted(f) == [rr |-> f.rr, wrr |-> f.wrr, hash |-> f.hash]

-----------------------------------------------------------------------------
(* The commands the strategies compute.                                    *)

SumOver(w) ==
  LET sum[k \in 0..Len(Proxies)] ==
        IF k = 0 THEN 0 ELSE sum[k - 1] + w[Proxies[k]]
  IN  sum[Len(Proxies)]

TotalWeight == SumOver(Weight)

\* The current weights w as they were read, each raised by its weight.
Raised(w) == [p \in Proxy |-> w[p] + Weight[p]]

\* Mutant of Selected: the comparison is turned around.
SelectedLowest(w) ==
  LET best == {i \in DOMAIN Proxies : \A q \in Proxy :
                 Raised(w)[q] >= Raised(w)[Proxies[i]]}
  IN  Proxies[CHOOSE i \in best : \A j \in best : i <= j]

\* The first proxy of the distribution whose raised weight no other exceeds.
Selected(w) ==
  LET best == {i \in DOMAIN Proxies : \A q \in Proxy :
                 Raised(w)[q] <= Raised(w)[Proxies[i]]}
  IN  Proxies[CHOOSE i \in best : \A j \in best : i <= j]

\* Mutant of WeightedCommand: the selected proxy is not charged the total.
WeightedCommandUncharged(w) ==
  [type |-> "WEIGHTED_ROUND_ROBIN", proxy |-> Selected(w),
   updates |-> Raised(w)]

WeightedCommand(w) ==
  [type |-> "WEIGHTED_ROUND_ROBIN", proxy |-> Selected(w),
   updates |-> [Raised(w) EXCEPT ![Selected(w)] = @ - TotalWeight]]

\* Mutant of NextIndex: the index is read but not advanced.
NextIndexKept(f) == f.rr

NextIndex(f) == (f.rr + 1) % Modulus

RoundRobinCommand(n, f) ==
  [type |-> "ROUND_ROBIN", node |-> n, index |-> NextIndex(f),
   proxy |-> Order[n][(NextIndex(f) % Len(Order[n])) + 1]]

HashCommand(s, p) == [type |-> "HASH", source |-> s, proxy |-> p]

Idle == [pc |-> "idle", source |-> None, looked |-> 0, read |-> << >>,
         base |-> 0, cmd |-> None, proxy |-> None, pos |-> 0, via |-> None]

Init ==
  /\ scenario \in Scenarios
  /\ leader = None
  /\ log = << >>
  /\ states = <<NewFSM>>
  /\ fresh = TRUE
  /\ fsm = [n \in Node |-> NewFSM]
  /\ applied = [n \in Node |-> 0]
  /\ snap = [n \in Node |-> [index |-> 0, fsm |-> NewFSM]]
  /\ call = [n \in Node |-> Idle]
  /\ served = [s \in Source |-> None]
  /\ faults = 0

-----------------------------------------------------------------------------
(* NextProxy.  r.mu and the single accept loop allow one call per node.    *)

Return(n, s, p) ==
  /\ call' = [call EXCEPT ![n] = Idle]
  /\ served' = [served EXCEPT ![s] = p]

\* server.ProxyByBlock: the proxies that node n can reach by block name.
ProxyByBlock(n) == Range(Order[n])

\* ConsistentHash.NextProxy finds the source in the table, with a block that
\* is one of this node's.
HashHit(n, s) ==
  /\ n \in scenario.callers /\ scenario.hash /\ call[n].pc = "idle"
  /\ fsm[n].hash[s] \in ProxyByBlock(n)
  /\ Return(n, s, fsm[n].hash[s])
  /\ UNCHANGED <<scenario, raftVars, fsm>>

\* Mutant of Begin: the table is not consulted.
BeginUnhashed(n, s) ==
  /\ n \in scenario.callers
  /\ call[n].pc = "idle" /\ Len(log) < MaxLog
  /\ call' = [call EXCEPT ![n] =
       [Idle EXCEPT !.pc = "choose", !.source = s,
                   !.looked = IF scenario.hash THEN applied[n] ELSE 0]]
  /\ UNCHANGED <<scenario, raftVars, fsm, served>>

\* NextProxy of the configured strategy is entered.  Under consistent hashing
\* the table has no entry for the source, or one this node has no proxy for;
\* the choice will then replace it.
Begin(n, s) ==
  /\ n \in scenario.callers
  /\ call[n].pc = "idle" /\ Len(log) < MaxLog
  /\ scenario.hash => fsm[n].hash[s] \notin ProxyByBlock(n)
  /\ call' = [call EXCEPT ![n] =
       [Idle EXCEPT !.pc = "choose", !.source = s,
                   !.looked = IF scenario.hash THEN applied[n] ELSE 0]]
  /\ UNCHANGED <<scenario, raftVars, fsm, served>>

\* Random.NextProxy.  Its choice is only recorded by consistent hashing.
ChooseRandom(n) ==
  /\ call[n].pc = "choose" /\ scenario.name = "RANDOM"
  /\ \E p \in Range(Order[n]) :
       \/ /\ scenario.hash
          /\ call' = [call EXCEPT ![n].pc = "apply",
                       ![n].cmd = HashCommand(call[n].source, p),
                       ![n].base = call[n].looked]
          /\ UNCHANGED served
       \/ ~scenario.hash /\ Return(n, call[n].source, p)
  /\ UNCHANGED <<scenario, raftVars, fsm>>

\* RoundRobin.NextProxy reads the index of the node's own FSM.
ChooseRoundRobin(n) ==
  /\ call[n].pc = "choose" /\ scenario.name = "ROUND_ROBIN"
  /\ call' = [call EXCEPT ![n].pc = "apply", ![n].base = applied[n],
                           ![n].cmd = RoundRobinCommand(n, fsm[n])]
  /\ UNCHANGED <<scenario, raftVars, fsm, served>>

\* WeightedRoundRobin.NextProxy reads the weights one proxy at a time; the
\* FSM may apply a command between two reads.
ReadWeight(n) ==
  /\ call[n].pc = "choose" /\ scenario.name = "WEIGHTED_ROUND_ROBIN"
  /\ LET next == Len(call[n].read) + 1
         read == Append(call[n].read, fsm[n].wrr[Proxies[next]])
         base == IF next = 1 THEN applied[n] ELSE call[n].base
         w    == [p \in Proxy |->
                    read[CHOOSE i \in DOMAIN Proxies : Proxies[i] = p]]
     IN  IF next < Len(Proxies)
         THEN call' = [call EXCEPT ![n].read = read, ![n].base = base]
         ELSE call' = [call EXCEPT ![n].pc = "apply", ![n].read = << >>,
                                   ![n].base = base,
                                   ![n].cmd = WeightedCommand(w)]
  /\ UNCHANGED <<scenario, raftVars, fsm, served>>

\* No command of the kind of cmd (for HASH, of its source) was committed
\* after the first base commands: cmd was computed from the current state.
IsFresh(cmd, base) ==
  \A i \in (base + 1)..Len(log) :
    \/ log[i].type # cmd.type
    \/ cmd.type = "HASH" /\ log[i].source # cmd.source

AppendToLog(cmd, base) ==
  /\ log' = Append(log, cmd)
  /\ states' = Append(states, FSMApply(states[Len(states)], cmd))
  /\ fresh' = (fresh /\ IsFresh(cmd, base))

\* Apply, or forwardToLeader: the leader takes the command and it commits.
Commit(n) ==
  /\ call[n].pc = "apply" /\ leader # None /\ Len(log) < MaxLog
  /\ AppendToLog(call[n].cmd, call[n].base)
  /\ call' = [call EXCEPT ![n].pc = "wait", ![n].pos = Len(log) + 1,
                           ![n].via = leader, ![n].proxy = call[n].cmd.proxy,
                           ![n].cmd = None, ![n].base = 0]
  /\ UNCHANGED <<scenario, leader, fsm, applied, snap, served, faults>>

\* The choice is still to be recorded in the table.
Recording(n) == scenario.hash /\ log[call[n].pos].type # "HASH"

\* The future of the command resolves once the leader's FSM applied it.
\* Under consistent hashing the choice is then recorded in the table.
Applied(n) ==
  /\ call[n].pc = "wait" /\ call[n].via # None
  /\ applied[call[n].via] >= call[n].pos
  /\ \/ /\ Recording(n)
        /\ call' = [call EXCEPT ![n].pc = "apply", ![n].via = None,
             ![n].cmd = HashCommand(call[n].source, call[n].proxy),
             ![n].base = call[n].looked]
        /\ UNCHANGED served
     \/ /\ ~Recording(n)
        /\ Return(n, call[n].source, call[n].proxy)
  /\ UNCHANGED <<scenario, raftVars, fsm>>

\* Apply returns an error, by a timeout or a lost leader: the connection is
\* closed, although the command may have been committed.
Fail(n) ==
  /\ \/ call[n].pc = "wait" /\ call[n].via = None /\ UNCHANGED faults
     \/ /\ call[n].pc \in {"apply", "wait"}
        /\ faults < scenario.faults /\ faults' = faults + 1
  /\ call' = [call EXCEPT ![n] = Idle]
  /\ UNCHANGED <<scenario, leader, log, states, fresh, applied, snap, fsm,
                 served>>

-----------------------------------------------------------------------------
(* The replicated log (external: hashicorp/raft) and the FSM's part in it. *)

\* FSM.Apply of the next committed command.
ApplyNext(n) ==
  /\ applied[n] < Len(log)
  /\ fsm' = [fsm EXCEPT ![n] = FSMApply(@, log[applied[n] + 1])]
  /\ applied' = [applied EXCEPT ![n] = @ + 1]
  /\ UNCHANGED <<scenario, leader, log, states, fresh, snap, call, served,
                 faults>>

\* FSM.Snapshot and Persist; raft calls Snapshot between two Apply.
Snapshot(n) ==
  /\ snap[n].index + SnapshotThreshold <= applied[n]
  /\ snap' = [snap EXCEPT ![n] = [index |-> applied[n], fsm |-> Persisted(fsm[n])]]
  /\ UNCHANGED <<scenario, leader, log, states, fresh, fsm, applied, call,
                 served, faults>>

\* The leader no longer has the commands n is missing and sends a snapshot,
\* which n stores and passes to FSM.Restore.
InstallSnapshot(n) ==
  /\ leader # None /\ leader # n /\ applied[n] < snap[leader].index
  /\ snap' = [snap EXCEPT ![n] = snap[leader]]
  /\ fsm' = [fsm EXCEPT ![n] = snap[leader].fsm]
  /\ applied' = [applied EXCEPT ![n] = snap[leader].index]
  /\ UNCHANGED <<scenario, leader, log, states, fresh, call, served, faults>>

\* The process of n ends and NewRaftNode starts it again from its snapshot;
\* the commands after the snapshot are applied again later.
Crash(n) ==
  /\ faults < scenario.faults /\ faults' = faults + 1
  /\ fsm' = [fsm EXCEPT ![n] = snap[n].fsm]
  /\ applied' = [applied EXCEPT ![n] = snap[n].index]
  /\ leader' = IF leader = n THEN None ELSE leader
  /\ call' = [m \in Node |->
       IF m = n THEN Idle
       ELSE IF call[m].via = n THEN [call[m] EXCEPT !.via = None] ELSE call[m]]
  /\ UNCHANGED <<scenario, log, states, fresh, snap, served>>

\* The new leader has the whole log but may not have applied it yet.  Calls
\* that wait for the old leader end with an error.
Elect(n) ==
  /\ leader = None
  /\ leader' = n
  /\ call' = [m \in Node |-> [call[m] EXCEPT !.via = None]]
  /\ UNCHANGED <<scenario, log, states, fresh, fsm, applied, snap, served,
                 faults>>

NextProxy(n) ==
  \/ \E s \in Source : HashHit(n, s) \/ Begin(n, s)
  \/ ChooseRandom(n) \/ ChooseRoundRobin(n) \/ ReadWeight(n)
  \/ Commit(n) \/ Applied(n) \/ Fail(n)

Next ==
  \/ \E n \in Node :
       \/ NextProxy(n)
       \/ ApplyNext(n) \/ Snapshot(n) \/ InstallSnapshot(n)
       \/ Crash(n) \/ Elect(n)

Spec == Init /\ [][Next]_vars

-----------------------------------------------------------------------------
(* Properties.                                                             *)

Command ==
  [type : {"ROUND_ROBIN"}, node : Node, index : 0..(Modulus - 1), proxy : Proxy]
    \cup [type : {"WEIGHTED_ROUND_ROBIN"}, proxy : Proxy, updates : [Proxy -> Int]]
    \cup [type : {"HASH"}, source : Source, proxy : Proxy]

FSM == [rr : 0..(Modulus - 1), wrr : [Proxy -> Int],
        hash : [Source -> Proxy \cup {None}]]

Call == [pc : {"idle", "choose", "apply", "wait"}, source : Source \cup {None},
         looked : Nat, read : Seq(Int), base : Nat, cmd : Command \cup {None},
         proxy : Proxy \cup {None}, pos : Nat, via : Node \cup {None}]

\* Type correctness: a round robin index keeps its width, every command, and
\* every entry of the table, names a proxy of the group, and no node has
\* applied more than was committed.
TypeOK ==
  /\ scenario \in Scenarios
  /\ leader \in Node \cup {None}
  /\ log \in Seq(Command)
  /\ states \in Seq(FSM)
  /\ fresh \in BOOLEAN
  /\ fsm \in [Node -> FSM]
  /\ applied \in [Node -> 0..Len(log)]
  /\ snap \in [Node -> [index : 0..Len(log), fsm : FSM]]
  /\ call \in [Node -> Call]
  /\ served \in [Source -> Proxy \cup {None}]
  /\ faults \in Nat

\* Two nodes that have applied the same number of commands keep the same
\* balancing state, however they got there: by FSM.Apply, from a snapshot of
\* their own after a restart, or from one of the leader.
ReplicasAgree ==
  \A m, n \in Node : applied[m] = applied[n] => fsm[m] = fsm[n]

\* The inductive strengthening of ReplicasAgree: the FSM of a node, and its
\* snapshot, are the state after as many commands as it says, and a snapshot
\* carries all of that state.
ReplicaInv ==
  /\ leader \in Node \cup {None}
  /\ log \in Seq(Range(log))
  /\ states \in Seq(Range(states))
  /\ Len(states) = Len(log) + 1
  /\ \A i \in 1..Len(log) : states[i + 1] = FSMApply(states[i], log[i])
  /\ \A i \in 1..Len(states) : Persisted(states[i]) = states[i]
  /\ applied \in [Node -> 0..Len(log)]
  /\ fsm = [n \in Node |-> states[applied[n] + 1]]
  /\ DOMAIN snap = Node
  /\ \A n \in Node :
       /\ snap[n].index \in 0..Len(log)
       /\ snap[n] = [index |-> snap[n].index, fsm |-> states[snap[n].index + 1]]

\* The state after all committed commands.
Current == states[Len(states)]

\* No command of this type was committed after the first i ones.
Quiet(type, i) == \A k \in (i + 1)..Len(log) : log[k].type # type

\* Only a command of its own kind changes a part of the state.
KeptInv ==
  \A i \in 0..Len(log) :
    /\ Quiet("ROUND_ROBIN", i) => states[i + 1].rr = Current.rr
    /\ Quiet("WEIGHTED_ROUND_ROBIN", i) => states[i + 1].wrr = Current.wrr
    /\ \A s \in Source :
         (\A k \in (i + 1)..Len(log) :
            log[k].type = "HASH" => log[k].source # s)
         => states[i + 1].hash[s] = Current.hash[s]

\* The call that is choosing: what it has read is the current state, if that
\* did not change since it began to read.
ChooseInv(n) ==
  call[n].pc = "choose" =>
    /\ call[n].base <= applied[n]
    /\ Len(call[n].read) < Len(Proxies)
    /\ Quiet("WEIGHTED_ROUND_ROBIN", call[n].base)
         => \A i \in 1..Len(call[n].read) :
              call[n].read[i] = Current.wrr[Proxies[i]]

\* A round robin command names the proxy its index stands for.
IsTurn(cmd) ==
  cmd.proxy = Order[cmd.node][(cmd.index % Len(Order[cmd.node])) + 1]

\* The call that has computed its command: a fresh command is the one that
\* the strategy computes from the current state.
ApplyInv(n) ==
  call[n].pc = "apply" =>
    /\ call[n].cmd \in Command
    /\ call[n].base <= Len(log)
    /\ call[n].cmd.type = "ROUND_ROBIN" =>
         /\ IsTurn(call[n].cmd)
         /\ IsFresh(call[n].cmd, call[n].base)
              => call[n].cmd.index = NextIndex(Current)
    /\ /\ call[n].cmd.type = "WEIGHTED_ROUND_ROBIN"
       /\ IsFresh(call[n].cmd, call[n].base)
       => call[n].cmd = WeightedCommand(Current.wrr)
    /\ call[n].cmd.type = "HASH" =>
         /\ scenario.hash
         /\ call[n].base = call[n].looked
         /\ call[n].cmd.source = call[n].source

\* The call that waits for its command, and every call under consistent
\* hashing: in the state it looked at, the table had nothing for its source
\* that the node could use.
WaitInv(n) ==
  /\ call[n].looked <= Len(log)
  /\ call[n].pc # "idle" =>
       /\ n \in scenario.callers /\ call[n].source \in Source
       /\ scenario.hash => states[call[n].looked + 1].hash[call[n].source]
                             \notin ProxyByBlock(n)
  /\ call[n].pc = "wait" =>
       /\ call[n].pos \in 1..Len(log)
       /\ call[n].proxy = log[call[n].pos].proxy
       /\ log[call[n].pos].type = "HASH"
            => log[call[n].pos].source = call[n].source

Picks(k, p) ==
  Cardinality({i \in 1..k : /\ log[i].type = "WEIGHTED_ROUND_ROBIN"
                            /\ log[i].proxy = p})

Rounds(k) ==
  Cardinality({i \in 1..k : log[i].type = "WEIGHTED_ROUND_ROBIN"})

\* Weighted round robin gives each proxy its share all along: after any
\* number of choices a proxy is less than one choice ahead of weight/total of
\* them, and each total choices give it exactly its weight.  Crashes, failed
\* calls and snapshots do not disturb it as long as every command was
\* computed from the current state.  (How far a proxy may fall behind grows
\* with the number of proxies: with weights 1, 1, 1, 3, 3, 3 the last one is
\* a whole choice behind after eight.)
WeightedShare ==
  fresh => \A k \in 0..Len(log), p \in Proxy :
    /\ Picks(k, p) * TotalWeight < Rounds(k) * Weight[p] + TotalWeight
    /\ Rounds(k) % TotalWeight = 0
         => Picks(k, p) * TotalWeight = Rounds(k) * Weight[p]

\* The weights of a node's FSM are balanced: what one choice takes from the
\* selected proxy it gave to all of them, as NextProxy's comment says "to
\* ensure balanced distribution over time".
WeightsBalanced == \A n \in Node : SumOver(fsm[n].wrr) = 0

\* Round robin: within as many commands as it has proxies the choices of one
\* node differ from each other, unless the index wrapped around in between.
RoundRobinCycles ==
  fresh => \A i, j \in DOMAIN log :
    /\ log[i].type = "ROUND_ROBIN" /\ log[j].type = "ROUND_ROBIN"
    /\ log[i].node = log[j].node
    /\ i < j /\ j < i + Len(Order[log[i].node])
    /\ log[i].index <= log[j].index
    => log[i].proxy # log[j].proxy

\* Every node that accepts connections has all proxies of the group.
Listed == \A n \in scenario.callers : ProxyByBlock(n) = Proxy

\* Consistent hashing, in a cluster whose nodes have the same proxies: a source
\* that was given a proxy is given the same one again, on every node and across
\* restarts, unless some node decided from a table that was behind.
Sticky ==
  [][\A s \in Source :
       scenario.hash /\ Listed /\ fresh' /\ served[s] # None
         => served'[s] = served[s]]_vars

\* The same of any cluster.  A node that has no proxy of the block in the table
\* moves the source for all of them.
StickyAnywhere ==
  [][\A s \in Source :
       scenario.hash /\ fresh' /\ served[s] # None => served'[s] = served[s]]_vars

\* The inductive strengthening of Sticky: the table keeps what it has, and
\* what was served is in it.
StickyInv ==
  scenario.hash /\ Listed /\ fresh => \A s \in Source :
    /\ \A i \in 0..Len(log) :
         states[i + 1].hash[s] # None => Current.hash[s] = states[i + 1].hash[s]
    /\ served[s] # None => Current.hash[s] = served[s]

\* The inductive strengthening of RoundRobinCycles: as long as fewer commands
\* than the range of the index follow a choice, the current index is the
\* choice's plus at most their number, unless it wrapped around.
TurnInv ==
  fresh => \A i \in 1..Len(log) :
    log[i].type = "ROUND_ROBIN" =>
      /\ IsTurn(log[i])
      /\ Len(log) - i < Modulus =>
           \E d \in 0..(Len(log) - i) :
             \/ Current.rr = log[i].index + d
             \/ Current.rr = log[i].index + d - Modulus

\* The inductive strengthening of WeightedShare: a current weight is what the
\* proxy's weight added up to less what its choices cost, the weights sum up
\* to 0, and no proxy was ever charged below -TotalWeight.
ShareInv ==
  fresh => \A k \in 0..Len(log) :
    /\ SumOver(states[k + 1].wrr) = 0
    /\ \A p \in Proxy :
         /\ states[k + 1].wrr[p] = Rounds(k) * Weight[p] - Picks(k, p) * TotalWeight
         /\ states[k + 1].wrr[p] > -TotalWeight

CallInv == \A n \in Node : ChooseInv(n) /\ ApplyInv(n) /\ WaitInv(n)

=============================================================================
