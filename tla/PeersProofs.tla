---------------------------- MODULE PeersProofs ----------------------------
(***************************************************************************)
(* A voter's address is in the log before the voter is, for every set of   *)
(* nodes, every configuration file and every number of faults.             *)
(***************************************************************************)
EXTENDS Peers, WellFoundedInduction, TLAPS

\* SMT, then Zenon, with their time limits in seconds.
USE SMTT(30), ZenonT(60)

\* A nonempty set of numbers up to n has a largest one.
LEMMA Largest ==
  ASSUME NEW n \in Nat, NEW T \in SUBSET (1..n), T # {}
  PROVE  \E i \in T : \A j \in T : j <= i
<1> DEFINE D == {n - i : i \in T}
           R == OpToRel(<, Nat)
<1>1. D \in SUBSET Nat /\ D # {}
  <2>1. \A i \in T : n - i \in Nat OBVIOUS
  <2> QED BY ZenonT(60), <2>1
<1>2. IsWellFoundedOn(R, Nat) BY ZenonT(60), NatLessThanWellFounded
<1>3. \A x, y \in Nat : y < x => <<y, x>> \in R BY DEF OpToRel
<1> HIDE DEF D, R
<1>4. PICK x \in D : \A y \in D : ~(<<y, x>> \in R) BY ZenonT(60), <1>1, <1>2, WFMin
<1>5. \A y \in D : x <= y
  <2> TAKE y \in D
  <2>1. x \in Nat /\ y \in Nat BY <1>1
  <2>2. ~(y < x) BY ZenonT(60), <1>3, <1>4, <2>1
  <2> QED BY <2>1, <2>2
<1>6. PICK i \in T : x = n - i BY DEF D
<1>7. \A j \in T : n - j \in D BY DEF D
<1> QED BY <1>5, <1>6, <1>7

\* Init establishes the inductive invariant.
LEMMA InitPeers == Init => PeersInv
<1> SUFFICES ASSUME Init PROVE PeersInv OBVIOUS
<1>1. \A n \in Node : InitialPeers(n) \in SUBSET Node
  BY PeersAssumption DEF InitialPeers
<1>2. \A n \in Node : InitialJoin(n) \in Joining /\ InitialJoin(n).pc \in {"try", "done"}
  BY DEF InitialJoin, Joining, Out
<1>3. NoSync \in Synchronizer BY DEF NoSync, Synchronizer
<1> DEFINE first == [type |-> "CONFIGURATION", servers |-> InitialPeers(Bootstrap)]
<1>4. first \in Entry BY <1>1, PeersAssumption DEF Entry
<1>5. log \in Seq(Entry) /\ Len(log) = 1 /\ log[1] = first BY <1>4 DEF Init
<1>6. TypeOK
  <2> HIDE DEF first
  <2>1. /\ leader \in Node \cup {None} /\ faults \in Nat
        /\ left \in [Node -> {"no", "leaving", "yes"}]
    BY PeersAssumption DEF Init
  <2>2. got \in [Node -> Nat] /\ pos \in [Node -> Nat]
        /\ \A n \in Node : pos[n] <= got[n] /\ got[n] <= 1
    BY DEF Init
  <2>3. peers \in [Node -> SUBSET Node] BY <1>1 DEF Init
  <2>4. join \in [Node -> Joining] BY <1>2 DEF Init
  <2>5. sync \in [Node -> Synchronizer] BY <1>3 DEF Init
  <2> QED BY <1>5, <2>1, <2>2, <2>3, <2>4, <2>5 DEF TypeOK
<1>7. VoterAnnounced BY <1>5 DEF VoterAnnounced
<1>8. \A p \in Node : join[p].pc \in {"try", "done"} BY <1>2 DEF Init
<1> QED BY <1>6, <1>7, <1>8 DEF PeersInv

\* The latest configuration of a prefix of the log is that of an entry.
LEMMA ServersLogged ==
  ASSUME TypeOK, NEW k \in 0..Len(log), Servers(k) # {}
  PROVE  \E i \in 1..Len(log) :
           log[i].type = "CONFIGURATION" /\ log[i].servers = Servers(k)
<1> DEFINE confs == {i \in 1..k : log[i].type = "CONFIGURATION"}
<1>1. confs # {} BY DEF Servers
<1>2. Len(log) \in Nat /\ k \in Nat /\ confs \in SUBSET (1..k) BY DEF TypeOK
<1>3. \E i \in confs : \A j \in confs : j <= i
  <2> HIDE DEF confs
  <2> QED BY ZenonT(60), <1>1, <1>2, Largest
<1>4. \E i \in confs : log[i].servers = Servers(k) BY ZenonT(60), <1>1, <1>3 DEF Servers
<1> QED BY <1>2, <1>4

\* The servers of a configuration are nodes.
LEMMA ServersNodes ==
  ASSUME TypeOK, NEW k \in 0..Len(log) PROVE Servers(k) \in SUBSET Node
<1>1. CASE Servers(k) = {} BY <1>1
<1>2. CASE Servers(k) # {}
  <2>1. PICK i \in 1..Len(log) :
          log[i].type = "CONFIGURATION" /\ log[i].servers = Servers(k)
    BY <1>2, ServersLogged
  <2>2. log[i] \in Entry BY DEF TypeOK
  <2> QED BY <2>1, <2>2 DEF Entry
<1> QED BY <1>1, <1>2

\* The address of p is in an entry of the log.
Announced(p) ==
  \E j \in 1..Len(log) : log[j].type = "ADD_PEER" /\ log[j].peer = p

\* What appending an entry preserves.
LEMMA ProposeKeeps ==
  ASSUME TypeOK, VoterAnnounced, leader \in Node, NEW e \in Entry, Propose(e),
         e.type = "CONFIGURATION" =>
           \A p \in e.servers \ InitialPeers(Bootstrap) : Announced(p)
  PROVE  /\ log' \in Seq(Entry) /\ Len(log') = Len(log) + 1
         /\ \A i \in 1..Len(log) : log'[i] = log[i]
         /\ log'[Len(log) + 1] = e
         /\ got' \in [Node -> Nat]
         /\ \A n \in Node : pos[n] <= got'[n] /\ got'[n] <= Len(log')
         /\ VoterAnnounced'
<1>0. Len(log) \in Nat BY DEF TypeOK
<1>1. /\ log' \in Seq(Entry) /\ Len(log') = Len(log) + 1
      /\ \A i \in 1..Len(log) : log'[i] = log[i]
      /\ log'[Len(log) + 1] = e
  BY DEF Propose, TypeOK
<1>2. /\ got' \in [Node -> Nat]
      /\ \A n \in Node : pos[n] <= got'[n] /\ got'[n] <= Len(log')
  <2>1. got' = [got EXCEPT ![leader] = Len(log) + 1] BY DEF Propose
  <2> QED BY <1>0, <1>1, <2>1 DEF TypeOK
<1>3. VoterAnnounced'
  <2> SUFFICES ASSUME NEW i \in 1..Len(log'), log'[i].type = "CONFIGURATION",
                      NEW p \in log'[i].servers \ InitialPeers(Bootstrap)
               PROVE  \E j \in 1..(i - 1) :
                        log'[j].type = "ADD_PEER" /\ log'[j].peer = p
    BY DEF VoterAnnounced, InitialPeers
  <2>1. CASE i \in 1..Len(log)
    <3>1. PICK j \in 1..(i - 1) : log[j].type = "ADD_PEER" /\ log[j].peer = p
      BY <1>1, <2>1 DEF VoterAnnounced
    <3>2. j \in 1..Len(log) BY <1>0, <2>1
    <3> QED BY <1>1, <3>1, <3>2
  <2>2. CASE i = Len(log) + 1
    <3>1. PICK j \in 1..Len(log) : log[j].type = "ADD_PEER" /\ log[j].peer = p
      BY <1>1, <2>2 DEF Announced
    <3>2. j \in 1..(i - 1) BY <1>0, <2>2
    <3> QED BY <1>1, <3>1, <3>2
  <2> QED BY <1>0, <1>1, <2>1, <2>2
<1> QED BY <1>1, <1>2, <1>3

\* Every member is announced, or was in the bootstrap configuration.
LEMMA MembersAnnounced ==
  ASSUME TypeOK, VoterAnnounced
  PROVE  /\ Members \in SUBSET Node
         /\ \A p \in Members \ InitialPeers(Bootstrap) : Announced(p)
<1>1. CASE Members = {} BY <1>1
<1>2. CASE Members # {}
  <2>1. PICK i \in 1..Len(log) :
          log[i].type = "CONFIGURATION" /\ log[i].servers = Members
    <3>1. Len(log) \in 0..Len(log) BY DEF TypeOK
    <3> QED BY <1>2, <3>1, ServersLogged DEF Members
  <2>3. Members \in SUBSET Node
    <3>1. Len(log) \in 0..Len(log) BY DEF TypeOK
    <3> QED BY <3>1, ServersNodes DEF Members
  <2>4. ASSUME NEW p \in Members \ InitialPeers(Bootstrap) PROVE Announced(p)
    <3>1. PICK j \in 1..(i - 1) : log[j].type = "ADD_PEER" /\ log[j].peer = p
      BY <2>1 DEF VoterAnnounced
    <3>2. j \in 1..Len(log) BY DEF TypeOK
    <3> QED BY <3>1, <3>2 DEF Announced
  <2> QED BY <2>3, <2>4
<1> QED BY <1>1, <1>2

\* Every step preserves the inductive invariant.
LEMMA StepPeers == ASSUME PeersInv, [Next]_vars PROVE PeersInv'
<1>0. TypeOK /\ VoterAnnounced /\ Len(log) \in Nat BY DEF PeersInv, TypeOK
<1> DEFINE Asked(p) ==
      /\ join[p].pc \notin {"try", "done"} => join[p].at \in Node
      /\ join[p].pc = "voter" =>
           /\ join[p].index \in 1..Len(log)
           /\ log[join[p].index] = [type |-> "ADD_PEER", peer |-> p]
<1>1. \A p \in Node : Asked(p) BY ZenonT(60) DEF PeersInv
<1>2. Out \in Joining /\ NoSync \in Synchronizer
  BY DEF Out, Joining, NoSync, Synchronizer
\* Requests survive a step that leaves the log or appends to it.
<1>3. ASSUME TypeOK', VoterAnnounced', Len(log') >= Len(log),
             \A i \in 1..Len(log) : log'[i] = log[i],
             \A p \in Node : \/ join'[p] = join[p]
                             \/ join'[p].pc \in {"try", "done"}
                             \/ /\ join'[p].pc # "voter" /\ join'[p].at \in Node
      PROVE  PeersInv'
  <2> SUFFICES ASSUME NEW p \in Node PROVE Asked(p)'
    BY <1>3 DEF PeersInv
  <2>1. CASE join'[p] = join[p]
    <3>1. Len(log') \in Nat BY <1>3 DEF TypeOK
    <3>2. \A i \in 1..Len(log) : i \in 1..Len(log') BY <1>0, <1>3, <3>1
    <3> QED BY <1>1, <1>3, <2>1, <3>2
  <2>2. CASE join'[p] # join[p] BY <1>3, <2>2
  <2> QED BY <2>1, <2>2
\* The steps that leave the log, the positions and the requests alone.
<1>4. ASSUME UNCHANGED <<log, join>>, TypeOK' PROVE PeersInv'
  <2>1. VoterAnnounced' BY <1>0, <1>4 DEF VoterAnnounced, InitialPeers
  <2> QED BY <1>0, <1>3, <1>4, <2>1
<1>5. ASSUME NEW p \in Node, Join(p) PROVE PeersInv'
  <2>1. leader \in Node
    <3>1. PICK q \in Configured[p] : Reaches(q) BY <1>5 DEF Join
    <3>2. q \in Node BY PeersAssumption
    <3> QED BY <1>0, <3>1, <3>2 DEF Reaches, CanForward, TypeOK
  <2> DEFINE j == [Out EXCEPT !.pc = "insert", !.at = leader]
  <2>2. j \in Joining /\ j.pc = "insert" /\ j.at \in Node
    BY ZenonT(60), <2>1 DEF Out, Joining
  <2>3. join' = [join EXCEPT ![p] = j] BY <1>5 DEF Join
  <2> HIDE DEF j
  <2>4. UNCHANGED <<leader, log, got, pos, peers, sync, left, faults>>
    BY <1>5 DEF Join
  <2>5. TypeOK' BY <1>0, <2>2, <2>3, <2>4 DEF TypeOK
  <2>6. VoterAnnounced' BY <1>0, <2>4 DEF VoterAnnounced, InitialPeers
  <2>7. \A q \in Node : join'[q] = IF q = p THEN j ELSE join[q]
    BY <1>0, <2>3 DEF TypeOK
  <2> QED BY <1>0, <1>3, <2>2, <2>4, <2>5, <2>6, <2>7
<1>6. ASSUME NEW p \in Node, AddInsert(p) PROVE PeersInv'
  <2>1. join[p].at \in Node BY ZenonT(60), <1>1, <1>6 DEF AddInsert
  <2>2. join' = [join EXCEPT ![p].pc = "apply"] BY <1>6 DEF AddInsert
  <2>3. /\ UNCHANGED <<leader, log, got, pos, sync, left, faults>>
        /\ peers' = [peers EXCEPT ![join[p].at] = @ \cup {p}]
    BY <1>6 DEF AddInsert
  <2>4. /\ join' \in [Node -> Joining] /\ join'[p].pc = "apply"
        /\ join'[p].at \in Node /\ \A q \in Node : q # p => join'[q] = join[q]
    BY ZenonT(60), <1>0, <2>1, <2>2 DEF TypeOK, Joining
  <2>5. TypeOK' BY ZenonT(60), <1>0, <2>1, <2>3, <2>4 DEF TypeOK
  <2>6. VoterAnnounced' BY <1>0, <2>3 DEF VoterAnnounced, InitialPeers
  <2> QED BY <1>0, <1>3, <2>3, <2>4, <2>5, <2>6
<1>7. ASSUME NEW p \in Node, AddApply(p) PROVE PeersInv'
  <2>1. UNCHANGED <<leader, pos, peers, sync, left>> BY <1>7 DEF AddApply
  <2>2. faults' \in Nat BY <1>0, <1>7 DEF AddApply, Fails, Fault, TypeOK
  <2> DEFINE e == [type |-> "ADD_PEER", peer |-> p]
  <2>3. CASE /\ Reaches(join[p].at) /\ Propose(e)
             /\ join' = [join EXCEPT ![p] =
                  [pc |-> "voter", at |-> join[p].at, index |-> Len(log) + 1]]
    <3>1. leader \in Node
      <4>1. join[p].at \in Node BY <1>1, <1>7 DEF AddApply
      <4> QED BY <1>0, <2>3, <4>1 DEF Reaches, CanForward, TypeOK
    <3>2. e \in Entry /\ e.type # "CONFIGURATION" BY DEF Entry
    <3> HIDE DEF e
    <3>3. /\ log' \in Seq(Entry) /\ Len(log') = Len(log) + 1
          /\ \A i \in 1..Len(log) : log'[i] = log[i]
          /\ log'[Len(log) + 1] = e
          /\ got' \in [Node -> Nat]
          /\ \A n \in Node : pos[n] <= got'[n] /\ got'[n] <= Len(log')
          /\ VoterAnnounced'
      BY <1>0, <2>3, <3>1, <3>2, ProposeKeeps
    <3>4. /\ join' \in [Node -> Joining]
          /\ join'[p].pc = "voter" /\ join'[p].index = Len(log) + 1
          /\ join'[p].at = join[p].at
          /\ \A q \in Node : q # p => join'[q] = join[q]
      <4> DEFINE j == [pc |-> "voter", at |-> join[p].at, index |-> Len(log) + 1]
      <4>1. join[p] \in Joining BY <1>0 DEF TypeOK
      <4>2. /\ j \in Joining /\ j.pc = "voter" /\ j.index = Len(log) + 1
            /\ j.at = join[p].at
        BY <1>0, <4>1 DEF Joining
      <4>3. join' = [join EXCEPT ![p] = j] BY <1>0, <2>3 DEF TypeOK
      <4> HIDE DEF j
      <4> QED BY <1>0, <4>2, <4>3 DEF TypeOK
    <3>5. TypeOK' BY <1>0, <2>1, <2>2, <3>3, <3>4 DEF TypeOK
    <3>6. ASSUME NEW q \in Node PROVE Asked(q)'
      <4>1. CASE q = p
        <5>1. join[p].at \in Node BY <1>1, <1>7 DEF AddApply
        <5>2. Len(log) + 1 \in 1..Len(log') BY <1>0, <3>3
        <5> QED BY <3>3, <3>4, <4>1, <5>1, <5>2 DEF e
      <4>2. CASE q # p
        <5>1. \A i \in 1..Len(log) : i \in 1..Len(log') BY <1>0, <3>3
        <5> QED BY <1>1, <3>3, <3>4, <4>2, <5>1
      <4> QED BY <4>1, <4>2
    <3> QED BY <3>3, <3>5, <3>6 DEF PeersInv
  <2>4. CASE join' = [join EXCEPT ![p] = Out] /\ UNCHANGED <<log, got>>
    <3>1. /\ join' \in [Node -> Joining] /\ join'[p].pc = "try"
          /\ \A q \in Node : q # p => join'[q] = join[q]
      BY <1>0, <1>2, <2>4 DEF TypeOK, Out
    <3>2. TypeOK' BY <1>0, <2>1, <2>2, <2>4, <3>1 DEF TypeOK
    <3>3. VoterAnnounced' BY <1>0, <2>4 DEF VoterAnnounced, InitialPeers
    <3> QED BY <1>0, <1>3, <2>4, <3>1, <3>2, <3>3
  <2>5. CASE /\ Reaches(join[p].at) /\ Propose(e)
             /\ join' = [join EXCEPT ![p] = Out]
    <3>1. leader \in Node
      <4>1. join[p].at \in Node BY <1>1, <1>7 DEF AddApply
      <4> QED BY <1>0, <2>5, <4>1 DEF Reaches, CanForward, TypeOK
    <3>2. e \in Entry /\ e.type # "CONFIGURATION" BY DEF Entry
    <3> HIDE DEF e
    <3>3. /\ log' \in Seq(Entry) /\ Len(log') = Len(log) + 1
          /\ \A i \in 1..Len(log) : log'[i] = log[i]
          /\ got' \in [Node -> Nat]
          /\ \A n \in Node : pos[n] <= got'[n] /\ got'[n] <= Len(log')
          /\ VoterAnnounced'
      BY <1>0, <2>5, <3>1, <3>2, ProposeKeeps
    <3>4. /\ join' \in [Node -> Joining] /\ join'[p].pc = "try"
          /\ \A q \in Node : q # p => join'[q] = join[q]
      BY <1>0, <1>2, <2>5 DEF TypeOK, Out
    <3>5. TypeOK' BY <1>0, <2>1, <2>2, <3>3, <3>4 DEF TypeOK
    <3> QED BY <1>0, <1>3, <3>3, <3>4, <3>5
  <2> QED BY <1>7, <2>3, <2>4, <2>5 DEF AddApply
<1>8. ASSUME NEW p \in Node, AddVoter(p) PROVE PeersInv'
  <2>1. UNCHANGED <<leader, pos, peers, sync, left>> BY <1>8 DEF AddVoter
  <2>2. faults' \in Nat BY <1>0, <1>8 DEF AddVoter, Fault, TypeOK
  <2>3. join[p].at \in Node /\ Announced(p)
    <3>1. Asked(p) /\ join[p].pc = "voter" BY <1>1, <1>8 DEF AddVoter
    <3>2. log[join[p].index].type = "ADD_PEER" /\ log[join[p].index].peer = p
      BY <3>1
    <3> QED BY <3>1, <3>2 DEF Announced
  <2> DEFINE e == [type |-> "CONFIGURATION", servers |-> Members \cup {p}]
  <2>4. CASE /\ leader = join[p].at /\ Propose(e)
             /\ join' = [join EXCEPT ![p] = [Out EXCEPT !.pc = "done"]]
    <3>1. /\ e \in Entry
          /\ \A q \in e.servers \ InitialPeers(Bootstrap) : Announced(q)
      BY <1>0, <2>3, MembersAnnounced DEF Entry
    <3> HIDE DEF e
    <3>2. /\ log' \in Seq(Entry) /\ Len(log') = Len(log) + 1
          /\ \A i \in 1..Len(log) : log'[i] = log[i]
          /\ got' \in [Node -> Nat]
          /\ \A n \in Node : pos[n] <= got'[n] /\ got'[n] <= Len(log')
          /\ VoterAnnounced'
      BY <1>0, <2>3, <2>4, <3>1, ProposeKeeps
    <3>3. /\ join' \in [Node -> Joining] /\ join'[p].pc = "done"
          /\ \A q \in Node : q # p => join'[q] = join[q]
      BY <1>0, <2>4 DEF TypeOK, Out, Joining
    <3>4. TypeOK' BY <1>0, <2>1, <2>2, <3>2, <3>3 DEF TypeOK
    <3> QED BY <1>0, <1>3, <3>2, <3>3, <3>4
  <2>5. CASE join' = [join EXCEPT ![p].pc = "rollback"] /\ UNCHANGED <<log, got>>
    <3>1. /\ join' \in [Node -> Joining] /\ join'[p].pc = "rollback"
          /\ join'[p].at \in Node /\ \A q \in Node : q # p => join'[q] = join[q]
      BY ZenonT(60), <1>0, <2>3, <2>5 DEF TypeOK, Joining
    <3>2. TypeOK' BY <1>0, <2>1, <2>2, <2>5, <3>1 DEF TypeOK
    <3>3. VoterAnnounced' BY <1>0, <2>5 DEF VoterAnnounced, InitialPeers
    <3> QED BY <1>0, <1>3, <2>5, <3>1, <3>2, <3>3
  <2>6. CASE /\ leader = join[p].at /\ Propose(e)
             /\ join' = [join EXCEPT ![p].pc = "rollback"]
    <3>1. /\ e \in Entry
          /\ \A q \in e.servers \ InitialPeers(Bootstrap) : Announced(q)
      BY <1>0, <2>3, MembersAnnounced DEF Entry
    <3> HIDE DEF e
    <3>2. /\ log' \in Seq(Entry) /\ Len(log') = Len(log) + 1
          /\ \A i \in 1..Len(log) : log'[i] = log[i]
          /\ got' \in [Node -> Nat]
          /\ \A n \in Node : pos[n] <= got'[n] /\ got'[n] <= Len(log')
          /\ VoterAnnounced'
      BY <1>0, <2>3, <2>6, <3>1, ProposeKeeps
    <3>3. /\ join' \in [Node -> Joining] /\ join'[p].pc = "rollback"
          /\ join'[p].at \in Node /\ \A q \in Node : q # p => join'[q] = join[q]
      BY ZenonT(60), <1>0, <2>3, <2>6 DEF TypeOK, Joining
    <3>4. TypeOK' BY <1>0, <2>1, <2>2, <3>2, <3>3 DEF TypeOK
    <3> QED BY <1>0, <1>3, <3>2, <3>3, <3>4
  <2> QED BY <1>8, <2>4, <2>5, <2>6 DEF AddVoter
<1>9. ASSUME NEW p \in Node, AddRollback(p) PROVE PeersInv'
  <2>1. UNCHANGED <<leader, pos, peers, sync, left>> BY <1>9 DEF AddRollback
  <2>2. faults' \in Nat BY <1>0, <1>9 DEF AddRollback, Fails, Fault, TypeOK
  <2>3. /\ join' \in [Node -> Joining] /\ join'[p].pc = "try"
        /\ \A q \in Node : q # p => join'[q] = join[q]
    BY <1>0, <1>2, <1>9 DEF AddRollback, TypeOK, Out
  <2> DEFINE e == [type |-> "REMOVE_PEER", peer |-> p]
  <2>4. CASE Reaches(join[p].at) /\ Propose(e)
    <3>1. leader \in Node
      <4>1. join[p].at \in Node BY ZenonT(60), <1>1, <1>9 DEF AddRollback
      <4> QED BY <1>0, <2>4, <4>1 DEF Reaches, CanForward, TypeOK
    <3>2. e \in Entry /\ e.type # "CONFIGURATION" BY DEF Entry
    <3> HIDE DEF e
    <3>3. /\ log' \in Seq(Entry) /\ Len(log') = Len(log) + 1
          /\ \A i \in 1..Len(log) : log'[i] = log[i]
          /\ got' \in [Node -> Nat]
          /\ \A n \in Node : pos[n] <= got'[n] /\ got'[n] <= Len(log')
          /\ VoterAnnounced'
      BY <1>0, <2>4, <3>1, <3>2, ProposeKeeps
    <3>4. TypeOK' BY <1>0, <2>1, <2>2, <2>3, <3>3 DEF TypeOK
    <3> QED BY <1>0, <1>3, <2>3, <3>3, <3>4
  <2>5. CASE UNCHANGED <<log, got>>
    <3>1. TypeOK' BY <1>0, <2>1, <2>2, <2>3, <2>5 DEF TypeOK
    <3>2. VoterAnnounced' BY <1>0, <2>5 DEF VoterAnnounced, InitialPeers
    <3> QED BY <1>0, <1>3, <2>3, <2>5, <3>1, <3>2
  <2> QED BY <1>9, <2>4, <2>5 DEF AddRollback
<1>10. ASSUME NEW p \in Node, RemovePeer(p) \/ Leave(p) PROVE PeersInv'
  <2>1. /\ UNCHANGED <<pos, peers, join, sync, faults>>
        /\ leader' = IF leader = p THEN None ELSE leader
        /\ left' \in {left, [left EXCEPT ![p] = "leaving"]}
    BY <1>10 DEF RemovePeer, Leave, RemoveServer
  <2>2. leader \in Node
    BY <1>0, <1>10 DEF RemovePeer, Leave, Reaches, CanForward, TypeOK
  <2> DEFINE e == [type |-> "CONFIGURATION", servers |-> Members \ {p}]
  <2>3. /\ e \in Entry
        /\ \A q \in e.servers \ InitialPeers(Bootstrap) : Announced(q)
    BY <1>0, MembersAnnounced DEF Entry
  <2>4. Propose(e) BY <1>10 DEF RemovePeer, Leave, RemoveServer
  <2> HIDE DEF e
  <2>5. /\ log' \in Seq(Entry) /\ Len(log') = Len(log) + 1
        /\ \A i \in 1..Len(log) : log'[i] = log[i]
        /\ got' \in [Node -> Nat]
        /\ \A n \in Node : pos[n] <= got'[n] /\ got'[n] <= Len(log')
        /\ VoterAnnounced'
    BY <1>0, <2>2, <2>3, <2>4, ProposeKeeps
  <2>6. left' \in [Node -> {"no", "leaving", "yes"}]
    BY <1>0, <2>1 DEF TypeOK
  <2>7. TypeOK' BY ZenonT(60), <1>0, <2>1, <2>5, <2>6 DEF TypeOK
  <2> QED BY <1>0, <1>3, <2>1, <2>5, <2>7
<1>11. ASSUME NEW n \in Node, Replicate(n) \/ InstallSnapshot(n) \/ Elect(n)
       PROVE  PeersInv'
  <2>1. CASE Receive(n) BY <1>0, <1>4, <2>1 DEF Receive, TypeOK
  <2>2. CASE ApplyNext(n)
    <3>1. pos[n] + 1 \in 1..Len(log) BY <1>0, <2>2 DEF ApplyNext, TypeOK
    <3>2. log[pos[n] + 1] \in Entry BY <1>0, <3>1 DEF TypeOK
    <3>3. peers' \in [Node -> SUBSET Node]
      BY <1>0, <2>2, <3>2 DEF ApplyNext, TypeOK, Entry
    <3> QED BY <1>0, <1>4, <2>2, <3>3 DEF ApplyNext, TypeOK
  <2>3. CASE InstallSnapshot(n)
    <3>1. leader \in Node BY <1>0, <2>3 DEF InstallSnapshot, TypeOK
    <3> QED BY <1>0, <1>4, <2>3, <3>1 DEF InstallSnapshot, TypeOK
  <2>4. CASE Elect(n) BY <1>0, <1>4, <2>4 DEF Elect, TypeOK
  <2> QED BY <1>11, <2>1, <2>2, <2>3, <2>4 DEF Replicate
\* A node that stops gives up what it was handling.
<1>s. ASSUME NEW n \in Node, NEW k \in Joining, k.pc \in {"try", "done"}, Stop(n, k)
      PROVE  /\ join' \in [Node -> Joining] /\ sync' \in [Node -> Synchronizer]
             /\ leader' \in Node \cup {None}
             /\ \A q \in Node : join'[q] = join[q] \/ join'[q].pc \in {"try", "done"}
  <2>1. join' = [q \in Node |-> IF q = n THEN k
                                ELSE IF join[q].at = n THEN Out ELSE join[q]]
    BY <1>s DEF Stop
  <2>2. Out.pc = "try" BY DEF Out
  <2>3. sync' \in [Node -> Synchronizer] /\ leader' \in Node \cup {None}
    BY <1>0, <1>2, <1>s DEF Stop, TypeOK
  <2> QED BY <1>0, <1>2, <1>s, <2>1, <2>2, <2>3 DEF TypeOK
<1>l. ASSUME NEW p \in Node, LeaveShutdown(p) PROVE PeersInv'
  <2> DEFINE k == [Out EXCEPT !.pc = "done"]
  <2>1. k \in Joining /\ k.pc = "done" BY DEF Out, Joining
  <2>2. Stop(p, k) /\ UNCHANGED <<log, got, pos, peers, faults>>
    BY <1>l DEF LeaveShutdown
  <2> HIDE DEF k
  <2>3. left' \in [Node -> {"no", "leaving", "yes"}]
    BY <1>0, <1>l DEF LeaveShutdown, TypeOK
  <2>4. /\ join' \in [Node -> Joining] /\ sync' \in [Node -> Synchronizer]
        /\ leader' \in Node \cup {None}
        /\ \A q \in Node : join'[q] = join[q] \/ join'[q].pc \in {"try", "done"}
    BY <1>s, <2>1, <2>2
  <2>5. TypeOK' BY <1>0, <2>2, <2>3, <2>4 DEF TypeOK
  <2>6. VoterAnnounced' BY <1>0, <2>2 DEF VoterAnnounced, InitialPeers
  <2> QED BY <1>0, <1>3, <2>2, <2>4, <2>5, <2>6
<1>12. ASSUME NEW n \in Node, Restart(n) PROVE PeersInv'
  <2>1. InitialPeers(n) \in SUBSET Node BY PeersAssumption DEF InitialPeers
  <2>2. InitialJoin(n) \in Joining /\ InitialJoin(n).pc \in {"try", "done"}
    BY DEF InitialJoin, Joining, Out
  <2>3. /\ join' \in [Node -> Joining] /\ sync' \in [Node -> Synchronizer]
        /\ leader' \in Node \cup {None}
        /\ \A q \in Node : join'[q] = join[q] \/ join'[q].pc \in {"try", "done"}
    <3>1. Stop(n, InitialJoin(n)) BY <1>12 DEF Restart
    <3> QED BY <1>s, <2>2, <3>1
  <2>4. UNCHANGED <<log, got>> BY <1>12 DEF Restart
  <2>5. TypeOK'
    <3>1. pos' \in [Node -> Nat] /\ \A q \in Node : pos'[q] <= pos[q]
      BY <1>0, <1>12 DEF Restart, TypeOK
    <3>2. \A q \in Node : pos'[q] <= got'[q] BY <1>0, <2>4, <3>1 DEF TypeOK
    <3>3. peers' \in [Node -> SUBSET Node] /\ faults' \in Nat
      BY <1>0, <1>12, <2>1 DEF Restart, Fault, TypeOK
    <3>4. left' \in [Node -> {"no", "leaving", "yes"}]
      BY <1>0, <1>12 DEF Restart, TypeOK
    <3> QED BY <1>0, <2>3, <2>4, <3>1, <3>2, <3>3, <3>4 DEF TypeOK
  <2>6. VoterAnnounced' BY <1>0, <2>4 DEF VoterAnnounced, InitialPeers
  <2> QED BY <1>0, <1>3, <2>3, <2>4, <2>5, <2>6
<1>13. ASSUME NEW n \in Node, SyncStart(n) \/ Sync(n) PROVE PeersInv'
  <2>1. CASE SyncStart(n)
    <3>1. GetPeers(n) \in SUBSET Node
      <4>1. got[n] \in 0..Len(log) BY <1>0 DEF TypeOK
      <4> QED BY <1>0, <4>1, ServersNodes DEF GetPeers
    <3> QED BY ZenonT(60), <1>0, <1>4, <2>1, <3>1 DEF SyncStart, TypeOK, NoSync, Synchronizer
  <2>2. CASE SyncCopy(n)
    BY <1>0, <1>4, <2>2 DEF SyncCopy, TypeOK, Synchronizer
  <2>3. ASSUME NEW p \in Node, SyncQuery(n, p) PROVE PeersInv'
    <3>1. peers' \in [Node -> SUBSET Node] /\ faults' \in Nat
      <4>1. UNCHANGED peers \/ peers' = [peers EXCEPT ![n] = @ \cup {p}]
        BY <2>3 DEF SyncQuery
      <4>2. UNCHANGED faults \/ faults' = faults + 1
        BY <2>3 DEF SyncQuery, Fault
      <4>3. peers' \in [Node -> SUBSET Node]
        <5>1. peers \in [Node -> SUBSET Node] BY <1>0 DEF TypeOK
        <5>2. peers[n] \cup {p} \in SUBSET Node BY <5>1
        <5> QED BY <4>1, <5>1, <5>2
      <4>4. faults' \in Nat BY <1>0, <4>2 DEF TypeOK
      <4> QED BY <4>3, <4>4
    <3>2. sync' \in [Node -> Synchronizer]
      <4>1. sync[n] \in Synchronizer BY <1>0 DEF TypeOK
      <4>2. [sync[n] EXCEPT !.missing = @ \ {p}] \in Synchronizer
        BY <4>1 DEF Synchronizer
      <4> QED BY <1>0, <2>3, <4>2 DEF SyncQuery, TypeOK
    <3> QED BY <1>0, <1>4, <2>3, <3>1, <3>2 DEF SyncQuery, TypeOK
  <2>4. CASE SyncDelete(n)
    BY <1>0, <1>2, <1>4, <2>4 DEF SyncDelete, TypeOK
  <2> QED BY <1>13, <2>1, <2>2, <2>3, <2>4 DEF Sync
<1>14. CASE UNCHANGED vars BY <1>0, <1>4, <1>14 DEF vars, TypeOK
<1> QED
  BY <1>5, <1>6, <1>7, <1>8, <1>9, <1>10, <1>l, <1>11, <1>12, <1>13, <1>14
  DEF Next, AddPeer

\* The invariant of AddPeerInternal holds between any two of its steps: a node
\* holds the request, and a request about to call AddVoter has its command in
\* the log.
THEOREM RequestsLogged == Spec => []PeersInv
BY InitPeers, StepPeers, PTL DEF Spec

\* AddPeerInternal announces a node before it makes it a voter, whatever
\* fails, restarts or changes the leader in between.
THEOREM Announcement == Spec => []VoterAnnounced
<1>1. PeersInv => VoterAnnounced BY DEF PeersInv
<1> QED BY InitPeers, StepPeers, <1>1, PTL DEF Spec

=============================================================================
