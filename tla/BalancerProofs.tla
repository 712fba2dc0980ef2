--------------------------- MODULE BalancerProofs ---------------------------
(***************************************************************************)
(* What the load balancer promises for every set of nodes, proxies and     *)
(* sources, every weight and every log: replicas that applied as many      *)
(* commands agree, a source keeps its proxy, round robin takes the proxies *)
(* in turn, and the smooth weighted choice gives each proxy its share.     *)
(*                                                                         *)
(* The last three compare what a node chooses with the commands committed  *)
(* before.  BaseInv says what a call in progress knows of the state that   *)
(* its command will change: a fresh command is the one the strategy        *)
(* computes from the state after all committed commands.  StickyInv,       *)
(* TurnInv and ShareInv say how that state reflects the choices so far.    *)
(* The current weight of a proxy, for one, is what its weight added up to  *)
(* less what its choices cost, and never falls to minus the total.         *)
(***************************************************************************)
EXTENDS Balancer, FiniteSetTheorems, TLAPS

\* A leaf is left to Zenon unless it names SMT, which arithmetic needs; the
\* numbers are time limits in seconds.
USE ZenonT(60)

\* A snapshot carries all of what FSM.Apply makes of a state, if it carries
\* all of the state.
LEMMA PersistedApply ==
  ASSUME NEW f, NEW entry, Persisted(f) = f
  PROVE  Persisted(FSMApply(f, entry)) = FSMApply(f, entry)
  BY DEF Persisted, FSMApply

\* What appending to a sequence of any elements does.
LEMMA AppendAny ==
  ASSUME NEW s, s \in Seq(Range(s)), NEW e
  PROVE  /\ Append(s, e) \in Seq(Range(Append(s, e)))
         /\ Len(Append(s, e)) = Len(s) + 1
         /\ \A i \in 1..Len(s) : Append(s, e)[i] = s[i]
         /\ Append(s, e)[Len(s) + 1] = e
<1>1. Range(s) \subseteq Range(s) \cup {e} /\ e \in Range(s) \cup {e} OBVIOUS
<1>2. s \in Seq(Range(s) \cup {e}) BY SMTT(30), <1>1
<1>3. /\ Append(s, e) \in Seq(Range(s) \cup {e})
      /\ Len(Append(s, e)) = Len(s) + 1
      /\ \A i \in 1..Len(s) : Append(s, e)[i] = s[i]
      /\ Append(s, e)[Len(s) + 1] = e
  BY SMTT(30), <1>2
<1>4. \A i \in 1..Len(Append(s, e)) : Append(s, e)[i] \in Range(Append(s, e))
  BY SMTT(30), <1>3 DEF Range
<1>5. Append(s, e) \in Seq(Range(Append(s, e))) BY SMTT(30), <1>3, <1>4
<1> QED BY <1>3, <1>5

\* Init establishes the inductive invariant.
LEMMA InitReplica == Init => ReplicaInv
<1> SUFFICES ASSUME Init PROVE ReplicaInv OBVIOUS
<1>1. Persisted(NewFSM) = NewFSM BY DEF Persisted, NewFSM
<1>2. log \in Seq(Range(log)) /\ Len(log) = 0 BY SMTT(30) DEF Init, Range
<1>3. /\ states \in Seq(Range(states)) /\ Len(states) = 1
      /\ states[1] = NewFSM
  BY SMTT(30) DEF Init, Range
<1> QED BY SMTT(30), <1>1, <1>2, <1>3 DEF Init, ReplicaInv

\* Every step preserves the inductive invariant.
LEMMA StepReplica == ASSUME ReplicaInv, [Next]_vars PROVE ReplicaInv'
<1>0. Len(log) \in Nat BY SMTT(30) DEF ReplicaInv
<1>1. ASSUME UNCHANGED <<log, states, fsm, applied, snap>>,
             leader' \in Node \cup {None}
      PROVE  ReplicaInv'
  BY <1>1 DEF ReplicaInv
<1>2. ASSUME NEW n \in Node, Commit(n) PROVE ReplicaInv'
  <2>1. PICK e : /\ log' = Append(log, e)
                 /\ states' = Append(states, FSMApply(states[Len(states)], e))
    BY <1>2 DEF Commit, AppendToLog
  <2> DEFINE f == FSMApply(states[Len(states)], e)
  <2>2. /\ log' \in Seq(Range(log')) /\ Len(log') = Len(log) + 1
        /\ \A i \in 1..Len(log) : log'[i] = log[i]
        /\ log'[Len(log) + 1] = e
    BY SMTT(30), <2>1, AppendAny DEF ReplicaInv
  <2>3. /\ states' \in Seq(Range(states')) /\ Len(states') = Len(states) + 1
        /\ \A i \in 1..Len(states) : states'[i] = states[i]
        /\ states'[Len(states) + 1] = f
    <3> HIDE DEF f
    <3>1. states' = Append(states, f) BY <2>1 DEF f
    <3> QED BY SMTT(30), <3>1, AppendAny DEF ReplicaInv
  <2>4. Persisted(f) = f
    <3>1. Len(states) \in 1..Len(states) BY SMTT(30), <1>0 DEF ReplicaInv
    <3> QED BY <3>1, PersistedApply DEF ReplicaInv
  <2>5. UNCHANGED <<leader, fsm, applied, snap>> BY <1>2 DEF Commit
  <2>6. \A i \in 1..Len(log') : states'[i + 1] = FSMApply(states'[i], log'[i])
    <3> SUFFICES ASSUME NEW i \in 1..Len(log')
                 PROVE  states'[i + 1] = FSMApply(states'[i], log'[i])
      OBVIOUS
    <3>1. CASE i \in 1..Len(log)
      <4>1. states'[i + 1] = states[i + 1] /\ states'[i] = states[i]
            /\ log'[i] = log[i]
        BY SMTT(30), <1>0, <2>2, <2>3, <3>1 DEF ReplicaInv
      <4> QED BY <3>1, <4>1 DEF ReplicaInv
    <3>2. CASE i = Len(log) + 1
      <4>1. i = Len(states) /\ states'[i] = states[Len(states)] /\ log'[i] = e
        BY <1>0, <2>2, <2>3, <3>2 DEF ReplicaInv
      <4> QED BY <2>3, <4>1
    <3> QED BY SMTT(30), <1>0, <2>2, <3>1, <3>2
  <2>7. \A i \in 1..Len(states') : Persisted(states'[i]) = states'[i]
    <3> HIDE DEF f
    <3> QED BY SMTT(30), <1>0, <2>3, <2>4 DEF ReplicaInv
  <2>8. \A k \in 0..Len(log) : states'[k + 1] = states[k + 1]
    BY SMTT(30), <1>0, <2>3 DEF ReplicaInv
  <2>9. applied' \in [Node -> 0..Len(log')]
    BY SMTT(30), <1>0, <2>2, <2>5 DEF ReplicaInv
  <2>10. fsm' = [m \in Node |-> states'[applied'[m] + 1]]
    BY <2>5, <2>8 DEF ReplicaInv
  <2>11. \A m \in Node :
           /\ snap'[m].index \in 0..Len(log')
           /\ snap'[m] = [index |-> snap'[m].index,
                          fsm |-> states'[snap'[m].index + 1]]
    BY SMTT(30), <1>0, <2>2, <2>5, <2>8 DEF ReplicaInv
  <2> HIDE DEF f
  <2> QED
    BY <1>0, <2>2, <2>3, <2>5, <2>6, <2>7, <2>9, <2>10, <2>11 DEF ReplicaInv
<1>3. ASSUME NEW n \in Node, ApplyNext(n) PROVE ReplicaInv'
  <2>1. UNCHANGED <<leader, log, states, snap>>
        /\ fsm' = [fsm EXCEPT ![n] = FSMApply(@, log[applied[n] + 1])]
        /\ applied' = [applied EXCEPT ![n] = @ + 1]
        /\ applied[n] < Len(log)
    BY <1>3 DEF ApplyNext
  <2>2. applied[n] + 1 \in 1..Len(log) BY SMTT(30), <1>0, <2>1 DEF ReplicaInv
  <2>3. FSMApply(fsm[n], log[applied[n] + 1]) = states[applied[n] + 2]
    BY SMTT(30), <2>2 DEF ReplicaInv
  <2>4. applied' \in [Node -> 0..Len(log)] BY SMTT(30), <1>0, <2>1, <2>2 DEF ReplicaInv
  <2>5. fsm' = [m \in Node |-> states[applied'[m] + 1]]
    <3>1. applied[n] + 2 = applied'[n] + 1 BY SMTT(30), <2>1, <2>2 DEF ReplicaInv
    <3>2. \A m \in Node : m # n => applied'[m] = applied[m]
      BY <2>1 DEF ReplicaInv
    <3>3. fsm' = [fsm EXCEPT ![n] = states[applied'[n] + 1]]
      BY <2>1, <2>3, <3>1
    <3> QED BY <3>2, <3>3 DEF ReplicaInv
  <2> QED BY <2>1, <2>4, <2>5 DEF ReplicaInv
<1>4. ASSUME NEW n \in Node, Snapshot(n) PROVE ReplicaInv'
  <2>1. UNCHANGED <<leader, log, states, fsm, applied>>
        /\ snap' = [snap EXCEPT ![n] = [index |-> applied[n],
                                        fsm |-> Persisted(fsm[n])]]
    BY <1>4 DEF Snapshot
  <2>2. Persisted(fsm[n]) = states[applied[n] + 1]
    BY SMTT(30), <1>0 DEF ReplicaInv
  <2>3. \A m \in Node :
          /\ snap'[m].index \in 0..Len(log)
          /\ snap'[m] = [index |-> snap'[m].index,
                         fsm |-> states[snap'[m].index + 1]]
    BY <2>1, <2>2 DEF ReplicaInv
  <2> QED BY <2>1, <2>3 DEF ReplicaInv
\* A node takes over the state of a snapshot: another node's, or its own.
<1>5. ASSUME NEW n \in Node, NEW m \in Node, UNCHANGED <<log, states>>,
             leader' \in Node \cup {None},
             fsm' = [fsm EXCEPT ![n] = snap[m].fsm],
             applied' = [applied EXCEPT ![n] = snap[m].index],
             snap' = snap \/ snap' = [snap EXCEPT ![n] = snap[m]]
      PROVE  ReplicaInv'
  <2>1. snap[m].fsm = states[snap[m].index + 1] /\ snap[m].index \in 0..Len(log)
    <3>1. snap[m] = [index |-> snap[m].index, fsm |-> states[snap[m].index + 1]]
      BY DEF ReplicaInv
    <3>2. snap[m].fsm = [index |-> snap[m].index,
                         fsm |-> states[snap[m].index + 1]].fsm
      BY <3>1
    <3> QED BY <3>2 DEF ReplicaInv
  <2>2. applied' \in [Node -> 0..Len(log)] BY <1>5, <2>1 DEF ReplicaInv
  <2>3. fsm' = [k \in Node |-> states[applied'[k] + 1]]
    BY <1>5, <2>1 DEF ReplicaInv
  <2>4. DOMAIN snap' = Node /\ \A k \in Node : snap'[k] \in {snap[k], snap[m]}
    BY <1>5 DEF ReplicaInv
  <2>5. \A k \in Node :
          /\ snap'[k].index \in 0..Len(log)
          /\ snap'[k] = [index |-> snap'[k].index,
                         fsm |-> states[snap'[k].index + 1]]
    BY <2>4 DEF ReplicaInv
  <2> QED BY <1>5, <2>2, <2>3, <2>4, <2>5 DEF ReplicaInv
<1>6. ASSUME NEW n \in Node, InstallSnapshot(n) PROVE ReplicaInv'
  BY <1>5, <1>6 DEF InstallSnapshot, ReplicaInv
<1>7. ASSUME NEW n \in Node, Crash(n) PROVE ReplicaInv'
  <2>1. leader' \in Node \cup {None} BY <1>7 DEF Crash, ReplicaInv
  <2> QED BY <1>5, <1>7, <2>1 DEF Crash
<1>8. ASSUME NEW n \in Node, NextProxy(n) PROVE ReplicaInv'
  <2>1. CASE Commit(n) BY <1>2, <2>1
  <2>2. CASE ~Commit(n)
    BY <1>1, <1>8, <2>2 DEF ReplicaInv, NextProxy, HashHit, Begin, ChooseRandom,
       ChooseRoundRobin, ReadWeight, Applied, Fail, raftVars
  <2> QED BY <2>1, <2>2
<1>9. ASSUME NEW n \in Node, Elect(n) PROVE ReplicaInv'
  BY <1>1, <1>9 DEF Elect
<1>10. CASE UNCHANGED vars BY <1>1, <1>10 DEF vars, ReplicaInv
<1> QED
  BY <1>3, <1>4, <1>6, <1>7, <1>8, <1>9, <1>10 DEF Next

\* Two nodes that have applied the same number of commands keep the same
\* balancing state, after any crashes, snapshots and elections.
THEOREM Agreement == Spec => []ReplicasAgree
<1>1. ReplicaInv => ReplicasAgree BY SMTT(30) DEF ReplicaInv, ReplicasAgree
<1> QED BY InitReplica, StepReplica, <1>1, PTL DEF Spec

-----------------------------------------------------------------------------
(* Arithmetic: the least element of a set, the greatest value of a list,   *)
(* and sums over the distribution.                                         *)

\* A set of natural numbers has a least element.  What is true of every
\* natural number by induction is proved from this one: the set of the
\* numbers it is false of has no least element, so it is empty.
LEMMA Least ==
  ASSUME NEW T \in SUBSET Nat, T # {}
  PROVE  \E m \in T : \A k \in T : m <= k
<1> DEFINE R == {ss \in Nat \X Nat : ss[1] < ss[2]}
<1>1. IsWellFoundedOn(R, Nat) BY NatLessThanWellFounded DEF OpToRel
<1>2. PICK x \in T : \A y \in T : ~ (<<y, x>> \in R)
  <2> HIDE DEF R
  <2> QED BY <1>1, WFMin, T \subseteq Nat
<1>3. \A y \in T : x <= y
  <2> TAKE y \in T
  <2>1. x \in Nat /\ y \in Nat OBVIOUS
  <2>2. ~ (<<y, x>> \in R) BY <1>2
  <2> QED BY SMTT(30), <2>1, <2>2
<1> QED BY <1>3

\* Induction up to n, over a set.
LEMMA UpTo ==
  ASSUME NEW n \in Nat, NEW S, 0 \in S, \A k \in 1..n : k - 1 \in S => k \in S
  PROVE  \A k \in 0..n : k \in S
<1> DEFINE T == {k \in 0..n : k \notin S}
<1>1. ASSUME T # {} PROVE FALSE
  <2>1. PICK m \in T : \A k \in T : m <= k
    <3>1. T \in SUBSET Nat BY SMTT(30)
    <3> HIDE DEF T
    <3> QED BY <3>1, <1>1, Least
  <2>2. m \in 1..n /\ m - 1 \in 0..n /\ ~(m <= m - 1) BY SMTT(30), <2>1
  <2> QED BY <2>1, <2>2
<1> QED BY <1>1

\* One of finitely many integers is the greatest.
LEMMA Greatest ==
  ASSUME NEW n \in Nat \ {0}, NEW f, \A i \in 1..n : f[i] \in Int
  PROVE  \E i \in 1..n : \A j \in 1..n : f[j] <= f[i]
<1> DEFINE P(m) == \E i \in 1..m : \A j \in 1..m : f[j] <= f[i]
           S == {m \in 0..n : m = 0 \/ P(m)}
<1>1. 0 \in S BY SMTT(30)
<1>2. ASSUME NEW m \in 1..n, m - 1 \in S PROVE m \in S
  <2>1. CASE m = 1
    <3>1. P(1) BY SMTT(30)
    <3> QED BY SMTT(30), <2>1, <3>1
  <2>2. CASE m # 1
    <3>1. PICK i \in 1..(m - 1) : \A j \in 1..(m - 1) : f[j] <= f[i]
      BY SMTT(30), <1>2, <2>2
    <3>2. i \in 1..m /\ f[i] \in Int /\ f[m] \in Int /\ m \in 1..m BY SMTT(30)
    <3>3. CASE f[m] <= f[i]
      <4>1. \A j \in 1..m : f[j] <= f[i] BY SMTT(30), <3>1, <3>3
      <4> QED BY SMTT(30), <3>2, <4>1
    <3>4. CASE f[i] <= f[m]
      <4>1. \A j \in 1..m : f[j] <= f[m]
        <5> TAKE j \in 1..m
        <5>1. f[j] \in Int BY SMTT(30)
        <5>2. CASE j = m BY SMTT(30), <5>1, <5>2
        <5>3. CASE j # m BY SMTT(30), <3>1, <3>2, <3>4, <5>1, <5>3
        <5> QED BY <5>2, <5>3
      <4> QED BY SMTT(30), <3>2, <4>1
    <3> QED BY SMTT(30), <3>2, <3>3, <3>4
  <2> QED BY <2>1, <2>2
<1>3. n \in S
  <2> HIDE DEF S
  <2> QED BY SMTT(30), <1>1, <1>2, UpTo, n \in 0..n
<1> QED BY <1>3

\* The distribution is a sequence of all proxies.
LEMMA Distribution ==
  /\ Len(Proxies) \in Nat \ {0}
  /\ DOMAIN Proxies = 1..Len(Proxies)
  /\ \A i \in 1..Len(Proxies) : Proxies[i] \in Proxy
  /\ \A p \in Proxy : \E i \in 1..Len(Proxies) : Proxies[i] = p
<1>1. Proxies \in Seq(Proxy) /\ Proxies # << >> BY BalancerAssumption
<1>2. Len(Proxies) \in Nat \ {0} /\ DOMAIN Proxies = 1..Len(Proxies)
  BY SMTT(30), <1>1
<1> QED BY <1>2 DEF Proxy, Range

\* NextProxy of the weighted strategy selects a proxy of the group, and none
\* has a greater raised weight.
LEMMA SelectedIs ==
  ASSUME NEW w \in [Proxy -> Int]
  PROVE  /\ Raised(w) \in [Proxy -> Int]
         /\ \A p \in Proxy : Raised(w)[p] = w[p] + Weight[p]
         /\ Selected(w) \in Proxy
         /\ \A q \in Proxy : Raised(w)[q] <= Raised(w)[Selected(w)]
<1>1. Raised(w) \in [Proxy -> Int] /\ \A p \in Proxy : Raised(w)[p] = w[p] + Weight[p]
  BY SMTT(30), BalancerAssumption DEF Raised
<1>2. PICK v : v = Raised(w) OBVIOUS
<1> DEFINE best == {i \in DOMAIN Proxies : \A q \in Proxy : v[q] <= v[Proxies[i]]}
           f == [i \in 1..Len(Proxies) |-> v[Proxies[i]]]
<1>3. \A i \in 1..Len(Proxies) : f[i] \in Int BY <1>1, <1>2, Distribution
<1>4. PICK i \in 1..Len(Proxies) : \A j \in 1..Len(Proxies) : f[j] <= f[i]
  <2> HIDE DEF f
  <2> QED BY <1>3, Greatest, Distribution
<1>5. i \in best
  <2> SUFFICES ASSUME NEW q \in Proxy PROVE v[q] <= v[Proxies[i]]
    BY Distribution
  <2>1. PICK j \in 1..Len(Proxies) : Proxies[j] = q BY Distribution
  <2> QED BY <2>1, <1>4
<1>6. best \in SUBSET Nat /\ best # {} BY SMTT(30), <1>5, Distribution
<1>7. PICK m \in best : \A j \in best : m <= j
  <2> HIDE DEF best
  <2> QED BY <1>6, Least
<1>8. PICK k : k = CHOOSE c \in best : \A j \in best : c <= j OBVIOUS
<1>9. k \in best BY <1>7, <1>8
<1>10. Selected(w) = Proxies[k] BY <1>2, <1>8 DEF Selected
<1> QED BY <1>1, <1>2, <1>9, <1>10, Distribution

\* g holds the sums of w over the first 0, 1, ..., n proxies.
IsSum(g, w, n) ==
  /\ g \in [0..n -> Int]
  /\ g[0] = 0
  /\ \A k \in 1..n : g[k] = g[k - 1] + w[Proxies[k]]

\* The sums exist.
LEMMA SumExists ==
  ASSUME NEW w \in [Proxy -> Int]
  PROVE  \E g : IsSum(g, w, Len(Proxies))
<1> DEFINE S == {n \in 0..Len(Proxies) : \E g : IsSum(g, w, n)}
<1>1. 0 \in S
  <2>1. IsSum([k \in 0..0 |-> 0], w, 0) BY SMTT(30) DEF IsSum
  <2> QED BY SMTT(30), <2>1, Distribution
<1>2. ASSUME NEW n \in 1..Len(Proxies), n - 1 \in S PROVE n \in S
  <2>1. PICK g : IsSum(g, w, n - 1) BY <1>2
  <2> DEFINE h == [k \in 0..n |-> IF k = n THEN g[n - 1] + w[Proxies[n]] ELSE g[k]]
  <2>2. w[Proxies[n]] \in Int BY Distribution
  <2>3. n \in Nat /\ n > 0 BY SMTT(30), Distribution
  <2>4. g \in [0..(n - 1) -> Int] BY <2>1 DEF IsSum
  <2>5. \A k \in 0..(n - 1) : h[k] = g[k] BY SMTT(30), <2>3
  <2>6. h[n] = h[n - 1] + w[Proxies[n]] BY SMTT(30), <2>3, <2>5
  <2>7. h \in [0..n -> Int] BY SMTT(30), <2>2, <2>3, <2>4
  <2>8. h[0] = 0 BY SMTT(30), <2>1, <2>3, <2>5 DEF IsSum
  <2>9. \A k \in 1..n : h[k] = h[k - 1] + w[Proxies[k]]
    <3> SUFFICES ASSUME NEW k \in 1..n PROVE h[k] = h[k - 1] + w[Proxies[k]]
      OBVIOUS
    <3>1. CASE k = n BY <2>6, <3>1
    <3>2. CASE k # n
      <4> HIDE DEF h
      <4>1. k \in 0..(n - 1) /\ k - 1 \in 0..(n - 1) /\ k \in 1..(n - 1)
        BY SMTT(30), <2>3, <3>2
      <4> QED BY <2>1, <2>5, <4>1 DEF IsSum
    <3> QED BY <3>1, <3>2
  <2> HIDE DEF h
  <2>10. IsSum(h, w, n) BY <2>7, <2>8, <2>9 DEF IsSum
  <2> QED BY SMTT(30), <2>10
<1> HIDE DEF S
<1>3. Len(Proxies) \in Nat /\ Len(Proxies) \in 0..Len(Proxies) BY SMTT(30), Distribution
<1>4. Len(Proxies) \in S BY <1>1, <1>2, <1>3, UpTo
<1> QED BY <1>4 DEF S

\* SumOver is the last of the sums.
LEMMA SumIs ==
  ASSUME NEW w \in [Proxy -> Int]
  PROVE  \E g : IsSum(g, w, Len(Proxies)) /\ SumOver(w) = g[Len(Proxies)]
<1>1. PICK N : N = Len(Proxies) OBVIOUS
<1>2. N \in Nat BY <1>1, Distribution
<1>3. PICK g : IsSum(g, w, N) BY <1>1, SumExists
<1> DEFINE R(h) == h = [k \in 0..N |-> IF k = 0 THEN 0 ELSE h[k - 1] + w[Proxies[k]]]
<1>4. R(g)
  <2>1. g = [k \in 0..N |-> g[k]] BY <1>3 DEF IsSum
  <2>2. \A k \in 0..N : g[k] = IF k = 0 THEN 0 ELSE g[k - 1] + w[Proxies[k]]
    BY SMTT(30), <1>2, <1>3 DEF IsSum
  <2> QED BY <2>1, <2>2
<1>5. PICK h : h = CHOOSE x : R(x) OBVIOUS
<1>6. R(h) BY <1>4, <1>5
<1>7. SumOver(w) = h[N] BY <1>1, <1>5 DEF SumOver
<1>8. h[N] = g[N]
  <2> DEFINE S == {k \in 0..N : h[k] = g[k]}
  <2>1. 0 \in S BY SMTT(30), <1>2, <1>3, <1>6 DEF IsSum
  <2>2. ASSUME NEW k \in 1..N, k - 1 \in S PROVE k \in S
    <3>1. h[k] = h[k - 1] + w[Proxies[k]] BY SMTT(30), <1>2, <1>6
    <3>2. g[k] = g[k - 1] + w[Proxies[k]] BY <1>3 DEF IsSum
    <3> QED BY SMTT(30), <1>2, <2>2, <3>1, <3>2
  <2> HIDE DEF S
  <2>3. N \in S BY SMTT(30), <1>2, <2>1, <2>2, UpTo, N \in 0..N
  <2> QED BY <2>3 DEF S
<1> QED BY <1>1, <1>3, <1>7, <1>8

\* A sum of integers is an integer.
LEMMA SumTyped == ASSUME NEW w \in [Proxy -> Int] PROVE SumOver(w) \in Int
<1>1. PICK g : IsSum(g, w, Len(Proxies)) /\ SumOver(w) = g[Len(Proxies)] BY SumIs
<1> QED BY SMTT(30), <1>1, Distribution DEF IsSum

\* The sum of a sum of weights.
LEMMA SumPlus ==
  ASSUME NEW u \in [Proxy -> Int], NEW v \in [Proxy -> Int],
         NEW w \in [Proxy -> Int], \A p \in Proxy : w[p] = u[p] + v[p]
  PROVE  SumOver(w) = SumOver(u) + SumOver(v)
<1>1. PICK N : N = Len(Proxies) OBVIOUS
<1>2. N \in Nat BY <1>1, Distribution
<1>3. PICK a : IsSum(a, u, N) /\ SumOver(u) = a[N] BY <1>1, SumIs
<1>4. PICK b : IsSum(b, v, N) /\ SumOver(v) = b[N] BY <1>1, SumIs
<1>5. PICK c : IsSum(c, w, N) /\ SumOver(w) = c[N] BY <1>1, SumIs
<1> DEFINE S == {k \in 0..N : c[k] = a[k] + b[k]}
<1>6. 0 \in S BY SMTT(30), <1>2, <1>3, <1>4, <1>5 DEF IsSum
<1>7. ASSUME NEW k \in 1..N, k - 1 \in S PROVE k \in S
  <2>1. PICK p : p = Proxies[k] OBVIOUS
  <2>2. p \in Proxy BY <1>1, <2>1, Distribution
  <2>3. u[p] \in Int /\ v[p] \in Int /\ w[p] = u[p] + v[p] BY <2>2
  <2>4. k - 1 \in 0..N /\ k \in 0..N BY SMTT(30), <1>2
  <2>5. a[k - 1] \in Int /\ b[k - 1] \in Int BY <2>4, <1>3, <1>4 DEF IsSum
  <2>6. /\ a[k] = a[k - 1] + u[p] /\ b[k] = b[k - 1] + v[p]
        /\ c[k] = c[k - 1] + w[p]
    BY <1>3, <1>4, <1>5, <2>1 DEF IsSum
  <2>7. c[k - 1] = a[k - 1] + b[k - 1] BY <1>7
  <2>8. c[k] = a[k] + b[k] BY SMTT(30), <2>3, <2>5, <2>6, <2>7
  <2> QED BY <2>4, <2>8
<1> HIDE DEF S
<1>8. N \in S BY SMTT(30), <1>2, <1>6, <1>7, UpTo, N \in 0..N
<1> QED BY <1>3, <1>4, <1>5, <1>8 DEF S

\* Charging one proxy of a distribution that lists each once takes the
\* charge from the sum.
LEMMA SumCharged ==
  ASSUME IsInjective(Proxies), NEW u \in [Proxy -> Int], NEW q \in Proxy,
         NEW t \in Int, NEW w \in [Proxy -> Int], w[q] = u[q] - t,
         \A p \in Proxy \ {q} : w[p] = u[p]
  PROVE  SumOver(w) = SumOver(u) - t
<1>1. PICK N : N = Len(Proxies) OBVIOUS
<1>2. N \in Nat BY <1>1, Distribution
<1>3. PICK a : IsSum(a, u, N) /\ SumOver(u) = a[N] BY <1>1, SumIs
<1>4. PICK c : IsSum(c, w, N) /\ SumOver(w) = c[N] BY <1>1, SumIs
<1>5. PICK j \in 1..N : Proxies[j] = q BY <1>1, Distribution
<1> DEFINE S == {k \in 0..N : c[k] = IF k < j THEN a[k] ELSE a[k] - t}
<1>6. 0 \in S BY SMTT(30), <1>2, <1>3, <1>4 DEF IsSum
<1>7. ASSUME NEW k \in 1..N, k - 1 \in S PROVE k \in S
  <2>1. PICK p : p = Proxies[k] OBVIOUS
  <2>2. p \in Proxy BY <1>1, <2>1, Distribution
  <2>3. p = q <=> k = j
    BY <1>1, <1>5, <2>1, Distribution DEF IsInjective
  <2>4. u[p] \in Int /\ w[p] = IF k = j THEN u[p] - t ELSE u[p]
    BY <2>2, <2>3
  <2>5. k - 1 \in 0..N /\ k \in 0..N BY SMTT(30), <1>2
  <2>6. a[k - 1] \in Int BY <2>5, <1>3 DEF IsSum
  <2>7. a[k] = a[k - 1] + u[p] /\ c[k] = c[k - 1] + w[p]
    BY <1>3, <1>4, <2>1 DEF IsSum
  <2>8. c[k - 1] = IF k - 1 < j THEN a[k - 1] ELSE a[k - 1] - t BY <1>7
  <2>9. c[k] = IF k < j THEN a[k] ELSE a[k] - t BY SMTT(30), <2>4, <2>6, <2>7, <2>8
  <2> QED BY <2>5, <2>9
<1>8. N \in S
  <2> HIDE DEF S
  <2> QED BY SMTT(30), <1>2, <1>6, <1>7, UpTo, N \in 0..N
<1> QED BY SMTT(30), <1>2, <1>3, <1>4, <1>8

\* A sum grows with each of its terms.
LEMMA SumMonotone ==
  ASSUME NEW u \in [Proxy -> Int], NEW w \in [Proxy -> Int],
         \A p \in Proxy : u[p] <= w[p]
  PROVE  /\ SumOver(u) <= SumOver(w)
         /\ (\E p \in Proxy : u[p] < w[p]) => SumOver(u) < SumOver(w)
<1>1. PICK N : N = Len(Proxies) OBVIOUS
<1>2. N \in Nat BY <1>1, Distribution
<1>3. PICK a : IsSum(a, u, N) /\ SumOver(u) = a[N] BY <1>1, SumIs
<1>4. PICK c : IsSum(c, w, N) /\ SumOver(w) = c[N] BY <1>1, SumIs
<1> DEFINE S == {k \in 0..N : /\ a[k] <= c[k]
                              /\ \A j \in 1..k : u[Proxies[j]] < w[Proxies[j]]
                                   => a[k] < c[k]}
<1>5. 0 \in S BY SMTT(30), <1>2, <1>3, <1>4 DEF IsSum
<1>6. ASSUME NEW k \in 1..N, k - 1 \in S PROVE k \in S
  <2>1. PICK p : p = Proxies[k] OBVIOUS
  <2>2. p \in Proxy BY <1>1, <2>1, Distribution
  <2>3. u[p] \in Int /\ w[p] \in Int /\ u[p] <= w[p] BY <2>2
  <2>4. k - 1 \in 0..N /\ k \in 0..N BY SMTT(30), <1>2
  <2>5. a[k - 1] \in Int /\ c[k - 1] \in Int BY <2>4, <1>3, <1>4 DEF IsSum
  <2>6. a[k] = a[k - 1] + u[p] /\ c[k] = c[k - 1] + w[p]
    BY <1>3, <1>4, <2>1 DEF IsSum
  <2>7. a[k - 1] <= c[k - 1] BY <1>6
  <2>8. a[k] <= c[k] BY SMTT(30), <2>3, <2>5, <2>6, <2>7
  <2>9. ASSUME NEW j \in 1..k, u[Proxies[j]] < w[Proxies[j]] PROVE a[k] < c[k]
    <3>1. CASE j = k BY SMTT(30), <2>1, <2>3, <2>5, <2>6, <2>7, <2>9, <3>1
    <3>2. CASE j # k
      <4>1. a[k - 1] < c[k - 1] BY SMTT(30), <1>2, <1>6, <2>9, <3>2
      <4> QED BY SMTT(30), <2>3, <2>5, <2>6, <4>1
    <3> QED BY <3>1, <3>2
  <2> QED BY <2>4, <2>8, <2>9
<1>7. N \in S
  <2> HIDE DEF S
  <2> QED BY SMTT(30), <1>2, <1>5, <1>6, UpTo, N \in 0..N
<1>8. ASSUME NEW p \in Proxy, u[p] < w[p] PROVE a[N] < c[N]
  <2>1. PICK j \in 1..N : Proxies[j] = p BY <1>1, Distribution
  <2> QED BY <1>7, <1>8, <2>1
<1> QED BY <1>3, <1>4, <1>7, <1>8

\* The sum of nothing is 0, and the weights of the configuration add up to
\* more.
LEMMA SumWeights ==
  /\ SumOver([p \in Proxy |-> 0]) = 0
  /\ TotalWeight \in Int /\ TotalWeight > 0
<1> DEFINE z == [p \in Proxy |-> 0]
<1>1. z \in [Proxy -> Int] /\ \A p \in Proxy : z[p] = z[p] + z[p] BY SMTT(30)
<1>2. \A p \in Proxy : z[p] < Weight[p] /\ z[p] <= Weight[p]
  BY SMTT(30), BalancerAssumption
<1>3. Weight \in [Proxy -> Int] BY SMTT(30), BalancerAssumption
<1>4. \E p \in Proxy : z[p] < Weight[p]
  <2>1. Proxies[1] \in Proxy BY SMTT(30), Distribution
  <2> QED BY <1>2, <2>1
<1> HIDE DEF z
<1>5. SumOver(z) \in Int /\ SumOver(Weight) \in Int BY <1>1, <1>3, SumTyped
<1>6. PICK y \in [Proxy -> Int] : \A p \in Proxy : y[p] = 0 BY <1>1 DEF z
<1>6a. \A p \in Proxy : z[p] = 0 BY DEF z
<1>7. SumOver(z) < SumOver(Weight) BY <1>1, <1>2, <1>3, <1>4, SumMonotone
<1>8. SumOver(z) = 0
  <2>1. \A p \in Proxy : y[p] = z[p] + z[p] /\ y[p] <= z[p] /\ z[p] <= y[p]
    BY SMTT(30), <1>6, <1>6a
  <2>2. SumOver(y) = SumOver(z) + SumOver(z) BY <1>1, <1>6, <2>1, SumPlus
  <2>3. SumOver(y) <= SumOver(z) BY <1>1, <1>6, <2>1, SumMonotone
  <2>4. SumOver(z) <= SumOver(y) BY <1>1, <1>6, <2>1, SumMonotone
  <2> QED BY SMTT(30), <1>5, <2>2, <2>3, <2>4
<1>9. SumOver(Weight) \in Int /\ SumOver(Weight) > 0 BY <1>5, <1>7, <1>8
<1> QED BY <1>8, <1>9 DEF z, TotalWeight

-----------------------------------------------------------------------------
(* The commands and the state they make.                                   *)

\* What the command of the weighted strategy does to each weight.
LEMMA Charged ==
  ASSUME NEW w \in [Proxy -> Int]
  PROVE  /\ WeightedCommand(w) \in Command
         /\ WeightedCommand(w).type = "WEIGHTED_ROUND_ROBIN"
         /\ WeightedCommand(w).proxy = Selected(w)
         /\ \A p \in Proxy : WeightedCommand(w).updates[p] =
              IF p = Selected(w) THEN w[p] + Weight[p] - TotalWeight
              ELSE w[p] + Weight[p]
<1>1. PICK q : q = Selected(w) OBVIOUS
<1>2. PICK v : v = Raised(w) OBVIOUS
<1>3. /\ v \in [Proxy -> Int] /\ q \in Proxy
      /\ \A p \in Proxy : v[p] = w[p] + Weight[p]
  BY <1>1, <1>2, SelectedIs
<1>4. PICK u : u = [v EXCEPT ![q] = @ - TotalWeight] OBVIOUS
<1>5. /\ u \in [Proxy -> Int]
      /\ \A p \in Proxy : u[p] = IF p = q THEN v[p] - TotalWeight ELSE v[p]
  BY SMTT(30), <1>3, <1>4, SumWeights
<1>6. WeightedCommand(w) = [type |-> "WEIGHTED_ROUND_ROBIN", proxy |-> q, updates |-> u]
  BY <1>1, <1>2, <1>4 DEF WeightedCommand
<1>7. PICK cmd : cmd = WeightedCommand(w) OBVIOUS
<1>8. /\ cmd \in Command /\ cmd.type = "WEIGHTED_ROUND_ROBIN"
      /\ cmd.proxy = q /\ cmd.updates = u
  BY SMTT(30), <1>3, <1>5, <1>6, <1>7 DEF Command
<1>9. \A p \in Proxy : u[p] = IF p = q THEN w[p] + Weight[p] - TotalWeight
                             ELSE w[p] + Weight[p]
  <2> TAKE p \in Proxy
  <2>1. w[p] \in Int /\ Weight[p] \in Int /\ TotalWeight \in Int
    BY SMTT(30), BalancerAssumption, SumWeights
  <2>2. v[p] = w[p] + Weight[p] BY <1>3
  <2>3. u[p] = IF p = q THEN v[p] - TotalWeight ELSE v[p] BY <1>5
  <2> QED BY SMTT(30), <2>1, <2>2, <2>3
<1> QED BY <1>1, <1>7, <1>8, <1>9

\* A weighted choice keeps the weights balanced, and charges no proxy below
\* the total: the greatest of weights that add up to the total is positive.
LEMMA ChargedBalanced ==
  ASSUME IsInjective(Proxies), NEW w \in [Proxy -> Int], SumOver(w) = 0,
         \A p \in Proxy : w[p] > -TotalWeight
  PROVE  /\ SumOver(WeightedCommand(w).updates) = 0
         /\ \A p \in Proxy : WeightedCommand(w).updates[p] > -TotalWeight
<1>1. PICK q : q = Selected(w) OBVIOUS
<1>2. PICK v : v = Raised(w) OBVIOUS
<1>3. PICK u : u = WeightedCommand(w).updates OBVIOUS
<1>4. PICK t : t = TotalWeight OBVIOUS
<1>5. /\ v \in [Proxy -> Int] /\ q \in Proxy
      /\ \A p \in Proxy : v[p] = w[p] + Weight[p]
      /\ \A p \in Proxy : v[p] <= v[q]
  BY <1>1, <1>2, SelectedIs
<1>6. t \in Int /\ t > 0 /\ SumOver(Weight) = t
  BY <1>4, SumWeights DEF TotalWeight
<1>7. Weight \in [Proxy -> Int] /\ \A p \in Proxy : Weight[p] > 0
  BY SMTT(30), BalancerAssumption
<1>8. SumOver(v) = t
  <2>1. SumOver(v) = SumOver(w) + SumOver(Weight) BY <1>5, <1>7, SumPlus
  <2> QED BY SMTT(30), <1>6, <2>1
<1>9. v[q] > 0
  <2> SUFFICES ASSUME ~(v[q] > 0) PROVE FALSE OBVIOUS
  <2> DEFINE z == [p \in Proxy |-> 0]
  <2>1. z \in [Proxy -> Int] /\ \A p \in Proxy : v[p] <= z[p] BY SMTT(30), <1>5
  <2>2. SumOver(z) = 0 BY SumWeights
  <2> HIDE DEF z
  <2>3. SumOver(v) <= SumOver(z) BY <1>5, <2>1, SumMonotone
  <2> QED BY SMTT(30), <1>6, <1>8, <2>2, <2>3
<1>10. \A p \in Proxy : u[p] = IF p = q THEN w[p] + Weight[p] - t ELSE w[p] + Weight[p]
  BY <1>1, <1>3, <1>4, Charged
<1>11. u \in [Proxy -> Int]
  <2>1. WeightedCommand(w) \in Command /\ WeightedCommand(w).type = "WEIGHTED_ROUND_ROBIN"
    BY Charged
  <2> QED BY <1>3, <2>1 DEF Command
<1>12. u[q] = v[q] - t /\ \A p \in Proxy \ {q} : u[p] = v[p]
  <2>1. u[q] = w[q] + Weight[q] - t BY <1>5, <1>6, <1>7, <1>10
  <2>2. v[q] = w[q] + Weight[q] BY <1>5
  <2>3. ASSUME NEW p \in Proxy \ {q} PROVE u[p] = v[p] BY <1>5, <1>6, <1>7, <1>10
  <2>4. v[q] \in Int /\ w[q] \in Int /\ Weight[q] \in Int BY <1>5, <1>7
  <2>5. u[q] = v[q] - t BY SMTT(30), <1>6, <2>1, <2>2, <2>4
  <2> QED BY <2>3, <2>5
<1>13. SumOver(u) = SumOver(v) - t BY <1>5, <1>6, <1>11, <1>12, SumCharged
<1>14. ASSUME NEW p \in Proxy PROVE u[p] > -t
  <2>1. CASE p = q BY SMTT(30), <1>5, <1>6, <1>9, <1>12, <2>1
  <2>2. CASE p # q
    <3>1. w[p] \in Int /\ Weight[p] \in Int /\ Weight[p] > 0 /\ w[p] > -t
      BY <1>4, <1>7
    <3>2. u[p] = w[p] + Weight[p] BY <1>10, <2>2
    <3> QED BY SMTT(30), <1>6, <3>1, <3>2
  <2> QED BY <2>1, <2>2
<1> QED BY SMTT(30), <1>3, <1>4, <1>6, <1>8, <1>13, <1>14

\* The command of the round robin strategy.
LEMMA Turn ==
  ASSUME NEW n \in Node, NEW f \in FSM
  PROVE  /\ RoundRobinCommand(n, f) \in Command
         /\ RoundRobinCommand(n, f).type = "ROUND_ROBIN"
         /\ RoundRobinCommand(n, f).index = NextIndex(f)
         /\ IsTurn(RoundRobinCommand(n, f))
<1>1. PICK i : i = NextIndex(f) OBVIOUS
<1>2. i \in 0..(Modulus - 1) BY SMTT(30), <1>1, BalancerAssumption DEF NextIndex, FSM
<1>3. PICK o : o = Order[n] OBVIOUS
<1>4. o \in Seq(Proxy) /\ o # << >> BY <1>3, BalancerAssumption
<1>5. Len(o) \in Nat /\ Len(o) > 0 BY SMTT(30), <1>4
<1>6. (i % Len(o)) + 1 \in 1..Len(o) BY SMTT(30), <1>2, <1>5, BalancerAssumption
<1>7. PICK p : p = o[(i % Len(o)) + 1] OBVIOUS
<1>8. p \in Proxy BY SMTT(30), <1>4, <1>6, <1>7
<1>9. RoundRobinCommand(n, f) = [type |-> "ROUND_ROBIN", node |-> n, index |-> i, proxy |-> p]
  BY <1>1, <1>3, <1>7 DEF RoundRobinCommand
<1> QED BY SMTT(30), <1>1, <1>2, <1>3, <1>7, <1>8, <1>9 DEF Command, IsTurn

\* The command of consistent hashing.
LEMMA Recorded ==
  ASSUME NEW s \in Source, NEW p \in Proxy
  PROVE  /\ HashCommand(s, p) \in Command
         /\ HashCommand(s, p).type = "HASH"
         /\ HashCommand(s, p).source = s
         /\ HashCommand(s, p).proxy = p
BY DEF HashCommand, Command

\* FSM.Apply changes the part of the state its command is about.
LEMMA FSMApplied ==
  ASSUME NEW f \in FSM, NEW e \in Command
  PROVE  /\ FSMApply(f, e) \in FSM
         /\ FSMApply(f, e).rr = IF e.type = "ROUND_ROBIN" THEN e.index ELSE f.rr
         /\ FSMApply(f, e).wrr =
              IF e.type = "WEIGHTED_ROUND_ROBIN" THEN e.updates ELSE f.wrr
         /\ \A s \in Source : FSMApply(f, e).hash[s] =
              IF e.type = "HASH" /\ e.source = s THEN e.proxy ELSE f.hash[s]
<1>1. CASE e.type = "ROUND_ROBIN" BY <1>1 DEF Command, FSM, FSMApply
<1>2. CASE e.type = "WEIGHTED_ROUND_ROBIN" BY <1>2 DEF Command, FSM, FSMApply
<1>3. CASE e.type = "HASH" BY <1>3 DEF Command, FSM, FSMApply
<1> QED BY <1>1, <1>2, <1>3 DEF Command

-----------------------------------------------------------------------------
(* Types, and what a call knows of the state its command will change.      *)

\* Whether call m is as it was, but for the leader it waits for.
SameCall(m) ==
  /\ call'[m].pc = call[m].pc /\ call'[m].source = call[m].source
  /\ call'[m].looked = call[m].looked /\ call'[m].read = call[m].read
  /\ call'[m].base = call[m].base /\ call'[m].cmd = call[m].cmd
  /\ call'[m].proxy = call[m].proxy /\ call'[m].pos = call[m].pos

\* The log and the state after command e was committed.
Grown(e) ==
  /\ e \in Command /\ Current \in FSM
  /\ Current' = FSMApply(Current, e)
  /\ Len(log) \in Nat /\ Len(log') = Len(log) + 1
  /\ Len(states) = Len(log) + 1 /\ Len(states') = Len(log) + 2
  /\ \A i \in 1..Len(log) : log'[i] = log[i]
  /\ log'[Len(log) + 1] = e
  /\ \A i \in 1..(Len(log) + 1) : states'[i] = states[i]
  /\ states'[Len(log) + 2] = Current'

\* A commit makes the log and the state grow.
LEMMA CommitGrown ==
  ASSUME TypeOK, ReplicaInv, NEW n \in Node, ApplyInv(n), Commit(n)
  PROVE  Grown(call[n].cmd) /\ log' \in Seq(Command) /\ states' \in Seq(FSM)
<1>1. PICK e : e = call[n].cmd OBVIOUS
<1>2. PICK f : f = FSMApply(Current, e) OBVIOUS
<1>3. e \in Command BY <1>1 DEF ApplyInv, Commit
<1>4. log \in Seq(Command) /\ states \in Seq(FSM) /\ Len(states) = Len(log) + 1
  BY DEF TypeOK, ReplicaInv
<1>5. Len(log) \in Nat /\ Len(states) \in 1..Len(states) BY SMTT(30), <1>4
<1>6. Current \in FSM BY SMTT(30), <1>4, <1>5 DEF Current
<1>7. f \in FSM BY <1>2, <1>3, <1>6, FSMApplied
<1>8. log' = Append(log, e) /\ states' = Append(states, f)
  BY <1>1, <1>2 DEF Commit, AppendToLog, Current
<1>9. /\ log' \in Seq(Command) /\ Len(log') = Len(log) + 1
      /\ \A i \in 1..Len(log) : log'[i] = log[i]
      /\ log'[Len(log) + 1] = e
  BY SMTT(30), <1>3, <1>4, <1>8
<1>10. /\ states' \in Seq(FSM) /\ Len(states') = Len(states) + 1
       /\ \A i \in 1..Len(states) : states'[i] = states[i]
       /\ states'[Len(states) + 1] = f
  BY SMTT(30), <1>4, <1>7, <1>8
<1>11. Len(states') = Len(log) + 2 /\ states'[Len(log) + 2] = f
  BY SMTT(30), <1>4, <1>5, <1>10
<1>12. Current' = f BY <1>11 DEF Current
<1> QED
  BY <1>1, <1>2, <1>3, <1>4, <1>5, <1>6, <1>9, <1>10, <1>11, <1>12 DEF Grown

\* A call that did not move still knows what it knew, if its node did not
\* fall back and nothing was committed.
LEMMA StillCall ==
  ASSUME NEW m \in Node, SameCall(m), UNCHANGED <<scenario, log, states>>,
         applied[m] \in Nat, applied'[m] \in Nat, applied[m] <= applied'[m],
         call[m] \in Call, ChooseInv(m), ApplyInv(m), WaitInv(m)
  PROVE  ChooseInv(m)' /\ ApplyInv(m)' /\ WaitInv(m)'
<1>1. ChooseInv(m)'
  <2>1. call[m].base \in Nat BY DEF Call
  <2> QED BY SMTT(30), <2>1 DEF ChooseInv, SameCall, Quiet, Current
<1>2. ApplyInv(m)'
  BY DEF ApplyInv, SameCall, IsFresh, IsTurn, Current, NextIndex
<1>3. WaitInv(m)' BY DEF WaitInv, SameCall
<1> QED BY <1>1, <1>2, <1>3

\* A call that has ended knows nothing.
LEMMA IdleCall ==
  ASSUME NEW m \in Node, call'[m] = Idle, Len(log') \in Nat
  PROVE  ChooseInv(m)' /\ ApplyInv(m)' /\ WaitInv(m)'
<1>1. call'[m].pc = "idle" /\ call'[m].looked = 0 BY SMTT(30) DEF Idle
<1>2. call'[m].looked <= Len(log') BY SMTT(30), <1>1
<1>3. ChooseInv(m)' BY <1>1 DEF ChooseInv
<1>4. ApplyInv(m)' BY <1>1 DEF ApplyInv
<1>5. WaitInv(m)' BY <1>1, <1>2 DEF WaitInv
<1> QED BY <1>3, <1>4, <1>5

\* A call that did not move still knows what it knew after another one's
\* command was committed.
LEMMA CommittedCall ==
  ASSUME NEW e, Grown(e), NEW m \in Node, SameCall(m), UNCHANGED <<scenario, applied>>,
         applied[m] \in 0..Len(log),
         call[m] \in Call, ChooseInv(m), ApplyInv(m), WaitInv(m)
  PROVE  ChooseInv(m)' /\ ApplyInv(m)' /\ WaitInv(m)'
<1>0. PICK L, c : L = Len(log) /\ c = call[m] OBVIOUS
<1>1. /\ Len(log') = L + 1 /\ L \in Nat /\ log'[L + 1] = e
      /\ \A i \in 1..L : log'[i] = log[i]
  BY <1>0 DEF Grown
<1>2. c.base \in Nat /\ c.looked \in Nat BY <1>0 DEF Call
<1>3. /\ Current'.rr = IF e.type = "ROUND_ROBIN" THEN e.index ELSE Current.rr
      /\ Current'.wrr = IF e.type = "WEIGHTED_ROUND_ROBIN" THEN e.updates ELSE Current.wrr
  BY SMTT(30), FSMApplied DEF Grown
<1>4. ChooseInv(m)'
  <2> SUFFICES ASSUME c.pc = "choose"
               PROVE  /\ c.base <= applied[m] /\ Len(c.read) < Len(Proxies)
                      /\ Quiet("WEIGHTED_ROUND_ROBIN", c.base)'
                           => \A i \in 1..Len(c.read) : c.read[i] = Current'.wrr[Proxies[i]]
    BY <1>0 DEF ChooseInv, SameCall
  <2>1. /\ c.base <= applied[m] /\ Len(c.read) < Len(Proxies)
        /\ Quiet("WEIGHTED_ROUND_ROBIN", c.base)
             => \A i \in 1..Len(c.read) : c.read[i] = Current.wrr[Proxies[i]]
    BY <1>0 DEF ChooseInv
  <2>2. ASSUME Quiet("WEIGHTED_ROUND_ROBIN", c.base)', c.base <= L
        PROVE  Quiet("WEIGHTED_ROUND_ROBIN", c.base) /\ Current'.wrr = Current.wrr
    <3>1. e.type # "WEIGHTED_ROUND_ROBIN" BY SMTT(30), <1>1, <1>2, <2>2 DEF Quiet
    <3>2. Quiet("WEIGHTED_ROUND_ROBIN", c.base) BY SMTT(30), <1>0, <1>1, <1>2, <2>2 DEF Quiet
    <3> QED BY <1>3, <3>1, <3>2
  <2>3. c.base <= L BY SMTT(30), <1>0, <1>1, <1>2, <2>1
  <2> QED BY <2>1, <2>2, <2>3
<1>5. ApplyInv(m)'
  <2> SUFFICES ASSUME c.pc = "apply"
               PROVE  /\ c.cmd \in Command /\ c.base <= Len(log')
                      /\ c.cmd.type = "ROUND_ROBIN" =>
                           /\ IsTurn(c.cmd)
                           /\ IsFresh(c.cmd, c.base)' => c.cmd.index = NextIndex(Current')
                      /\ /\ c.cmd.type = "WEIGHTED_ROUND_ROBIN"
                         /\ IsFresh(c.cmd, c.base)'
                         => c.cmd = WeightedCommand(Current'.wrr)
                      /\ c.cmd.type = "HASH" =>
                           /\ scenario.hash /\ c.base = c.looked
                           /\ c.cmd.source = c.source
    BY <1>0 DEF ApplyInv, SameCall, IsTurn
  <2>1. /\ c.cmd \in Command /\ c.base <= L
        /\ c.cmd.type = "ROUND_ROBIN" =>
             /\ IsTurn(c.cmd)
             /\ IsFresh(c.cmd, c.base) => c.cmd.index = NextIndex(Current)
        /\ /\ c.cmd.type = "WEIGHTED_ROUND_ROBIN" /\ IsFresh(c.cmd, c.base)
           => c.cmd = WeightedCommand(Current.wrr)
        /\ c.cmd.type = "HASH" =>
             /\ scenario.hash /\ c.base = c.looked
             /\ c.cmd.source = c.source
    BY <1>0 DEF ApplyInv
  <2>2. ASSUME IsFresh(c.cmd, c.base)', c.cmd.type # "HASH"
        PROVE  IsFresh(c.cmd, c.base) /\ e.type # c.cmd.type
    <3>1. e.type # c.cmd.type BY SMTT(30), <1>1, <1>2, <2>1, <2>2 DEF IsFresh
    <3>2. IsFresh(c.cmd, c.base) BY SMTT(30), <1>0, <1>1, <1>2, <2>1, <2>2 DEF IsFresh
    <3> QED BY <3>1, <3>2
  <2>3. c.base <= Len(log') BY SMTT(30), <1>1, <1>2, <2>1
  <2>4. ASSUME c.cmd.type = "ROUND_ROBIN", IsFresh(c.cmd, c.base)'
        PROVE  c.cmd.index = NextIndex(Current')
    BY <1>3, <2>1, <2>2, <2>4 DEF NextIndex
  <2>5. ASSUME c.cmd.type = "WEIGHTED_ROUND_ROBIN", IsFresh(c.cmd, c.base)'
        PROVE  c.cmd = WeightedCommand(Current'.wrr)
    BY <1>3, <2>1, <2>2, <2>5
  <2> QED BY <2>1, <2>3, <2>4, <2>5
<1>6. WaitInv(m)'
  <2>1. /\ c.looked <= L
        /\ c.pc # "idle" =>
             /\ m \in scenario.callers /\ c.source \in Source
             /\ scenario.hash
                  => states[c.looked + 1].hash[c.source] \notin ProxyByBlock(m)
        /\ c.pc = "wait" =>
             /\ c.pos \in 1..L /\ c.proxy = log[c.pos].proxy
             /\ log[c.pos].type = "HASH" => log[c.pos].source = c.source
    BY <1>0 DEF WaitInv
  <2>2. states'[c.looked + 1] = states[c.looked + 1] /\ c.looked <= Len(log')
    BY SMTT(30), <1>0, <1>1, <1>2, <2>1 DEF Grown
  <2>3. c.pc = "wait" => c.pos \in 1..Len(log') /\ log'[c.pos] = log[c.pos]
    BY SMTT(30), <1>1, <2>1
  <2> QED BY <1>0, <2>1, <2>2, <2>3 DEF WaitInv, SameCall
<1> QED BY <1>4, <1>5, <1>6

\* A step of one call that changes nothing else but what was served.
LEMMA CallStep ==
  ASSUME TypeOK, KeptInv, CallInv, NEW n \in Node,
         UNCHANGED <<scenario, leader, log, states, fresh, fsm, applied, snap>>,
         faults' \in Nat, served' \in [Source -> Proxy \cup {None}],
         call' \in [Node -> Call], \A m \in Node \ {n} : call'[m] = call[m],
         ChooseInv(n)' /\ ApplyInv(n)' /\ WaitInv(n)'
  PROVE  TypeOK' /\ KeptInv' /\ CallInv'
<1>1. TypeOK' BY DEF TypeOK
<1>2. KeptInv' BY DEF KeptInv, Quiet, Current
<1>3. ASSUME NEW m \in Node, m # n PROVE ChooseInv(m)' /\ ApplyInv(m)' /\ WaitInv(m)'
  <2>1. call'[m] = call[m] BY <1>3
  <2>2. SameCall(m) BY <2>1 DEF SameCall
  <2>3. applied[m] \in Nat /\ call[m] \in Call BY SMTT(30) DEF TypeOK
  <2>4. applied'[m] = applied[m] OBVIOUS
  <2>5. ChooseInv(m) /\ ApplyInv(m) /\ WaitInv(m) BY DEF CallInv
  <2> QED BY SMTT(30), <2>2, <2>3, <2>4, <2>5, StillCall
<1> QED BY <1>1, <1>2, <1>3 DEF CallInv

\* The calls after one of them has changed.
LEMMA CallSet ==
  ASSUME call \in [Node -> Call], NEW n \in Node, NEW d \in Call,
         call' = [call EXCEPT ![n] = d]
  PROVE  /\ call' \in [Node -> Call] /\ call'[n] = d
         /\ \A m \in Node \ {n} : call'[m] = call[m]
OBVIOUS

\* A call that returns, or fails.
LEMMA ReturnStep ==
  ASSUME TypeOK, KeptInv, CallInv, NEW n \in Node,
         UNCHANGED <<scenario, leader, log, states, fresh, fsm, applied, snap>>,
         faults' \in Nat, served' \in [Source -> Proxy \cup {None}],
         call' = [call EXCEPT ![n] = Idle]
  PROVE  TypeOK' /\ KeptInv' /\ CallInv'
<1>1. Idle \in Call BY SMTT(30) DEF Idle, Call
<1>2. call \in [Node -> Call] BY DEF TypeOK
<1>3. call' \in [Node -> Call] /\ call'[n] = Idle /\ \A m \in Node \ {n} : call'[m] = call[m]
  BY <1>1, <1>2
<1>4. Len(log') \in Nat BY SMTT(30) DEF TypeOK
<1>5. ChooseInv(n)' /\ ApplyInv(n)' /\ WaitInv(n)' BY <1>3, <1>4, IdleCall
<1> QED BY <1>3, <1>5, CallStep

\* NextProxy is entered.
LEMMA BeginStep ==
  ASSUME TypeOK, ReplicaInv, KeptInv, CallInv, NEW n \in Node, NEW s \in Source, Begin(n, s)
  PROVE  TypeOK' /\ KeptInv' /\ CallInv'
<1>1. PICK c : c = [Idle EXCEPT !.pc = "choose", !.source = s,
                                !.looked = IF scenario.hash THEN applied[n] ELSE 0]
  OBVIOUS
<1>2. applied[n] \in 0..Len(log) /\ Len(log) \in Nat BY SMTT(30) DEF TypeOK
<1>3. /\ c \in Call /\ c.pc = "choose" /\ c.source = s /\ c.read = << >> /\ c.base = 0
      /\ c.looked = (IF scenario.hash THEN applied[n] ELSE 0)
  <2>1. PICK l : l = IF scenario.hash THEN applied[n] ELSE 0 OBVIOUS
  <2>2. l \in Nat BY SMTT(30), <1>2, <2>1
  <2>3. c = [pc |-> "choose", source |-> s, looked |-> l, read |-> << >>, base |-> 0,
             cmd |-> None, proxy |-> None, pos |-> 0, via |-> None]
    BY <1>1, <2>1 DEF Idle
  <2>4. << >> \in Seq(Int) BY SMTT(30)
  <2> QED BY <2>1, <2>2, <2>3, <2>4 DEF Call
<1>4. call \in [Node -> Call] BY DEF TypeOK
<1>5. call' = [call EXCEPT ![n] = c] BY <1>1 DEF Begin
<1>6. call' \in [Node -> Call] /\ call'[n] = c /\ \A m \in Node \ {n} : call'[m] = call[m]
  BY <1>3, <1>4, <1>5
<1>7. UNCHANGED <<scenario, leader, log, states, fresh, fsm, applied, snap, faults, served>>
  BY DEF Begin, raftVars
<1>8. ChooseInv(n)'
  <2>1. Len(Proxies) \in Nat \ {0} BY SMTT(30), BalancerAssumption
  <2> QED BY SMTT(30), <1>2, <1>3, <1>6, <1>7, <2>1 DEF ChooseInv
<1>9. ApplyInv(n)' BY <1>3, <1>6 DEF ApplyInv
<1>10. WaitInv(n)'
  <2>1. /\ n \in scenario.callers
        /\ scenario.hash => states[applied[n] + 1].hash[s] \notin ProxyByBlock(n)
    BY DEF Begin, ReplicaInv
  <2> QED BY SMTT(30), <1>2, <1>3, <1>6, <1>7, <2>1 DEF WaitInv
<1>11. faults \in Nat /\ served \in [Source -> Proxy \cup {None}] BY DEF TypeOK
<1> QED BY <1>6, <1>7, <1>8, <1>9, <1>10, <1>11, CallStep


\* A choice that is about to be recorded in the table.
LEMMA RecordStep ==
  ASSUME TypeOK, KeptInv, CallInv, NEW n \in Node, NEW p \in Proxy,
         UNCHANGED <<scenario, leader, log, states, fresh, fsm, applied, snap, faults, served>>,
         call[n].pc # "idle", scenario.hash,
         call' = [call EXCEPT ![n].pc = "apply", ![n].via = None,
                              ![n].cmd = HashCommand(call[n].source, p),
                              ![n].base = call[n].looked]
         \/ call' = [call EXCEPT ![n].pc = "apply",
                                 ![n].cmd = HashCommand(call[n].source, p),
                                 ![n].base = call[n].looked]
  PROVE  TypeOK' /\ KeptInv' /\ CallInv'
<1>1. WaitInv(n) /\ call \in [Node -> Call] BY DEF CallInv, TypeOK
<1>2. call[n].source \in Source /\ call[n] \in Call /\ call[n].looked \in Nat
  BY <1>1 DEF WaitInv, Call
<1>3. PICK cmd : cmd = HashCommand(call[n].source, p) OBVIOUS
<1>4. cmd \in Command /\ cmd.type = "HASH" /\ cmd.source = call[n].source
  BY SMTT(30), <1>2, <1>3, Recorded
<1>5. /\ call' \in [Node -> Call] /\ \A m \in Node \ {n} : call'[m] = call[m]
      /\ call'[n].pc = "apply" /\ call'[n].cmd = cmd /\ call'[n].base = call[n].looked
      /\ call'[n].looked = call[n].looked /\ call'[n].source = call[n].source
  <2>1. CASE call' = [call EXCEPT ![n].pc = "apply", ![n].via = None, ![n].cmd = cmd,
                                  ![n].base = call[n].looked]
    BY <1>1, <1>2, <1>4, <2>1 DEF Call
  <2>2. CASE call' = [call EXCEPT ![n].pc = "apply", ![n].cmd = cmd,
                                  ![n].base = call[n].looked]
    BY <1>1, <1>2, <1>4, <2>2 DEF Call
  <2> QED BY <1>3, <2>1, <2>2
<1>6. ChooseInv(n)' BY <1>5 DEF ChooseInv
<1>7. ApplyInv(n)' BY <1>1, <1>4, <1>5 DEF ApplyInv, WaitInv
<1>8. WaitInv(n)' BY <1>1, <1>5 DEF WaitInv
<1>9. faults \in Nat /\ served \in [Source -> Proxy \cup {None}] BY DEF TypeOK
<1> QED BY <1>5, <1>6, <1>7, <1>8, <1>9, CallStep

\* A node has proxies of the group only.
LEMMA Blocks == ASSUME NEW n \in Node PROVE ProxyByBlock(n) \subseteq Proxy
<1> SUFFICES ASSUME NEW p \in Range(Order[n]) PROVE p \in Proxy BY DEF ProxyByBlock
<1>1. Order[n] \in Seq(Proxy) BY BalancerAssumption
<1>2. DOMAIN Order[n] = 1..Len(Order[n]) BY SMTT(30), <1>1
<1>3. PICK i \in 1..Len(Order[n]) : p = Order[n][i] BY <1>2 DEF Range
<1> QED BY SMTT(30), <1>1, <1>3

\* Random.NextProxy.
LEMMA RandomStep ==
  ASSUME TypeOK, KeptInv, CallInv, NEW n \in Node, ChooseRandom(n)
  PROVE  TypeOK' /\ KeptInv' /\ CallInv'
<1>1. UNCHANGED <<scenario, leader, log, states, fresh, fsm, applied, snap, faults>>
  BY DEF ChooseRandom, raftVars
<1>2. PICK p \in Range(Order[n]) :
        \/ /\ scenario.hash
           /\ call' = [call EXCEPT ![n].pc = "apply",
                        ![n].cmd = HashCommand(call[n].source, p),
                        ![n].base = call[n].looked]
           /\ UNCHANGED served
        \/ ~scenario.hash /\ Return(n, call[n].source, p)
  BY DEF ChooseRandom
<1>3. p \in Proxy BY Blocks DEF ProxyByBlock
<1>4. call[n].pc = "choose" BY DEF ChooseRandom
<1>5. call[n].source \in Source BY <1>4 DEF CallInv, WaitInv
<1>6. CASE ~scenario.hash /\ Return(n, call[n].source, p)
  <2>1. served' = [served EXCEPT ![call[n].source] = p] /\ call' = [call EXCEPT ![n] = Idle]
    BY <1>6 DEF Return
  <2>2. faults \in Nat /\ served \in [Source -> Proxy \cup {None}] BY DEF TypeOK
  <2>3. served' \in [Source -> Proxy \cup {None}] BY <1>3, <1>5, <2>1, <2>2
  <2> QED BY <1>1, <2>1, <2>2, <2>3, ReturnStep
<1> QED BY <1>1, <1>2, <1>3, <1>4, <1>6, RecordStep

\* RoundRobin.NextProxy.
LEMMA RoundRobinStep ==
  ASSUME TypeOK, ReplicaInv, KeptInv, CallInv, NEW n \in Node, ChooseRoundRobin(n)
  PROVE  TypeOK' /\ KeptInv' /\ CallInv'
<1>1. UNCHANGED <<scenario, leader, log, states, fresh, fsm, applied, snap, faults, served>>
  BY DEF ChooseRoundRobin, raftVars
<1>2. /\ call \in [Node -> Call] /\ fsm[n] \in FSM /\ applied[n] \in 0..Len(log)
      /\ Len(log) \in Nat
  BY SMTT(30) DEF TypeOK
<1>3. PICK cmd : cmd = RoundRobinCommand(n, fsm[n]) OBVIOUS
<1>4. /\ cmd \in Command /\ cmd.type = "ROUND_ROBIN" /\ cmd.index = NextIndex(fsm[n])
      /\ IsTurn(cmd)
  BY <1>2, <1>3, Turn
<1>5. call' = [call EXCEPT ![n].pc = "apply", ![n].base = applied[n], ![n].cmd = cmd]
  BY <1>3 DEF ChooseRoundRobin
<1>6. /\ call' \in [Node -> Call] /\ \A m \in Node \ {n} : call'[m] = call[m]
      /\ call'[n].pc = "apply" /\ call'[n].cmd = cmd /\ call'[n].base = applied[n]
      /\ call'[n].looked = call[n].looked /\ call'[n].source = call[n].source
  <2>1. PICK b : b = applied[n] OBVIOUS
  <2>2. b \in Nat /\ cmd \in Command /\ call[n] \in Call BY SMTT(30), <1>2, <1>4, <2>1
  <2>3. PICK d : d = [call[n] EXCEPT !.pc = "apply", !.base = b, !.cmd = cmd] OBVIOUS
  <2>4. /\ d \in Call /\ d.pc = "apply" /\ d.base = b /\ d.cmd = cmd
        /\ d.looked = call[n].looked /\ d.source = call[n].source
    BY <2>2, <2>3 DEF Call
  <2>5. call' = [call EXCEPT ![n] = d] BY <1>2, <1>5, <2>1, <2>3
  <2> QED BY <1>2, <2>1, <2>4, <2>5, CallSet
<1>7. ChooseInv(n)' BY <1>6 DEF ChooseInv
<1>8. IsFresh(cmd, applied[n]) => cmd.index = NextIndex(Current)
  <2> SUFFICES ASSUME IsFresh(cmd, applied[n]) PROVE fsm[n].rr = Current.rr
    BY <1>4 DEF NextIndex
  <2>1. Quiet("ROUND_ROBIN", applied[n]) BY <1>4 DEF IsFresh, Quiet
  <2>2. states[applied[n] + 1].rr = Current.rr BY <1>2, <2>1 DEF KeptInv
  <2> QED BY <2>2 DEF ReplicaInv
<1>9. ApplyInv(n)'
  <2>1. IsFresh(cmd, applied[n])' => IsFresh(cmd, applied[n])
    BY <1>1 DEF IsFresh
  <2>2. NextIndex(Current)' = NextIndex(Current) BY <1>1 DEF Current
  <2>3. applied[n] <= Len(log') BY SMTT(30), <1>1, <1>2
  <2>4. IsTurn(cmd)' BY <1>4 DEF IsTurn
  <2>5. IsFresh(cmd, applied[n])' => cmd.index = NextIndex(Current)'
    BY <1>8, <2>1, <2>2
  <2>6. applied'[n] = applied[n] BY <1>1
  <2> QED BY <1>4, <1>6, <2>3, <2>4, <2>5, <2>6 DEF ApplyInv
<1>10. WaitInv(n)'
  <2>1. call[n].pc = "choose" BY DEF ChooseRoundRobin
  <2>2. WaitInv(n) BY DEF CallInv
  <2> QED BY <1>1, <1>6, <2>1, <2>2 DEF WaitInv
<1>11. faults \in Nat /\ served \in [Source -> Proxy \cup {None}] BY DEF TypeOK
<1> QED BY <1>1, <1>6, <1>7, <1>9, <1>10, <1>11, CallStep


\* What WeightedRoundRobin.NextProxy has read with one more weight: the
\* current weights, if none was committed since it began.
HasRead(n, next, read, base, w) ==
  /\ Len(read) = next /\ base <= applied[n]
  /\ Quiet("WEIGHTED_ROUND_ROBIN", base)
       => \A i \in 1..next : read[i] = Current.wrr[Proxies[i]]
  /\ next = Len(Proxies) =>
       /\ w \in [Proxy -> Int]
       /\ \A p \in Proxy : \E i \in 1..next : w[p] = read[i] /\ Proxies[i] = p
  /\ IF next < Len(Proxies)
     THEN call' = [call EXCEPT ![n].read = read, ![n].base = base]
     ELSE call' = [call EXCEPT ![n].pc = "apply", ![n].read = << >>, ![n].base = base,
                               ![n].cmd = WeightedCommand(w)]

\* WeightedRoundRobin.NextProxy reads one weight.
LEMMA ReadValue ==
  ASSUME TypeOK, ReplicaInv, KeptInv, CallInv, NEW n \in Node, ReadWeight(n)
  PROVE  \E next \in 1..Len(Proxies), read \in Seq(Int), base \in Nat :
           \E w : HasRead(n, next, read, base, w)
<1> DEFINE c == call[n]
           next == Len(c.read) + 1
           v == fsm[n].wrr[Proxies[next]]
           read == Append(c.read, v)
           base == IF next = 1 THEN applied[n] ELSE c.base
           w == [p \in Proxy |-> read[CHOOSE i \in DOMAIN Proxies : Proxies[i] = p]]
<1>3. IF next < Len(Proxies)
      THEN call' = [call EXCEPT ![n].read = read, ![n].base = base]
      ELSE call' = [call EXCEPT ![n].pc = "apply", ![n].read = << >>, ![n].base = base,
                                ![n].cmd = WeightedCommand(w)]
  BY DEF ReadWeight
<1>4. /\ c.pc = "choose" /\ c.base <= applied[n] /\ Len(c.read) < Len(Proxies)
      /\ Quiet("WEIGHTED_ROUND_ROBIN", c.base)
           => \A i \in 1..Len(c.read) : c.read[i] = Current.wrr[Proxies[i]]
  BY DEF ReadWeight, CallInv, ChooseInv
<1>5. /\ call \in [Node -> Call] /\ c \in Call /\ fsm[n] \in FSM
      /\ applied[n] \in 0..Len(log) /\ Len(log) \in Nat
  BY SMTT(30) DEF TypeOK
<1>6. c.read \in Seq(Int) /\ c.base \in Nat /\ Len(c.read) \in Nat BY SMTT(30), <1>5 DEF Call
<1>7. next \in 1..Len(Proxies) BY SMTT(30), <1>4, <1>6, Distribution
<1>9. v \in Int BY <1>5, <1>7, Distribution DEF FSM
<1>10. base \in Nat /\ base <= applied[n] BY SMTT(30), <1>4, <1>5, <1>6
<1>11. /\ read \in Seq(Int) /\ Len(read) = next /\ read[next] = v
       /\ \A i \in 1..Len(c.read) : read[i] = c.read[i]
  <2> HIDE DEF v
  <2> QED BY SMTT(30), <1>6, <1>9
<1>2. next \in Nat /\ \A i \in 1..next : i # next => i \in 1..Len(c.read) /\ next # 1
  BY SMTT(30), <1>6
<1>12. /\ next = 1 => base = applied[n]
       /\ next # 1 => base = c.base
  OBVIOUS
<1>b. \A p \in Proxy : \E i \in 1..Len(Proxies) : w[p] = read[i] /\ Proxies[i] = p
  <2> HIDE DEF read
  <2> TAKE p \in Proxy
  <2>1. PICK i : i = CHOOSE j \in DOMAIN Proxies : Proxies[j] = p OBVIOUS
  <2>2. i \in 1..Len(Proxies) /\ Proxies[i] = p BY <2>1, Distribution
  <2>3. w[p] = read[i] BY <2>1
  <2> QED BY <2>2, <2>3
<1>e. w = [p \in Proxy |-> w[p]]
  <2> HIDE DEF read
  <2> QED BY SMTT(30)
<1> HIDE DEF next, v, read, base, w
<1>13. ASSUME Quiet("WEIGHTED_ROUND_ROBIN", base)
       PROVE  \A i \in 1..next : read[i] = Current.wrr[Proxies[i]]
  <2>1. Quiet("WEIGHTED_ROUND_ROBIN", applied[n]) BY SMTT(30), <1>5, <1>10, <1>13 DEF Quiet
  <2>2. states[applied[n] + 1].wrr = Current.wrr BY <1>5, <2>1 DEF KeptInv
  <2>3. fsm[n].wrr = Current.wrr BY <2>2 DEF ReplicaInv
  <2>4. read[next] = Current.wrr[Proxies[next]] BY <1>11, <2>3 DEF v
  <2>5. ASSUME NEW i \in 1..next, i # next PROVE read[i] = Current.wrr[Proxies[i]]
    <3>1. i \in 1..Len(c.read) /\ next # 1 BY <1>2, <2>5
    <3>2. base = c.base BY <1>12, <3>1
    <3> QED BY <1>4, <1>11, <1>13, <3>1, <3>2
  <2> QED BY <2>4, <2>5
<1>14. ASSUME next = Len(Proxies)
       PROVE  /\ w \in [Proxy -> Int]
              /\ \A p \in Proxy : \E i \in 1..next : w[p] = read[i] /\ Proxies[i] = p
  <2>1. \A p \in Proxy : \E i \in 1..next : w[p] = read[i] /\ Proxies[i] = p
    BY <1>b, <1>14
  <2>2. \A p \in Proxy : w[p] \in Int BY SMTT(30), <1>2, <1>11, <2>1
  <2> QED BY <1>e, <2>1, <2>2
<1>15. read \in Seq(Int) /\ base \in Nat BY <1>10, <1>11
<1>16. Len(read) = next /\ base <= applied[n] BY <1>10, <1>11
<1>17. HasRead(n, next, read, base, w) BY <1>3, <1>13, <1>14, <1>16 DEF HasRead
<1> QED BY <1>7, <1>15, <1>17

\* WeightedRoundRobin.NextProxy reads one weight, and computes its command
\* from the last one.
LEMMA ReadStep ==
  ASSUME TypeOK, ReplicaInv, KeptInv, CallInv, NEW n \in Node, ReadWeight(n)
  PROVE  TypeOK' /\ KeptInv' /\ CallInv'
<1>1. UNCHANGED <<scenario, leader, log, states, fresh, fsm, applied, snap, faults, served>>
  BY DEF ReadWeight, raftVars
<1>2. PICK c : c = call[n] OBVIOUS
<1>a. PICK next \in 1..Len(Proxies), read \in Seq(Int), base \in Nat :
        \E w : HasRead(n, next, read, base, w)
  BY ReadValue
<1>b. PICK w : HasRead(n, next, read, base, w) BY <1>a
<1>3. /\ Len(read) = next /\ base <= applied[n]
      /\ Quiet("WEIGHTED_ROUND_ROBIN", base)
           => \A i \in 1..next : read[i] = Current.wrr[Proxies[i]]
      /\ next = Len(Proxies) =>
           /\ w \in [Proxy -> Int]
           /\ \A p \in Proxy : \E i \in 1..next : w[p] = read[i] /\ Proxies[i] = p
      /\ IF next < Len(Proxies)
         THEN call' = [call EXCEPT ![n].read = read, ![n].base = base]
         ELSE call' = [call EXCEPT ![n].pc = "apply", ![n].read = << >>,
                                   ![n].base = base, ![n].cmd = WeightedCommand(w)]
  BY <1>b DEF HasRead
<1>4. c.pc = "choose" BY <1>2 DEF ReadWeight
<1>5. /\ call \in [Node -> Call] /\ c \in Call
      /\ applied[n] \in 0..Len(log) /\ Len(log) \in Nat
  BY SMTT(30), <1>2 DEF TypeOK
<1>11. Len(read) = next /\ base <= applied[n] BY <1>3
<1>13. Quiet("WEIGHTED_ROUND_ROBIN", base)
         => \A i \in 1..next : read[i] = Current.wrr[Proxies[i]]
  BY <1>3
<1>14. WaitInv(n) BY DEF CallInv
<1>15. CASE next < Len(Proxies)
  <2>1. call' = [call EXCEPT ![n].read = read, ![n].base = base] BY <1>3, <1>15
  <2>2. PICK d : d = [c EXCEPT !.read = read, !.base = base] OBVIOUS
  <2>a. /\ d \in Call /\ d.pc = c.pc /\ d.read = read /\ d.base = base
        /\ d.looked = c.looked /\ d.source = c.source
    BY <1>5, <2>2 DEF Call
  <2>b. call' = [call EXCEPT ![n] = d] BY <1>2, <1>5, <2>1, <2>2
  <2>3. /\ call' \in [Node -> Call] /\ call'[n] = d
        /\ \A m \in Node \ {n} : call'[m] = call[m]
    BY <1>5, <2>a, <2>b, CallSet
  <2>4. ChooseInv(n)'
    <3>1. Quiet("WEIGHTED_ROUND_ROBIN", base)' => Quiet("WEIGHTED_ROUND_ROBIN", base)
      BY <1>1 DEF Quiet
    <3>2. Current' = Current BY <1>1 DEF Current
    <3> QED BY <1>1, <1>11, <1>13, <1>15, <2>3, <2>a, <3>1, <3>2 DEF ChooseInv
  <2>5. ApplyInv(n)' BY <1>4, <2>3, <2>a DEF ApplyInv
  <2>6. WaitInv(n)' BY <1>1, <1>2, <1>4, <1>14, <2>3, <2>a DEF WaitInv
  <2>7. faults \in Nat /\ served \in [Source -> Proxy \cup {None}] BY DEF TypeOK
  <2> QED BY <1>1, <2>3, <2>4, <2>5, <2>6, <2>7, CallStep
<1>16. CASE ~(next < Len(Proxies))
  <2>d. Len(Proxies) \in Nat BY Distribution
  <2>0. next = Len(Proxies) BY SMTT(30), <1>16, <2>d
  <2>1. \A p \in Proxy : \E i \in 1..next : w[p] = read[i] /\ Proxies[i] = p
    BY <1>3, <2>0
  <2>2. w \in [Proxy -> Int] BY <1>3, <2>0
  <2>3. PICK cmd : cmd = WeightedCommand(w) OBVIOUS
  <2>4. cmd \in Command /\ cmd.type = "WEIGHTED_ROUND_ROBIN" BY <2>2, <2>3, Charged
  <2>5. call' = [call EXCEPT ![n].pc = "apply", ![n].read = << >>, ![n].base = base,
                             ![n].cmd = cmd]
    BY <1>3, <1>16, <2>3
  <2>a. PICK d : d = [c EXCEPT !.pc = "apply", !.read = << >>, !.base = base, !.cmd = cmd]
    OBVIOUS
  <2>6. /\ d \in Call /\ d.pc = "apply" /\ d.base = base /\ d.cmd = cmd
        /\ d.looked = c.looked /\ d.source = c.source
    <3>1. << >> \in Seq(Int) /\ cmd \in Command BY SMTT(30), <2>4
    <3> QED BY <1>5, <2>a, <3>1 DEF Call
  <2>b. call' = [call EXCEPT ![n] = d] BY <1>2, <1>5, <2>5, <2>a
  <2>7. /\ call' \in [Node -> Call] /\ call'[n] = d
        /\ \A m \in Node \ {n} : call'[m] = call[m]
    BY <1>5, <2>6, <2>b, CallSet
  <2>8. ASSUME IsFresh(cmd, base) PROVE cmd = WeightedCommand(Current.wrr)
    <3>1. Quiet("WEIGHTED_ROUND_ROBIN", base) BY <2>4, <2>8 DEF IsFresh, Quiet
    <3>2. \A p \in Proxy : w[p] = Current.wrr[p] BY SMTT(30), <1>13, <2>1, <3>1
    <3>3. states \in Seq(FSM) /\ Len(states) = Len(log) + 1 BY DEF TypeOK, ReplicaInv
    <3>4. Current \in FSM BY SMTT(30), <1>5, <3>3 DEF Current
    <3>5. Current.wrr \in [Proxy -> Int] BY <3>4 DEF FSM
    <3>6. w = Current.wrr BY SMTT(30), <2>2, <3>2, <3>5
    <3> QED BY <2>3, <3>6
  <2>9. ChooseInv(n)' BY <2>6, <2>7 DEF ChooseInv
  <2>10. ApplyInv(n)'
    <3>1. IsFresh(cmd, base)' => IsFresh(cmd, base) BY <1>1 DEF IsFresh
    <3>2. Current' = Current BY <1>1 DEF Current
    <3>3. base <= Len(log') BY SMTT(30), <1>1, <1>5, <1>11
    <3>4. call'[n].cmd = cmd /\ call'[n].base = base BY <2>6, <2>7
    <3>5. IsFresh(cmd, base)' => cmd = WeightedCommand(Current.wrr)' BY <2>8, <3>1, <3>2
    <3> QED BY <2>4, <3>3, <3>4, <3>5 DEF ApplyInv
  <2>11. WaitInv(n)' BY <1>1, <1>2, <1>4, <1>14, <2>6, <2>7 DEF WaitInv
  <2>12. faults \in Nat /\ served \in [Source -> Proxy \cup {None}] BY DEF TypeOK
  <2> QED BY <1>1, <2>7, <2>9, <2>10, <2>11, <2>12, CallStep
<1> QED BY <1>15, <1>16


\* A command is committed.
LEMMA CommitStep ==
  ASSUME TypeOK, ReplicaInv, ReplicaInv', KeptInv, CallInv, NEW n \in Node, Commit(n)
  PROVE  TypeOK' /\ KeptInv' /\ CallInv'
<1>1. UNCHANGED <<scenario, leader, fsm, applied, snap, served, faults>> BY DEF Commit
<1>2. PICK c, e, L : c = call[n] /\ e = c.cmd /\ L = Len(log) OBVIOUS
<1>3. ApplyInv(n) /\ WaitInv(n) /\ c.pc = "apply" BY <1>2 DEF CallInv, Commit
<1>4. Grown(e) /\ log' \in Seq(Command) /\ states' \in Seq(FSM)
  BY <1>2, <1>3, CommitGrown
<1>5. /\ e \in Command /\ L \in Nat /\ Len(log') = L + 1 /\ log'[L + 1] = e
      /\ \A i \in 1..L : log'[i] = log[i]
      /\ \A i \in 1..(L + 1) : states'[i] = states[i]
      /\ states'[L + 2] = Current'
  BY <1>2, <1>4 DEF Grown
<1>6. call \in [Node -> Call] /\ c \in Call /\ leader \in Node \cup {None}
  BY <1>2 DEF TypeOK
<1>7. PICK d : d = [c EXCEPT !.pc = "wait", !.pos = L + 1, !.via = leader,
                             !.proxy = e.proxy, !.cmd = None, !.base = 0]
  OBVIOUS
<1>8. /\ d \in Call /\ d.pc = "wait" /\ d.pos = L + 1 /\ d.proxy = e.proxy
      /\ d.source = c.source /\ d.looked = c.looked
  <2>1. e.proxy \in Proxy BY <1>5 DEF Command
  <2>2. L + 1 \in Nat BY SMTT(30), <1>5
  <2> QED BY <1>6, <1>7, <2>1, <2>2 DEF Call
<1>9. call' = [call EXCEPT ![n] = d] BY <1>2, <1>6, <1>7 DEF Commit
<1>10. /\ call' \in [Node -> Call] /\ call'[n] = d
       /\ \A m \in Node \ {n} : call'[m] = call[m]
  BY <1>6, <1>8, <1>9, CallSet
<1>11. fresh' \in BOOLEAN BY DEF Commit, AppendToLog, TypeOK, IsFresh
<1>12. TypeOK'
  <2>1. /\ scenario \in Scenarios /\ leader \in Node \cup {None} /\ fsm \in [Node -> FSM]
        /\ applied \in [Node -> 0..L] /\ snap \in [Node -> [index : 0..L, fsm : FSM]]
        /\ served \in [Source -> Proxy \cup {None}] /\ faults \in Nat
    BY <1>2 DEF TypeOK
  <2>2. applied \in [Node -> 0..(L + 1)] BY SMTT(30), <1>5, <2>1
  <2>3. [index : 0..L, fsm : FSM] \subseteq [index : 0..(L + 1), fsm : FSM]
    BY SMTT(30), <1>5
  <2>4. snap \in [Node -> [index : 0..(L + 1), fsm : FSM]] BY <2>1, <2>3
  <2> QED BY <1>1, <1>4, <1>5, <1>10, <1>11, <2>1, <2>2, <2>4 DEF TypeOK
<1>13. KeptInv'
  <2> SUFFICES ASSUME NEW i \in 0..(L + 1)
               PROVE  /\ Quiet("ROUND_ROBIN", i)' => states'[i + 1].rr = Current'.rr
                      /\ Quiet("WEIGHTED_ROUND_ROBIN", i)' => states'[i + 1].wrr = Current'.wrr
                      /\ \A s \in Source :
                           (\A k \in (i + 1)..(L + 1) :
                              log'[k].type = "HASH" => log'[k].source # s)
                           => states'[i + 1].hash[s] = Current'.hash[s]
    <3>1. Len(log') = L + 1 BY <1>5
    <3> QED BY <3>1 DEF KeptInv
  <2>1. CASE i = L + 1
    <3>1. states'[i + 1] = Current' BY SMTT(30), <1>5, <2>1
    <3> QED BY <3>1
  <2>2. CASE i # L + 1
    <3>1. i \in 0..L /\ i + 1 \in 1..(L + 1) BY SMTT(30), <1>5, <2>2
    <3>2. states'[i + 1] = states[i + 1] BY <1>5, <3>1
    <3>3. /\ Current'.rr = IF e.type = "ROUND_ROBIN" THEN e.index ELSE Current.rr
          /\ Current'.wrr = IF e.type = "WEIGHTED_ROUND_ROBIN" THEN e.updates ELSE Current.wrr
          /\ \A s \in Source : Current'.hash[s] =
               IF e.type = "HASH" /\ e.source = s THEN e.proxy ELSE Current.hash[s]
      <4>1. Current \in FSM /\ e \in Command /\ Current' = FSMApply(Current, e)
        BY <1>4 DEF Grown
      <4> QED BY <4>1, FSMApplied
    <3>4. /\ Quiet("ROUND_ROBIN", i) => states[i + 1].rr = Current.rr
          /\ Quiet("WEIGHTED_ROUND_ROBIN", i) => states[i + 1].wrr = Current.wrr
          /\ \A s \in Source :
               (\A k \in (i + 1)..L : log[k].type = "HASH" => log[k].source # s)
               => states[i + 1].hash[s] = Current.hash[s]
      BY <1>2, <3>1 DEF KeptInv
    <3>5. ASSUME NEW t, Quiet(t, i)' PROVE Quiet(t, i) /\ e.type # t
      <4>1. e.type # t BY SMTT(30), <1>5, <3>1, <3>5 DEF Quiet
      <4>2. Quiet(t, i) BY SMTT(30), <1>2, <1>5, <3>1, <3>5 DEF Quiet
      <4> QED BY <4>1, <4>2
    <3>6. ASSUME NEW s \in Source,
                 \A k \in (i + 1)..(L + 1) : log'[k].type = "HASH" => log'[k].source # s
          PROVE  states'[i + 1].hash[s] = Current'.hash[s]
      <4>1. ~(e.type = "HASH" /\ e.source = s) BY SMTT(30), <1>5, <3>1, <3>6
      <4>2. \A k \in (i + 1)..L : log[k].type = "HASH" => log[k].source # s
        BY SMTT(30), <1>5, <3>1, <3>6
      <4> QED BY <3>2, <3>3, <3>4, <4>1, <4>2
    <3>7. Quiet("ROUND_ROBIN", i)' => states'[i + 1].rr = Current'.rr
      BY <3>2, <3>3, <3>4, <3>5
    <3>8. Quiet("WEIGHTED_ROUND_ROBIN", i)' => states'[i + 1].wrr = Current'.wrr
      BY <3>2, <3>3, <3>4, <3>5
    <3> QED BY <3>6, <3>7, <3>8
  <2> QED BY <2>1, <2>2
<1>14. ASSUME NEW m \in Node PROVE ChooseInv(m)' /\ ApplyInv(m)' /\ WaitInv(m)'
  <2>1. CASE m = n
    <3>1. ChooseInv(m)' BY <1>8, <1>10, <2>1 DEF ChooseInv
    <3>2. ApplyInv(m)' BY <1>8, <1>10, <2>1 DEF ApplyInv
    <3>3. /\ n \in scenario.callers
          /\ c.source \in Source /\ c.looked \in Nat /\ c.looked <= L
          /\ scenario.hash
               => states[c.looked + 1].hash[c.source] \notin ProxyByBlock(n)
          /\ e.type = "HASH" => e.source = c.source
      BY <1>2, <1>3, <1>6 DEF WaitInv, ApplyInv, Call
    <3>4. states'[c.looked + 1] = states[c.looked + 1] /\ c.looked <= L + 1
      BY SMTT(30), <1>5, <3>3
    <3>5. L + 1 \in 1..(L + 1) BY SMTT(30), <1>5
    <3>6. WaitInv(m)'
      BY SMTT(30), <1>1, <1>5, <1>8, <1>10, <2>1, <3>3, <3>4, <3>5 DEF WaitInv
    <3> QED BY <3>1, <3>2, <3>6
  <2>2. CASE m # n
    <3>1. SameCall(m) BY <1>10, <2>2 DEF SameCall
    <3>2. /\ applied[m] \in 0..Len(log) /\ call[m] \in Call
          /\ ChooseInv(m) /\ ApplyInv(m) /\ WaitInv(m)
      BY DEF TypeOK, CallInv
    <3>3. UNCHANGED <<scenario, applied>> BY <1>1
    <3> QED BY <1>4, <3>1, <3>2, <3>3, CommittedCall
  <2> QED BY <2>1, <2>2
<1> QED BY <1>12, <1>13, <1>14 DEF CallInv


\* A future resolves.
LEMMA AppliedStep ==
  ASSUME TypeOK, KeptInv, CallInv, NEW n \in Node, Applied(n)
  PROVE  TypeOK' /\ KeptInv' /\ CallInv'
<1>1. UNCHANGED <<scenario, leader, log, states, fresh, fsm, applied, snap, faults>>
  BY DEF Applied, raftVars
<1>2. WaitInv(n) /\ call[n].pc = "wait" BY DEF CallInv, Applied
<1>3. /\ call[n].source \in Source /\ call[n].pos \in 1..Len(log)
      /\ call[n].proxy = log[call[n].pos].proxy
  BY <1>2 DEF WaitInv
<1>4. log[call[n].pos] \in Command BY SMTT(30), <1>3 DEF TypeOK
<1>5. call[n].proxy \in Proxy BY <1>3, <1>4 DEF Command
<1>6. CASE ~Recording(n) /\ Return(n, call[n].source, call[n].proxy)
  <2>1. /\ served' = [served EXCEPT ![call[n].source] = call[n].proxy]
        /\ call' = [call EXCEPT ![n] = Idle]
    BY <1>6 DEF Return
  <2>2. faults \in Nat /\ served \in [Source -> Proxy \cup {None}] BY DEF TypeOK
  <2>3. served' \in [Source -> Proxy \cup {None}] BY <1>3, <1>5, <2>1, <2>2
  <2> QED BY <1>1, <2>1, <2>2, <2>3, ReturnStep
<1>7. CASE /\ Recording(n)
           /\ call' = [call EXCEPT ![n].pc = "apply", ![n].via = None,
                ![n].cmd = HashCommand(call[n].source, call[n].proxy),
                ![n].base = call[n].looked]
           /\ UNCHANGED served
  <2>1. scenario.hash BY <1>7 DEF Recording
  <2>2. UNCHANGED <<scenario, leader, log, states, fresh, fsm, applied, snap, faults, served>>
    BY <1>1, <1>7
  <2>3. call[n].pc # "idle" BY <1>2
  <2> QED BY <1>5, <1>7, <2>1, <2>2, <2>3, RecordStep
<1> QED BY <1>6, <1>7 DEF Applied

\* A call ends with an error.
LEMMA FailStep ==
  ASSUME TypeOK, KeptInv, CallInv, NEW n \in Node, Fail(n)
  PROVE  TypeOK' /\ KeptInv' /\ CallInv'
<1>1. UNCHANGED <<scenario, leader, log, states, fresh, fsm, applied, snap, served>>
  BY DEF Fail
<1>2. faults \in Nat /\ served \in [Source -> Proxy \cup {None}] BY DEF TypeOK
<1>3. faults' \in Nat BY SMTT(30), <1>2 DEF Fail
<1>4. call' = [call EXCEPT ![n] = Idle] BY DEF Fail
<1> QED BY <1>1, <1>2, <1>3, <1>4, ReturnStep

\* A node applies a command, takes a snapshot or receives one, restarts or
\* is elected: nothing is committed.
LEMMA NodeStep ==
  ASSUME TypeOK, ReplicaInv, ReplicaInv', KeptInv, CallInv, NEW n \in Node,
         ApplyNext(n) \/ Snapshot(n) \/ InstallSnapshot(n) \/ Crash(n) \/ Elect(n)
  PROVE  TypeOK' /\ KeptInv' /\ CallInv'
<1>1. UNCHANGED <<scenario, log, states, fresh, served>>
  BY DEF ApplyNext, Snapshot, InstallSnapshot, Crash, Elect
<1>2. /\ call \in [Node -> Call] /\ faults \in Nat /\ leader \in Node \cup {None}
      /\ log \in Seq(Command) /\ states \in Seq(FSM) /\ Len(log) \in Nat
      /\ applied \in [Node -> 0..Len(log)]
      /\ snap \in [Node -> [index : 0..Len(log), fsm : FSM]]
  BY SMTT(30) DEF TypeOK
<1>3. faults' \in Nat /\ leader' \in Node \cup {None}
  BY SMTT(30), <1>2 DEF ApplyNext, Snapshot, InstallSnapshot, Crash, Elect
<1>4. applied' \in [Node -> 0..Len(log)] BY <1>1 DEF ReplicaInv
<1>5. fsm' \in [Node -> FSM]
  <2>1. fsm' = [m \in Node |-> states[applied'[m] + 1]] BY <1>1 DEF ReplicaInv
  <2>2. Len(states) = Len(log) + 1 BY DEF ReplicaInv
  <2>3. \A m \in Node : applied'[m] + 1 \in 1..Len(states) BY SMTT(30), <1>2, <1>4, <2>2
  <2> QED BY SMTT(30), <1>2, <2>1, <2>3
<1>6. snap' \in [Node -> [index : 0..Len(log), fsm : FSM]]
  <2>1. CASE Snapshot(n)
    <3>1. PICK t : t = [index |-> applied[n], fsm |-> Persisted(fsm[n])] OBVIOUS
    <3>2. fsm[n] \in FSM /\ applied[n] \in 0..Len(log) BY <1>2 DEF TypeOK
    <3>3. Persisted(fsm[n]) \in FSM BY <3>2 DEF Persisted, FSM
    <3>4. t \in [index : 0..Len(log), fsm : FSM] BY <3>1, <3>2, <3>3
    <3>5. snap' = [snap EXCEPT ![n] = t] BY <2>1, <3>1 DEF Snapshot
    <3> QED BY <1>2, <3>4, <3>5
  <2>2. CASE InstallSnapshot(n)
    <3>1. leader \in Node BY <1>2, <2>2 DEF InstallSnapshot
    <3>2. snap' = [snap EXCEPT ![n] = snap[leader]] BY <2>2 DEF InstallSnapshot
    <3> QED BY <1>2, <3>1, <3>2
  <2>3. CASE ApplyNext(n) \/ Crash(n) \/ Elect(n)
    BY <1>2, <2>3 DEF ApplyNext, Crash, Elect
  <2> QED BY <2>1, <2>2, <2>3
<1>7. ASSUME NEW m \in Node
      PROVE  \/ call'[m] = Idle
             \/ call'[m] \in Call /\ SameCall(m) /\ applied[m] <= applied'[m]
  <2>1. /\ call[m] \in Call /\ applied[m] \in Nat
        /\ call[m].via \in Node \cup {None}
    BY SMTT(30), <1>2 DEF Call
  <2>2. CASE ApplyNext(n) \/ Snapshot(n) \/ InstallSnapshot(n)
    <3>1. call'[m] = call[m] BY <2>2 DEF ApplyNext, Snapshot, InstallSnapshot
    <3>2. applied[m] <= applied'[m]
      <4>1. CASE ApplyNext(n)
        <5>1. applied' = [applied EXCEPT ![n] = applied[n] + 1] BY <4>1 DEF ApplyNext
        <5> QED BY SMTT(30), <1>2, <2>1, <5>1
      <4>2. CASE Snapshot(n)
        <5>1. applied' = applied BY <4>2 DEF Snapshot
        <5> QED BY SMTT(30), <2>1, <5>1
      <4>3. CASE InstallSnapshot(n)
        <5>1. leader \in Node BY <1>2, <4>3 DEF InstallSnapshot
        <5>2. snap[leader].index \in Nat BY SMTT(30), <1>2, <5>1
        <5>3. applied' = [applied EXCEPT ![n] = snap[leader].index] /\ applied[n] < snap[leader].index
          BY <4>3 DEF InstallSnapshot
        <5> QED BY SMTT(30), <1>2, <2>1, <5>2, <5>3
      <4> QED BY <2>2, <4>1, <4>2, <4>3
    <3> QED BY <2>1, <3>1, <3>2 DEF SameCall
  <2>3. ASSUME call'[m] = [call[m] EXCEPT !.via = None], applied'[m] = applied[m]
        PROVE  call'[m] \in Call /\ SameCall(m) /\ applied[m] <= applied'[m]
    <3>1. PICK c, d : c = call[m] /\ d = [c EXCEPT !.via = None] OBVIOUS
    <3>2. /\ d \in Call /\ d.pc = c.pc /\ d.source = c.source /\ d.looked = c.looked
          /\ d.read = c.read /\ d.base = c.base /\ d.cmd = c.cmd /\ d.proxy = c.proxy
          /\ d.pos = c.pos
      BY <2>1, <3>1 DEF Call
    <3> QED BY SMTT(30), <2>1, <2>3, <3>1, <3>2 DEF SameCall
  <2>4. CASE Elect(n)
    <3>1. call'[m] = [call[m] EXCEPT !.via = None] /\ applied'[m] = applied[m]
      BY <2>4 DEF Elect
    <3> QED BY <2>3, <3>1
  <2>5. CASE Crash(n)
    <3>1. CASE m = n BY <2>5, <3>1 DEF Crash
    <3>2. CASE m # n
      <4>1. applied'[m] = applied[m] BY <1>2, <2>5, <3>2 DEF Crash
      <4>2. call'[m] = IF call[m].via = n THEN [call[m] EXCEPT !.via = None] ELSE call[m]
        BY <2>5, <3>2 DEF Crash
      <4>3. CASE call[m].via # n BY SMTT(30), <2>1, <4>1, <4>2, <4>3 DEF SameCall
      <4> QED BY <2>3, <4>1, <4>2, <4>3
    <3> QED BY <3>1, <3>2
  <2> QED BY <2>2, <2>4, <2>5
<1>8. call' \in [Node -> Call]
  <2>1. Idle \in Call BY SMTT(30) DEF Idle, Call
  <2>2. \A m \in Node : call'[m] \in Call BY <1>7, <2>1
  <2>3. call' = [m \in Node |-> call'[m]]
    <3>1. CASE ApplyNext(n) \/ Snapshot(n) \/ InstallSnapshot(n)
      BY <1>2, <3>1 DEF ApplyNext, Snapshot, InstallSnapshot
    <3>2. CASE Crash(n) BY <3>2 DEF Crash
    <3>3. CASE Elect(n) BY <3>3 DEF Elect
    <3> QED BY <3>1, <3>2, <3>3
  <2> QED BY <2>2, <2>3
<1>9. TypeOK' BY <1>1, <1>3, <1>4, <1>5, <1>6, <1>8 DEF TypeOK
<1>10. KeptInv' BY <1>1 DEF KeptInv, Quiet, Current
<1>11. ASSUME NEW m \in Node PROVE ChooseInv(m)' /\ ApplyInv(m)' /\ WaitInv(m)'
  <2>1. CASE call'[m] = Idle BY <1>1, <1>2, <2>1, IdleCall
  <2>2. CASE SameCall(m) /\ applied[m] <= applied'[m]
    <3>1. /\ applied[m] \in Nat /\ applied'[m] \in Nat /\ call[m] \in Call
          /\ ChooseInv(m) /\ ApplyInv(m) /\ WaitInv(m)
      BY SMTT(30), <1>2, <1>4 DEF CallInv
    <3>2. UNCHANGED <<scenario, log, states>> BY <1>1
    <3> QED BY <2>2, <3>1, <3>2, StillCall
  <2> QED BY <1>7, <2>1, <2>2
<1> QED BY <1>9, <1>10, <1>11 DEF CallInv


\* What holds of every state: the types, the replicas, and what a call knows.
BaseInv == TypeOK /\ ReplicaInv /\ KeptInv /\ CallInv

\* The initial states.
LEMMA InitBase == Init => BaseInv
<1> SUFFICES ASSUME Init PROVE BaseInv OBVIOUS
<1>1. ReplicaInv BY InitReplica
<1>2. /\ log = << >> /\ states = <<NewFSM>> /\ Len(log) = 0 /\ Len(states) = 1
      /\ log \in Seq(Command) /\ states[1] = NewFSM
  BY SMTT(30) DEF Init
<1>3. NewFSM \in FSM
  <2>1. 0 \in 0..(Modulus - 1) BY SMTT(30), BalancerAssumption
  <2> QED BY SMTT(30), <2>1 DEF NewFSM, FSM
<1>4. Idle \in Call BY SMTT(30) DEF Idle, Call
<1>5. TypeOK
  <2>1. states \in Seq(FSM) BY SMTT(30), <1>2, <1>3
  <2>2. snap \in [Node -> [index : 0..Len(log), fsm : FSM]] BY SMTT(30), <1>2, <1>3 DEF Init
  <2>3. applied \in [Node -> 0..Len(log)] BY SMTT(30), <1>2 DEF Init
  <2> QED BY <1>2, <1>3, <1>4, <2>1, <2>2, <2>3 DEF Init, TypeOK
<1>6. KeptInv
  <2>1. \A i \in 0..Len(log) : states[i + 1] = Current BY SMTT(30), <1>2 DEF Current
  <2> QED BY <2>1 DEF KeptInv
<1>7. ASSUME NEW m \in Node PROVE ChooseInv(m) /\ ApplyInv(m) /\ WaitInv(m)
  <2>1. call[m] = Idle BY DEF Init
  <2>2. call[m].pc = "idle" /\ call[m].looked = 0 BY SMTT(30), <2>1 DEF Idle
  <2>3. call[m].looked <= Len(log) BY SMTT(30), <1>2, <2>2
  <2>4. ChooseInv(m) BY <2>2 DEF ChooseInv
  <2>5. ApplyInv(m) BY <2>2 DEF ApplyInv
  <2>6. WaitInv(m) BY <2>2, <2>3 DEF WaitInv
  <2> QED BY <2>4, <2>5, <2>6
<1> QED BY <1>1, <1>5, <1>6, <1>7 DEF BaseInv, CallInv

\* Every step.
LEMMA StepBase == ASSUME BaseInv, [Next]_vars PROVE BaseInv'
<1>1. TypeOK /\ ReplicaInv /\ KeptInv /\ CallInv BY DEF BaseInv
<1>2. ReplicaInv' BY <1>1, StepReplica
<1>3. CASE UNCHANGED vars
  <2>1. UNCHANGED <<scenario, leader, log, states, fresh, fsm, applied, snap, call, served, faults>>
    BY <1>3 DEF vars
  <2>2. TypeOK' BY <1>1, <2>1 DEF TypeOK
  <2>3. KeptInv' BY <1>1, <2>1 DEF KeptInv, Quiet, Current
  <2>4. CallInv'
    BY <1>1, <2>1 DEF CallInv, ChooseInv, ApplyInv, WaitInv, IsFresh, IsTurn, Quiet,
                      Current, NextIndex
  <2> QED BY <1>2, <2>2, <2>3, <2>4 DEF BaseInv
<1>4. ASSUME NEW n \in Node,
             NextProxy(n) \/ ApplyNext(n) \/ Snapshot(n) \/ InstallSnapshot(n)
               \/ Crash(n) \/ Elect(n)
      PROVE  TypeOK' /\ KeptInv' /\ CallInv'
  <2>1. ASSUME NEW s \in Source, HashHit(n, s) PROVE TypeOK' /\ KeptInv' /\ CallInv'
    <3>1. UNCHANGED <<scenario, leader, log, states, fresh, fsm, applied, snap, faults>>
      BY <2>1 DEF HashHit, raftVars
    <3>2. /\ served' = [served EXCEPT ![s] = fsm[n].hash[s]]
          /\ call' = [call EXCEPT ![n] = Idle]
      BY <2>1 DEF HashHit, Return
    <3>3. fsm[n] \in FSM /\ faults \in Nat /\ served \in [Source -> Proxy \cup {None}]
      BY <1>1 DEF TypeOK
    <3>4. fsm[n].hash[s] \in Proxy \cup {None} BY <3>3 DEF FSM
    <3>5. served' \in [Source -> Proxy \cup {None}] BY <3>2, <3>3, <3>4
    <3> QED BY <1>1, <3>1, <3>2, <3>3, <3>5, ReturnStep
  <2>2. ASSUME NEW s \in Source, Begin(n, s) PROVE TypeOK' /\ KeptInv' /\ CallInv'
    BY <1>1, <2>2, BeginStep
  <2>3. CASE ChooseRandom(n) BY <1>1, <2>3, RandomStep
  <2>4. CASE ChooseRoundRobin(n) BY <1>1, <2>4, RoundRobinStep
  <2>5. CASE ReadWeight(n) BY <1>1, <2>5, ReadStep
  <2>6. CASE Commit(n) BY <1>1, <1>2, <2>6, CommitStep
  <2>7. CASE Applied(n) BY <1>1, <2>7, AppliedStep
  <2>8. CASE Fail(n) BY <1>1, <2>8, FailStep
  <2>9. CASE ApplyNext(n) \/ Snapshot(n) \/ InstallSnapshot(n) \/ Crash(n) \/ Elect(n)
    BY <1>1, <1>2, <2>9, NodeStep
  <2> QED BY <1>4, <2>1, <2>2, <2>3, <2>4, <2>5, <2>6, <2>7, <2>8, <2>9 DEF NextProxy
<1> QED BY <1>2, <1>3, <1>4 DEF Next, BaseInv

\* Types: a round robin index keeps its width, and a command or an entry of
\* the table names a proxy of the group.
THEOREM BalancerTyped == Spec => []TypeOK
<1>1. BaseInv => TypeOK BY DEF BaseInv
<1> QED BY <1>1, InitBase, StepBase, PTL DEF Spec


-----------------------------------------------------------------------------
(* Consistent hashing.                                                     *)

\* What a step newly serves for a source is what the table has for it.
LEMMA Served ==
  ASSUME BaseInv, StickyInv, [Next]_vars, scenario.hash, Listed, fresh, NEW s \in Source
  PROVE  served'[s] = served[s] \/ (served'[s] # None /\ Current.hash[s] = served'[s])
<1>1. TypeOK /\ ReplicaInv /\ CallInv BY DEF BaseInv
<1>2. served \in [Source -> Proxy \cup {None}] /\ Len(log) \in Nat BY SMTT(30), <1>1 DEF TypeOK
<1>3. \A i \in 0..Len(log) : states[i + 1].hash[s] # None => Current.hash[s] = states[i + 1].hash[s]
  BY DEF StickyInv
<1>4. ASSUME NEW n \in Node, NEW t \in Source, HashHit(n, t)
      PROVE  served'[s] = served[s] \/ (served'[s] # None /\ Current.hash[s] = served'[s])
  <2>1. served' = [served EXCEPT ![t] = fsm[n].hash[t]] /\ fsm[n].hash[t] # None
    BY <1>4, Blocks, BalancerAssumption DEF HashHit, Return
  <2>2. applied[n] \in 0..Len(log) /\ fsm[n] = states[applied[n] + 1]
    BY <1>1 DEF ReplicaInv
  <2>3. CASE t = s
    <3>1. served'[s] = fsm[n].hash[s] /\ fsm[n].hash[s] # None BY <1>2, <2>1, <2>3
    <3> QED BY <1>3, <2>2, <3>1
  <2> QED BY <1>2, <2>1, <2>3
<1>5. ASSUME NEW n \in Node, Applied(n)
      PROVE  served'[s] = served[s] \/ (served'[s] # None /\ Current.hash[s] = served'[s])
  <2>1. CASE UNCHANGED served BY <2>1
  <2>2. CASE ~Recording(n) /\ Return(n, call[n].source, call[n].proxy)
    <3>1. PICK c, k, e : c = call[n] /\ k = c.pos /\ e = log[k] OBVIOUS
    <3>2. /\ c.source \in Source /\ k \in 1..Len(log) /\ c.proxy = e.proxy
          /\ e.type = "HASH" => e.source = c.source
      BY <1>1, <1>5, <3>1 DEF CallInv, WaitInv, Applied
    <3>3. e.type = "HASH" BY <2>2, <3>1 DEF Recording
    <3>4. served' = [served EXCEPT ![c.source] = c.proxy] BY <2>2, <3>1 DEF Return
    <3>5. CASE c.source = s
      <4>1. served'[s] = e.proxy BY <1>2, <3>2, <3>4, <3>5
      <4>2. e \in Command /\ states[k] \in FSM /\ states[k + 1] = FSMApply(states[k], e)
        <5>1. log \in Seq(Command) /\ states \in Seq(FSM) BY <1>1 DEF TypeOK
        <5>2. Len(states) = Len(log) + 1 /\ states[k + 1] = FSMApply(states[k], e)
          BY <1>1, <3>1, <3>2 DEF ReplicaInv
        <5>3. k \in 1..Len(states) BY SMTT(30), <1>2, <3>2, <5>2
        <5> QED BY SMTT(30), <3>1, <3>2, <5>1, <5>2, <5>3
      <4>3. e.proxy \in Proxy BY <3>3, <4>2 DEF Command
      <4>4. e.proxy # None BY <4>3, BalancerAssumption
      <4>5. states[k + 1].hash[s] =
              IF e.type = "HASH" /\ e.source = s THEN e.proxy ELSE states[k].hash[s]
        BY SMTT(30), <4>2, FSMApplied
      <4>6. states[k + 1].hash[s] = e.proxy BY <3>2, <3>3, <3>5, <4>5
      <4>7. k \in 0..Len(log) BY SMTT(30), <1>2, <3>2
      <4> QED BY <1>3, <4>1, <4>4, <4>6, <4>7
    <3> QED BY <1>2, <3>4, <3>5
  <2> QED BY <1>5, <2>1, <2>2 DEF Applied
<1>6. CASE UNCHANGED served BY <1>6
<1>7. ASSUME NEW n \in Node, ChooseRandom(n) PROVE UNCHANGED served
  BY <1>7 DEF ChooseRandom
<1>8. ASSUME NEW n \in Node,
             \/ \E t \in Source : Begin(n, t)
             \/ ChooseRoundRobin(n) \/ ReadWeight(n) \/ Commit(n) \/ Fail(n)
             \/ ApplyNext(n) \/ Snapshot(n) \/ InstallSnapshot(n) \/ Crash(n) \/ Elect(n)
      PROVE  UNCHANGED served
  BY <1>8 DEF Begin, ChooseRoundRobin, ReadWeight, Commit, Fail, ApplyNext, Snapshot,
              InstallSnapshot, Crash, Elect
<1>9. CASE UNCHANGED vars BY <1>9 DEF vars
<1> QED BY <1>4, <1>5, <1>6, <1>7, <1>8, <1>9 DEF Next, NextProxy

\* Every step but a commit leaves the log as it is.
LEMMA CommitOrKept ==
  ASSUME [Next]_vars
  PROVE  \/ \E n \in Node : Commit(n)
         \/ UNCHANGED <<scenario, log, states, fresh>>
<1>1. CASE UNCHANGED vars BY <1>1 DEF vars
<1>2. ASSUME NEW n \in Node, NEW s \in Source, HashHit(n, s) \/ Begin(n, s)
      PROVE  UNCHANGED <<scenario, log, states, fresh>>
  BY <1>2 DEF HashHit, Begin, raftVars
<1>3. ASSUME NEW n \in Node, ChooseRandom(n) \/ ChooseRoundRobin(n) \/ ReadWeight(n)
      PROVE  UNCHANGED <<scenario, log, states, fresh>>
  BY <1>3 DEF ChooseRandom, ChooseRoundRobin, ReadWeight, raftVars
<1>4. ASSUME NEW n \in Node, Applied(n) \/ Fail(n)
      PROVE  UNCHANGED <<scenario, log, states, fresh>>
  BY <1>4 DEF Applied, Fail, raftVars
<1>5. ASSUME NEW n \in Node,
             ApplyNext(n) \/ Snapshot(n) \/ InstallSnapshot(n) \/ Crash(n) \/ Elect(n)
      PROVE  UNCHANGED <<scenario, log, states, fresh>>
  BY <1>5 DEF ApplyNext, Snapshot, InstallSnapshot, Crash, Elect
<1> QED BY <1>1, <1>2, <1>3, <1>4, <1>5 DEF Next, NextProxy

\* A fresh entry of the table is made for a source that has none, if every
\* node has every proxy.
LEMMA RecordedOnce ==
  ASSUME BaseInv, Listed, NEW n \in Node, Commit(n), fresh', call[n].cmd.type = "HASH"
  PROVE  Current.hash[call[n].cmd.source] = None
<1>1. KeptInv /\ ApplyInv(n) /\ WaitInv(n) /\ call[n].pc = "apply" /\ Len(log) \in Nat
  BY SMTT(30) DEF BaseInv, CallInv, Commit, TypeOK
<1>2. PICK c, s, b : c = call[n] /\ s = c.source /\ b = c.looked OBVIOUS
<1>3. /\ scenario.hash /\ c.base = b /\ c.cmd.source = s /\ s \in Source
      /\ b <= Len(log) /\ c.cmd.type = "HASH"
      /\ states[b + 1].hash[s] \notin ProxyByBlock(n) /\ n \in scenario.callers
  BY <1>1, <1>2 DEF ApplyInv, WaitInv
<1>4. b \in Nat
  <2>1. c \in Call BY <1>2 DEF BaseInv, TypeOK
  <2> QED BY <1>2, <2>1 DEF Call
<1>5. IsFresh(c.cmd, b) BY <1>2, <1>3 DEF Commit, AppendToLog
<1>6. \A k \in (b + 1)..Len(log) : log[k].type = "HASH" => log[k].source # s
  BY <1>3, <1>5 DEF IsFresh
<1>7. b \in 0..Len(log) BY SMTT(30), <1>1, <1>3, <1>4
<1>8. states[b + 1].hash[s] = Current.hash[s] BY <1>1, <1>3, <1>6, <1>7 DEF KeptInv
<1>9. Current.hash[s] \notin Proxy
  <2>1. ProxyByBlock(n) = Proxy BY <1>3 DEF Listed
  <2> QED BY <1>3, <1>8, <2>1
<1>10. Current \in FSM
  <2>1. states \in Seq(FSM) /\ Len(states) = Len(log) + 1 BY DEF BaseInv, TypeOK, ReplicaInv
  <2> QED BY SMTT(30), <1>1, <2>1 DEF Current
<1>11. Current.hash[s] \in Proxy \cup {None} BY <1>3, <1>10 DEF FSM
<1> QED BY <1>2, <1>3, <1>9, <1>11

\* Every step.
LEMMA StepSticky ==
  ASSUME BaseInv, StickyInv, [Next]_vars
  PROVE  /\ StickyInv'
         /\ \A s \in Source :
              scenario.hash /\ Listed /\ fresh' /\ served[s] # None
                => served'[s] = served[s]
<1>1. TypeOK /\ Len(log) \in Nat BY SMTT(30) DEF BaseInv, TypeOK
<1>2. CASE UNCHANGED <<scenario, log, states, fresh>>
  <2>1. Current' = Current BY <1>2 DEF Current
  <2>0. Listed' <=> Listed BY <1>2 DEF Listed
  <2> SUFFICES ASSUME scenario.hash, Listed, fresh, NEW s \in Source
               PROVE  /\ \A i \in 0..Len(log) : states[i + 1].hash[s] # None
                           => Current.hash[s] = states[i + 1].hash[s]
                      /\ served'[s] # None => Current.hash[s] = served'[s]
                      /\ served[s] # None => served'[s] = served[s]
    BY <1>2, <2>0, <2>1 DEF StickyInv
  <2>2. /\ \A i \in 0..Len(log) : states[i + 1].hash[s] # None
             => Current.hash[s] = states[i + 1].hash[s]
        /\ served[s] # None => Current.hash[s] = served[s]
    BY DEF StickyInv
  <2>3. served'[s] = served[s] \/ (served'[s] # None /\ Current.hash[s] = served'[s])
    BY Served
  <2> QED BY <2>2, <2>3
<1>3. ASSUME NEW n \in Node, Commit(n)
      PROVE  /\ StickyInv'
             /\ \A s \in Source :
                  scenario.hash /\ Listed /\ fresh' /\ served[s] # None
                    => served'[s] = served[s]
  <2>1. UNCHANGED <<scenario, served>> BY <1>3 DEF Commit
  <2>a. Listed' <=> Listed BY <2>1 DEF Listed
  <2>2. PICK e, L : e = call[n].cmd /\ L = Len(log) OBVIOUS
  <2>3. ReplicaInv /\ ApplyInv(n) BY DEF BaseInv, CallInv
  <2>4. Grown(e) BY <1>1, <1>3, <2>2, <2>3, CommitGrown
  <2>5. /\ e \in Command /\ Current \in FSM /\ Current' = FSMApply(Current, e)
        /\ L \in Nat /\ Len(log') = L + 1
        /\ \A i \in 1..(L + 1) : states'[i] = states[i]
        /\ states'[L + 2] = Current'
    BY <2>2, <2>4 DEF Grown
  <2>6. ASSUME scenario.hash, Listed, fresh', NEW s \in Source
        PROVE  /\ \A i \in 0..(L + 1) : states'[i + 1].hash[s] # None
                    => Current'.hash[s] = states'[i + 1].hash[s]
               /\ served[s] # None => Current'.hash[s] = served[s]
    <3>1. fresh BY <1>3, <2>6 DEF Commit, AppendToLog
    <3>2. /\ \A i \in 0..L : states[i + 1].hash[s] # None
               => Current.hash[s] = states[i + 1].hash[s]
          /\ served[s] # None => Current.hash[s] = served[s]
      BY <2>2, <2>6, <3>1 DEF StickyInv
    <3>3. Current'.hash[s] =
            IF e.type = "HASH" /\ e.source = s THEN e.proxy ELSE Current.hash[s]
      BY SMTT(30), <2>5, FSMApplied
    <3>4. e.type = "HASH" /\ e.source = s => Current.hash[s] = None
      BY <1>3, <2>2, <2>6, RecordedOnce
    <3>5. Current.hash[s] # None => Current'.hash[s] = Current.hash[s] BY <3>3, <3>4
    <3>6. ASSUME NEW i \in 0..(L + 1), states'[i + 1].hash[s] # None
          PROVE  Current'.hash[s] = states'[i + 1].hash[s]
      <4>1. CASE i = L + 1
        <5>1. states'[i + 1] = Current' BY SMTT(30), <2>5, <4>1
        <5> QED BY <5>1
      <4>2. CASE i # L + 1
        <5>1. i \in 0..L /\ i + 1 \in 1..(L + 1) BY SMTT(30), <2>5, <4>2
        <5>2. states'[i + 1] = states[i + 1] BY <2>5, <5>1
        <5> QED BY <3>2, <3>5, <3>6, <5>1, <5>2
      <4> QED BY <4>1, <4>2
    <3> QED BY <3>2, <3>5, <3>6
  <2>7. StickyInv' BY <2>1, <2>a, <2>5, <2>6 DEF StickyInv
  <2> QED BY <2>1, <2>7
<1> QED BY <1>2, <1>3, CommitOrKept

\* If every accepting node has every proxy of the group, so that
\* ConsistentHash.NextProxy never misses ProxyByBlock, a source that was given
\* a proxy is given the same one again, on every node and across restarts,
\* unless some node decided from a table that was behind.
THEOREM SourceSticks == Spec => Sticky
<1>1. Init => StickyInv
  <2> SUFFICES ASSUME Init PROVE StickyInv OBVIOUS
  <2>1. Len(log) = 0 /\ Len(states) = 1 BY DEF Init
  <2>2. \A i \in 0..Len(log) : states[i + 1] = Current BY SMTT(30), <2>1 DEF Current
  <2>3. \A s \in Source : served[s] = None BY DEF Init
  <2> QED BY <2>2, <2>3 DEF StickyInv
<1>2. BaseInv /\ StickyInv /\ [Next]_vars =>
        [\A s \in Source :
           scenario.hash /\ Listed /\ fresh' /\ served[s] # None
             => served'[s] = served[s]]_vars
  BY StepSticky
<1> QED BY <1>1, <1>2, InitBase, StepBase, StepSticky, PTL DEF Spec, Sticky


-----------------------------------------------------------------------------
(* Round robin.                                                            *)

\* A multiple is at least the number itself.
LEMMA Times == ASSUME NEW K \in Nat, NEW m \in Int, m >= 1 PROVE K * m >= K
BY SMTT(30)

\* Quotient and remainder.
LEMMA DivMod ==
  ASSUME NEW x \in Nat, NEW K \in Nat, K > 0
  PROVE  x = K * (x \div K) + (x % K) /\ x % K \in Int /\ x \div K \in Int
BY SMTT(30)

\* Two numbers less than K apart have different remainders.
LEMMA Remainders ==
  ASSUME NEW x \in Nat, NEW y \in Nat, NEW K \in Nat, x < y, y < x + K
  PROVE  x % K # y % K
<1>0. K > 0 BY SMTT(30)
<1>1. PICK r \in Int, q \in Int : r = x % K /\ q = x \div K /\ x = K * q + r BY SMTT(30), <1>0, DivMod
<1>2. PICK t \in Int, u \in Int : t = y % K /\ u = y \div K /\ y = K * u + t BY SMTT(30), <1>0, DivMod
<1>3. SUFFICES ASSUME r = t PROVE FALSE BY <1>1, <1>2
<1>4. PICK m \in Int : m = u - q BY SMTT(30)
<1>5. K * m \in Int /\ K * m = K * u - K * q BY SMTT(30), <1>4
<1>6. K * m = y - x BY SMTT(30), <1>1, <1>2, <1>3, <1>5
<1>7. m >= 1
  <2>1. CASE m <= 0
    <3>1. K * m <= 0 BY SMTT(30), <2>1
    <3> QED BY SMTT(30), <1>6, <3>1
  <2> QED BY SMTT(30), <2>1
<1> QED BY SMTT(30), <1>5, <1>6, <1>7, Times

\* The index after the one d steps behind it, D of which may have followed.
LEMMA Advance ==
  ASSUME NEW M \in Nat, NEW r \in 0..(M - 1), NEW x \in 0..(M - 1), NEW d \in Nat,
         d + 1 < M, r = x + d \/ r = x + d - M
  PROVE  \/ (r + 1) % M = x + (d + 1)
         \/ (r + 1) % M = x + (d + 1) - M
<1>1. CASE r + 1 < M
  <2>1. (r + 1) % M = r + 1 BY SMTT(30), <1>1
  <2> QED BY SMTT(30), <2>1
<1>2. CASE r + 1 = M
  <2>1. M % M = 0 BY SMTT(30)
  <2>2. (r + 1) % M = 0 BY <1>2, <2>1
  <2> QED BY SMTT(30), <1>2, <2>2
<1> QED BY SMTT(30), <1>1, <1>2

\* What the group of a server is: server.Proxies has each proxy once, and
\* the index has room for them.
Group ==
  \A n \in Node : IsInjective(Order[n]) /\ Modulus >= Len(Order[n])

\* The turns at a commit.
LEMMA CommitTurn ==
  ASSUME Group, BaseInv, TurnInv, RoundRobinCycles, NEW n \in Node, Commit(n), fresh'
  PROVE  TurnInv' /\ RoundRobinCycles'
<1>1. TypeOK /\ ReplicaInv /\ ApplyInv(n) /\ call[n].pc = "apply" /\ log \in Seq(Command)
  BY DEF BaseInv, CallInv, Commit, TypeOK
<1>2. PICK e, L, r : e = call[n].cmd /\ L = Len(log) /\ r = Current.rr OBVIOUS
<1>3. Grown(e) BY <1>1, <1>2, CommitGrown
<1>4. /\ e \in Command /\ Current \in FSM /\ Current' = FSMApply(Current, e)
      /\ L \in Nat /\ Len(log') = L + 1 /\ log'[L + 1] = e
      /\ \A i \in 1..L : log'[i] = log[i]
  BY <1>2, <1>3 DEF Grown
<1>5. Current'.rr = IF e.type = "ROUND_ROBIN" THEN e.index ELSE r
  BY <1>2, <1>4, FSMApplied
<1>6. r \in 0..(Modulus - 1) /\ Modulus \in Nat /\ Modulus > 0
  BY SMTT(30), <1>2, <1>4, BalancerAssumption DEF FSM
<1>7. fresh /\ IsFresh(e, call[n].base) BY <1>2 DEF Commit, AppendToLog
<1>8. e.type = "ROUND_ROBIN" => IsTurn(e) /\ e.index = (r + 1) % Modulus
  BY <1>1, <1>2, <1>7 DEF ApplyInv, NextIndex
<1>9. ASSUME NEW i \in 1..L, log[i].type = "ROUND_ROBIN"
      PROVE  /\ log[i].index \in 0..(Modulus - 1) /\ log[i].node \in Node /\ IsTurn(log[i])
             /\ L - i < Modulus => \E d \in 0..(L - i) :
                  \/ r = log[i].index + d
                  \/ r = log[i].index + d - Modulus
  <2>1. log[i] \in Command BY SMTT(30), <1>1, <1>2, <1>9
  <2>2. log[i].index \in 0..(Modulus - 1) /\ log[i].node \in Node
    BY <1>9, <2>1 DEF Command
  <2> QED BY <1>2, <1>7, <1>9, <2>2 DEF TurnInv
<1>10. ASSUME NEW i \in 1..L, log[i].type = "ROUND_ROBIN", L + 1 - i < Modulus
       PROVE  \E d \in 0..(L - i) :
                /\ e.type = "ROUND_ROBIN" =>
                     \/ e.index = log[i].index + (d + 1)
                     \/ e.index = log[i].index + (d + 1) - Modulus
                /\ \/ r = log[i].index + d
                   \/ r = log[i].index + d - Modulus
  <2>1. L - i < Modulus BY SMTT(30), <1>4, <1>6, <1>10
  <2>2. PICK d \in 0..(L - i) :
          r = log[i].index + d \/ r = log[i].index + d - Modulus
    BY <1>9, <1>10, <2>1
  <2>3. d \in Nat /\ d + 1 < Modulus BY SMTT(30), <1>4, <1>6, <1>10
  <2>4. PICK x : x = log[i].index OBVIOUS
  <2>5. x \in 0..(Modulus - 1) BY <1>9, <1>10, <2>4
  <2>6. \/ (r + 1) % Modulus = x + (d + 1)
        \/ (r + 1) % Modulus = x + (d + 1) - Modulus
    BY <1>6, <2>2, <2>3, <2>4, <2>5, Advance
  <2> QED BY <1>8, <2>2, <2>4, <2>6
<1>11. TurnInv'
  <2> SUFFICES ASSUME NEW i \in 1..Len(log'), log'[i].type = "ROUND_ROBIN"
               PROVE  /\ IsTurn(log'[i])
                      /\ Len(log') - i < Modulus => \E d \in 0..(Len(log') - i) :
                           \/ Current'.rr = log'[i].index + d
                           \/ Current'.rr = log'[i].index + d - Modulus
    BY DEF TurnInv, IsTurn
  <2>a. Len(log') = L + 1 /\ L \in Nat BY <1>4
  <2>b. i \in 1..(L + 1) BY <2>a
  <2>c. /\ IsTurn(log'[i])
        /\ L + 1 - i < Modulus => \E d \in 0..(L + 1 - i) :
             \/ Current'.rr = log'[i].index + d
             \/ Current'.rr = log'[i].index + d - Modulus
    <3>1. CASE i = L + 1
      <4>1. log'[i] = e BY <1>4, <3>1
      <4>2. IsTurn(e) /\ Current'.rr = e.index BY <1>5, <1>8, <4>1
      <4>3. e.index \in Int BY SMTT(30), <1>6, <1>8, <4>1
      <4>4. Current'.rr = e.index + 0 /\ 0 \in 0..(L + 1 - i) BY SMTT(30), <1>4, <3>1, <4>2, <4>3
      <4> QED BY <4>1, <4>2, <4>4
    <3>2. CASE i # L + 1
      <4>1. i \in 1..L BY SMTT(30), <1>4, <3>2, <2>b
      <4>2. log'[i] = log[i] BY <1>4, <4>1
      <4>3. IsTurn(log[i]) BY <1>9, <4>1, <4>2
      <4>4. ASSUME L + 1 - i < Modulus
            PROVE  \E d \in 0..(L + 1 - i) :
                     \/ Current'.rr = log[i].index + d
                     \/ Current'.rr = log[i].index + d - Modulus
        <5>1. PICK d \in 0..(L - i) :
                /\ e.type = "ROUND_ROBIN" =>
                     \/ e.index = log[i].index + (d + 1)
                     \/ e.index = log[i].index + (d + 1) - Modulus
                /\ \/ r = log[i].index + d
                   \/ r = log[i].index + d - Modulus
          BY <1>10, <4>1, <4>2, <4>4
        <5>2. d \in 0..(L + 1 - i) /\ d + 1 \in 0..(L + 1 - i) BY SMTT(30), <1>4, <4>1
        <5> QED BY <1>5, <5>1, <5>2
      <4> QED BY <4>2, <4>3, <4>4
    <3> QED BY <3>1, <3>2
  <2>d. ASSUME Len(log') - i < Modulus
        PROVE  \E d \in 0..(Len(log') - i) :
                 \/ Current'.rr = log'[i].index + d
                 \/ Current'.rr = log'[i].index + d - Modulus
    <3>1. L + 1 - i < Modulus BY SMTT(30), <2>a, <2>d
    <3>2. PICK d \in 0..(L + 1 - i) :
            \/ Current'.rr = log'[i].index + d
            \/ Current'.rr = log'[i].index + d - Modulus
      BY <2>c, <3>1
    <3>3. d \in 0..(Len(log') - i) BY SMTT(30), <2>a
    <3> QED BY <3>2, <3>3
  <2> QED BY <2>c, <2>d
<1>12. ASSUME NEW i \in 1..L, log[i].type = "ROUND_ROBIN", e.type = "ROUND_ROBIN",
              log[i].node = e.node, L + 1 < i + Len(Order[e.node]),
              log[i].index <= e.index
       PROVE  log[i].proxy # e.proxy
  <2>1. PICK x, y, o, K : x = log[i].index /\ y = e.index /\ o = Order[e.node] /\ K = Len(o)
    OBVIOUS
  <2>2. x \in 0..(Modulus - 1) /\ e.node \in Node BY <1>9, <1>12, <2>1
  <2>3. L + 1 < i + K BY <1>12, <2>1
  <2>4. /\ o \in Seq(Proxy) /\ o # << >> /\ K \in Nat /\ K <= Modulus
        /\ IsInjective(o) /\ DOMAIN o = 1..K
    BY SMTT(30), <2>1, <2>2, BalancerAssumption DEF Group
  <2>5. K > 0 BY SMTT(30), <2>1, <2>4
  <2>6. L + 1 - i < Modulus BY SMTT(30), <1>4, <1>6, <2>3, <2>4
  <2>7. PICK d \in 0..(L - i) : y = x + (d + 1) \/ y = x + (d + 1) - Modulus
    BY <1>10, <1>12, <2>1, <2>6
  <2>8. x \in Nat /\ d \in Nat /\ d + 1 < Modulus /\ d + 1 < K /\ x <= y
    BY SMTT(30), <1>4, <1>6, <1>12, <2>1, <2>2, <2>3, <2>4
  <2>9. y = x + (d + 1) BY SMTT(30), <1>6, <2>7, <2>8
  <2>10. y \in Nat /\ x < y /\ y < x + K BY SMTT(30), <2>4, <2>8, <2>9
  <2>11. x % K # y % K BY <2>4, <2>8, <2>10, Remainders
  <2>12. PICK u, v : u = x % K /\ v = y % K OBVIOUS
  <2>13. u \in 0..(K - 1) /\ v \in 0..(K - 1) /\ u # v BY SMTT(30), <2>4, <2>5, <2>8, <2>10, <2>11, <2>12
  <2>14. u + 1 \in 1..K /\ v + 1 \in 1..K /\ u + 1 # v + 1 BY SMTT(30), <2>4, <2>13
  <2>15. log[i].proxy = o[u + 1] /\ e.proxy = o[v + 1]
    BY <1>8, <1>9, <1>12, <2>1, <2>12 DEF IsTurn
  <2> QED BY <2>4, <2>14, <2>15 DEF IsInjective
<1>13. RoundRobinCycles'
  <2> SUFFICES ASSUME NEW i \in 1..(L + 1), NEW j \in 1..(L + 1),
                      log'[i].type = "ROUND_ROBIN", log'[j].type = "ROUND_ROBIN",
                      log'[i].node = log'[j].node, i < j,
                      j < i + Len(Order[log'[i].node]),
                      log'[i].index <= log'[j].index
               PROVE  log'[i].proxy # log'[j].proxy
    <3>1. DOMAIN log' = 1..(L + 1)
      <4>1. log' \in Seq(Command) BY <1>1, CommitGrown
      <4> QED BY SMTT(30), <1>4, <4>1
    <3> QED BY <3>1 DEF RoundRobinCycles
  <2>1. i \in 1..L /\ log'[i] = log[i] BY SMTT(30), <1>4
  <2>2. CASE j = L + 1
    <3>1. log'[j] = e BY <1>4, <2>2
    <3> QED BY <1>12, <2>1, <2>2, <3>1
  <2>3. CASE j # L + 1
    <3>1. j \in 1..L /\ log'[j] = log[j] BY SMTT(30), <1>4, <2>3
    <3>2. i \in DOMAIN log /\ j \in DOMAIN log BY SMTT(30), <1>1, <1>2, <2>1, <3>1
    <3> QED BY <1>7, <2>1, <3>1, <3>2 DEF RoundRobinCycles
  <2> QED BY <2>2, <2>3
<1> QED BY <1>11, <1>13

\* Within a cycle one node does not choose a proxy twice.
THEOREM TurnsCycle == ASSUME Group PROVE Spec => []RoundRobinCycles
<1>1. Init => TurnInv /\ RoundRobinCycles
  <2> SUFFICES ASSUME Init PROVE TurnInv /\ RoundRobinCycles OBVIOUS
  <2>1. Len(log) = 0 /\ DOMAIN log = {} BY SMTT(30) DEF Init
  <2> QED BY SMTT(30), <2>1 DEF TurnInv, RoundRobinCycles
<1>2. BaseInv /\ TurnInv /\ RoundRobinCycles /\ [Next]_vars => TurnInv' /\ RoundRobinCycles'
  <2> SUFFICES ASSUME BaseInv, TurnInv, RoundRobinCycles, [Next]_vars
               PROVE  TurnInv' /\ RoundRobinCycles'
    OBVIOUS
  <2>1. CASE UNCHANGED <<scenario, log, states, fresh>>
    BY <2>1 DEF TurnInv, RoundRobinCycles, Current, IsTurn
  <2>2. CASE ~fresh' BY <2>2 DEF TurnInv, RoundRobinCycles
  <2>3. ASSUME NEW n \in Node, Commit(n), fresh' PROVE TurnInv' /\ RoundRobinCycles'
    BY <2>3, CommitTurn
  <2> QED BY <2>1, <2>2, <2>3, CommitOrKept
<1> QED BY <1>1, <1>2, InitBase, StepBase, PTL DEF Spec


-----------------------------------------------------------------------------
(* Weighted round robin.                                                   *)

\* Counting positions of a log that grows by one entry.
LEMMA CountNext ==
  ASSUME NEW L \in Nat, NEW S \in SUBSET (1..L)
  PROVE  /\ Cardinality(S) \in Nat
         /\ Cardinality(S \cup {L + 1}) = Cardinality(S) + 1
<1>1. IsFiniteSet(1..L) BY SMTT(30), FS_Interval
<1>2. IsFiniteSet(S) BY <1>1, FS_Subset
<1>3. L + 1 \notin S BY SMTT(30)
<1> QED BY <1>2, <1>3, FS_AddElement, FS_CardinalityType

\* The counts of a log that grew by a command.
LEMMA CountsGrown ==
  ASSUME NEW e, Grown(e), NEW p, NEW L, L = Len(log)
  PROVE  /\ \A k \in 0..L : Rounds(k)' = Rounds(k) /\ Picks(k, p)' = Picks(k, p)
         /\ Rounds(L) \in Nat /\ Picks(L, p) \in Nat
         /\ Rounds(L + 1)' = IF e.type = "WEIGHTED_ROUND_ROBIN"
                             THEN Rounds(L) + 1 ELSE Rounds(L)
         /\ Picks(L + 1, p)' = IF e.type = "WEIGHTED_ROUND_ROBIN" /\ e.proxy = p
                               THEN Picks(L, p) + 1 ELSE Picks(L, p)
<1>2. L \in Nat /\ log'[L + 1] = e /\ \A i \in 1..L : log'[i] = log[i] BY DEF Grown
<1>3. ASSUME NEW k \in 0..L
      PROVE  /\ {i \in 1..k : log'[i].type = "WEIGHTED_ROUND_ROBIN"} =
                {i \in 1..k : log[i].type = "WEIGHTED_ROUND_ROBIN"}
             /\ {i \in 1..k : log'[i].type = "WEIGHTED_ROUND_ROBIN" /\ log'[i].proxy = p} =
                {i \in 1..k : log[i].type = "WEIGHTED_ROUND_ROBIN" /\ log[i].proxy = p}
  <2>1. \A i \in 1..k : log'[i] = log[i] BY SMTT(30), <1>2
  <2> QED BY <2>1
<1>4. PICK S, T : /\ S = {i \in 1..L : log[i].type = "WEIGHTED_ROUND_ROBIN"}
                  /\ T = {i \in 1..L : log[i].type = "WEIGHTED_ROUND_ROBIN" /\ log[i].proxy = p}
  OBVIOUS
<1>5. S \in SUBSET (1..L) /\ T \in SUBSET (1..L) BY <1>4
<1>6. Rounds(L) = Cardinality(S) /\ Picks(L, p) = Cardinality(T)
  BY <1>4 DEF Rounds, Picks
<1>7. {i \in 1..(L + 1) : log'[i].type = "WEIGHTED_ROUND_ROBIN"} =
        IF e.type = "WEIGHTED_ROUND_ROBIN" THEN S \cup {L + 1} ELSE S
  <2>1. \A i : i \in 1..(L + 1) <=> i \in 1..L \/ i = L + 1 BY SMTT(30), <1>2
  <2>2. CASE e.type = "WEIGHTED_ROUND_ROBIN" BY <1>2, <1>4, <2>1, <2>2
  <2>3. CASE e.type # "WEIGHTED_ROUND_ROBIN" BY <1>2, <1>4, <2>1, <2>3
  <2> QED BY <2>2, <2>3
<1>8. {i \in 1..(L + 1) : log'[i].type = "WEIGHTED_ROUND_ROBIN" /\ log'[i].proxy = p} =
        IF e.type = "WEIGHTED_ROUND_ROBIN" /\ e.proxy = p THEN T \cup {L + 1} ELSE T
  <2>1. \A i : i \in 1..(L + 1) <=> i \in 1..L \/ i = L + 1 BY SMTT(30), <1>2
  <2>2. CASE e.type = "WEIGHTED_ROUND_ROBIN" /\ e.proxy = p BY <1>2, <1>4, <2>1, <2>2
  <2>3. CASE ~(e.type = "WEIGHTED_ROUND_ROBIN" /\ e.proxy = p) BY <1>2, <1>4, <2>1, <2>3
  <2> QED BY <2>2, <2>3
<1>9. /\ Cardinality(S) \in Nat /\ Cardinality(S \cup {L + 1}) = Cardinality(S) + 1
      /\ Cardinality(T) \in Nat /\ Cardinality(T \cup {L + 1}) = Cardinality(T) + 1
  BY <1>2, <1>5, CountNext
<1>10. \A k \in 0..L : Rounds(k)' = Rounds(k) /\ Picks(k, p)' = Picks(k, p)
  BY <1>3 DEF Rounds, Picks
<1>11. Rounds(L + 1)' = IF e.type = "WEIGHTED_ROUND_ROBIN" THEN Rounds(L) + 1 ELSE Rounds(L)
  <2>1. Rounds(L + 1)' = Cardinality({i \in 1..(L + 1) : log'[i].type = "WEIGHTED_ROUND_ROBIN"})
    BY DEF Rounds
  <2> QED BY <1>6, <1>7, <1>9, <2>1
<1>12. Picks(L + 1, p)' = IF e.type = "WEIGHTED_ROUND_ROBIN" /\ e.proxy = p
                          THEN Picks(L, p) + 1 ELSE Picks(L, p)
  <2>1. Picks(L + 1, p)' = Cardinality({i \in 1..(L + 1) :
          log'[i].type = "WEIGHTED_ROUND_ROBIN" /\ log'[i].proxy = p})
    BY DEF Picks
  <2> QED BY <1>6, <1>8, <1>9, <2>1
<1> QED BY <1>6, <1>9, <1>10, <1>11, <1>12

\* A current weight after one more choice.
LEMMA Owed ==
  ASSUME NEW R \in Int, NEW P \in Int, NEW W \in Int, NEW T \in Int
  PROVE  /\ (R * W - P * T) + W = (R + 1) * W - P * T
         /\ (R * W - P * T) + W - T = (R + 1) * W - (P + 1) * T
BY SMTT(30)

\* The current weight w of a proxy that was chosen P times in R rounds.
Owes(p, w, R, P) == w = R * Weight[p] - P * TotalWeight

\* The weights at a commit.
LEMMA CommitShare ==
  ASSUME IsInjective(Proxies), BaseInv, ShareInv, NEW n \in Node, Commit(n), fresh'
  PROVE  ShareInv'
<1>1. TypeOK /\ ReplicaInv /\ ApplyInv(n) /\ call[n].pc = "apply"
  BY DEF BaseInv, CallInv, Commit
<1>2. PICK e, L, w : e = call[n].cmd /\ L = Len(log) /\ w = Current.wrr OBVIOUS
<1>3. Grown(e) BY <1>1, <1>2, CommitGrown
<1>4. /\ e \in Command /\ Current \in FSM /\ Current' = FSMApply(Current, e)
      /\ L \in Nat /\ Len(log') = L + 1 /\ Len(states) = L + 1
      /\ \A i \in 1..(L + 1) : states'[i] = states[i]
      /\ states'[L + 2] = Current'
  BY <1>2, <1>3 DEF Grown
<1>5. Current'.wrr = IF e.type = "WEIGHTED_ROUND_ROBIN" THEN e.updates ELSE w
  BY SMTT(30), <1>2, <1>4, FSMApplied
<1>6. w \in [Proxy -> Int] BY <1>2, <1>4 DEF FSM
<1>7. fresh /\ IsFresh(e, call[n].base) BY <1>2 DEF Commit, AppendToLog
<1>8. e.type = "WEIGHTED_ROUND_ROBIN" => e = WeightedCommand(w)
  BY <1>1, <1>2, <1>7 DEF ApplyInv
<1>9. \A k \in 0..L : /\ SumOver(states[k + 1].wrr) = 0
                      /\ \A p \in Proxy : /\ Owes(p, states[k + 1].wrr[p], Rounds(k), Picks(k, p))
                                          /\ states[k + 1].wrr[p] > -TotalWeight
  BY <1>2, <1>7 DEF ShareInv, Owes
<1>10. states[L + 1].wrr = w /\ L \in 0..L
  <2>1. Current = states[L + 1] BY <1>4 DEF Current
  <2>2. L \in 0..L BY SMTT(30), <1>4
  <2> QED BY <1>2, <2>1, <2>2
<1>11. SumOver(w) = 0 /\ \A p \in Proxy : Owes(p, w[p], Rounds(L), Picks(L, p)) /\ w[p] > -TotalWeight
  BY <1>9, <1>10
<1>12. ASSUME NEW p \in Proxy
       PROVE  /\ \A k \in 0..L : Rounds(k)' = Rounds(k) /\ Picks(k, p)' = Picks(k, p)
              /\ Rounds(L) \in Nat /\ Picks(L, p) \in Nat
              /\ Rounds(L + 1)' = IF e.type = "WEIGHTED_ROUND_ROBIN"
                                  THEN Rounds(L) + 1 ELSE Rounds(L)
              /\ Picks(L + 1, p)' =
                   IF e.type = "WEIGHTED_ROUND_ROBIN" /\ e.proxy = p
                   THEN Picks(L, p) + 1 ELSE Picks(L, p)
  BY <1>2, <1>3, CountsGrown
<1>13. ASSUME NEW k \in 0..L
       PROVE  /\ SumOver(states'[k + 1].wrr) = 0
              /\ \A p \in Proxy : /\ Owes(p, states'[k + 1].wrr[p], Rounds(k)', Picks(k, p)')
                                  /\ states'[k + 1].wrr[p] > -TotalWeight
  <2>1. states'[k + 1] = states[k + 1]
    <3>1. k + 1 \in 1..(L + 1) BY SMTT(30), <1>4
    <3> QED BY <1>4, <3>1
  <2>2. ASSUME NEW p \in Proxy PROVE Owes(p, states'[k + 1].wrr[p], Rounds(k)', Picks(k, p)')
    <3>1. Owes(p, states[k + 1].wrr[p], Rounds(k), Picks(k, p)) BY <1>9
    <3>2. Rounds(k)' = Rounds(k) /\ Picks(k, p)' = Picks(k, p) BY <1>12
    <3> QED BY <2>1, <3>1, <3>2
  <2> QED BY <1>9, <2>1, <2>2
<1>14. /\ SumOver(Current'.wrr) = 0
       /\ \A p \in Proxy : /\ Owes(p, Current'.wrr[p], Rounds(L + 1)', Picks(L + 1, p)')
                           /\ Current'.wrr[p] > -TotalWeight
  <2>1. CASE e.type # "WEIGHTED_ROUND_ROBIN"
    <3>1. Current'.wrr = w BY <1>5, <2>1
    <3>2. \A p \in Proxy : Rounds(L + 1)' = Rounds(L) /\ Picks(L + 1, p)' = Picks(L, p)
      BY <1>12, <2>1
    <3> QED BY <1>11, <3>1, <3>2
  <2>2. CASE e.type = "WEIGHTED_ROUND_ROBIN"
    <3>1. e = WeightedCommand(w) /\ Current'.wrr = e.updates BY <1>5, <1>8, <2>2
    <3>2. \A p \in Proxy : w[p] > -TotalWeight BY <1>11
    <3>3. SumOver(e.updates) = 0 /\ \A p \in Proxy : e.updates[p] > -TotalWeight
      BY <1>6, <1>11, <3>1, <3>2, ChargedBalanced
    <3>4. ASSUME NEW p \in Proxy
          PROVE  Owes(p, e.updates[p], Rounds(L + 1)', Picks(L + 1, p)')
      <4>1. PICK R, P, W, T : /\ R = Rounds(L) /\ P = Picks(L, p)
                              /\ W = Weight[p] /\ T = TotalWeight
        OBVIOUS
      <4>2. R \in Int /\ P \in Int BY SMTT(30), <1>12, <4>1
      <4>3. W \in Int /\ T \in Int BY SMTT(30), <4>1, SumWeights, BalancerAssumption
      <4>4. w[p] = R * W - P * T BY <1>11, <4>1 DEF Owes
      <4>5. e.proxy = Selected(w) /\ e.updates[p] =
              IF p = Selected(w) THEN w[p] + W - T ELSE w[p] + W
        BY <1>6, <3>1, <4>1, Charged
      <4>6. Rounds(L + 1)' = R + 1 BY <1>12, <2>2, <4>1
      <4>7. CASE e.proxy = p
        <5>1. Picks(L + 1, p)' = P + 1 BY <1>12, <2>2, <4>1, <4>7
        <5>2. e.updates[p] = (R * W - P * T) + W - T BY <4>4, <4>5, <4>7
        <5>3. e.updates[p] = (R + 1) * W - (P + 1) * T BY SMTT(30), <4>2, <4>3, <5>2, Owed
        <5> QED BY <4>1, <4>6, <5>1, <5>3 DEF Owes
      <4>8. CASE e.proxy # p
        <5>1. Picks(L + 1, p)' = P BY <1>12, <2>2, <4>1, <4>8
        <5>2. e.updates[p] = (R * W - P * T) + W BY <4>4, <4>5, <4>8
        <5>3. e.updates[p] = (R + 1) * W - P * T BY SMTT(30), <4>2, <4>3, <5>2, Owed
        <5> QED BY <4>1, <4>6, <5>1, <5>3 DEF Owes
      <4> QED BY <4>7, <4>8
    <3> QED BY <3>1, <3>3, <3>4
  <2> QED BY <2>1, <2>2
<1>15. ASSUME NEW k \in 0..(L + 1)
       PROVE  /\ SumOver(states'[k + 1].wrr) = 0
              /\ \A p \in Proxy : /\ Owes(p, states'[k + 1].wrr[p], Rounds(k)', Picks(k, p)')
                                  /\ states'[k + 1].wrr[p] > -TotalWeight
  <2>1. CASE k = L + 1
    <3>1. states'[k + 1] = Current' BY SMTT(30), <1>4, <2>1
    <3> QED BY <1>14, <2>1, <3>1
  <2>2. CASE k # L + 1
    <3>1. k \in 0..L BY SMTT(30), <1>4, <2>2
    <3> QED BY <1>13, <3>1
  <2> QED BY <2>1, <2>2
<1> QED BY <1>4, <1>15 DEF ShareInv, Owes


\* A multiple of T that is above -T is not negative.
LEMMA Multiple ==
  ASSUME NEW T \in Int, T > 0, NEW m \in Int, T * m > -T
  PROVE  T * m >= 0
<1>1. CASE m <= -1
  <2>1. PICK j \in Int : j = -m BY SMTT(30)
  <2>2. T * j >= T BY SMTT(30), <1>1, <2>1, Times
  <2>3. T * j = -(T * m) /\ T * m \in Int BY SMTT(30), <2>1
  <2> QED BY SMTT(30), <2>2, <2>3
<1>2. CASE m >= 0 BY SMTT(30), <1>2
<1> QED BY SMTT(30), <1>1, <1>2

\* What the weights say about the choices.
LEMMA Shares ==
  ASSUME BaseInv, ShareInv, fresh, NEW k \in 0..Len(log), NEW p \in Proxy
  PROVE  /\ Picks(k, p) * TotalWeight < Rounds(k) * Weight[p] + TotalWeight
         /\ Rounds(k) % TotalWeight = 0
              => Picks(k, p) * TotalWeight = Rounds(k) * Weight[p]
<1>1. PICK R, T, w : R = Rounds(k) /\ T = TotalWeight /\ w = states[k + 1].wrr OBVIOUS
<1>2. log \in Seq(Command) /\ states \in Seq(FSM) /\ Len(states) = Len(log) + 1 /\ Len(log) \in Nat
  BY SMTT(30) DEF BaseInv, TypeOK, ReplicaInv
<1>3. T \in Int /\ T > 0 BY <1>1, SumWeights
<1>4. k \in Nat BY SMTT(30), <1>2
<1>5. R \in Nat /\ \A q \in Proxy : Picks(k, q) \in Nat
  <2>1. {i \in 1..k : log[i].type = "WEIGHTED_ROUND_ROBIN"} \in SUBSET (1..k) OBVIOUS
  <2>2. R \in Nat BY <1>1, <1>4, <2>1, CountNext DEF Rounds
  <2>3. ASSUME NEW q \in Proxy PROVE Picks(k, q) \in Nat
    <3>1. {i \in 1..k : /\ log[i].type = "WEIGHTED_ROUND_ROBIN"
                        /\ log[i].proxy = q} \in SUBSET (1..k)
      OBVIOUS
    <3> QED BY <1>4, <3>1, CountNext DEF Picks
  <2> QED BY <2>2, <2>3
<1>6. w \in [Proxy -> Int]
  <2>1. k + 1 \in 1..Len(states) BY SMTT(30), <1>2
  <2>2. states[k + 1] \in FSM BY SMTT(30), <1>2, <2>1
  <2> QED BY <1>1, <2>2 DEF FSM
<1>7. /\ SumOver(w) = 0
      /\ \A q \in Proxy : w[q] = R * Weight[q] - Picks(k, q) * T /\ w[q] > -T
  BY <1>1 DEF ShareInv
<1>8. \A q \in Proxy : Weight[q] \in Int BY SMTT(30), BalancerAssumption
<1>9. PICK P, W : P = Picks(k, p) /\ W = Weight[p] OBVIOUS
<1>10. P \in Int /\ W \in Int /\ w[p] = R * W - P * T /\ w[p] > -T
  <2>1. P \in Nat BY <1>5, <1>9
  <2>2. P \in Int BY SMTT(30), <2>1
  <2>3. W \in Int BY <1>8, <1>9
  <2>4. w[p] = R * W - P * T /\ w[p] > -T BY <1>7, <1>9
  <2> QED BY <2>2, <2>3, <2>4
<1>11. R * W \in Int /\ P * T \in Int BY SMTT(30), <1>3, <1>5, <1>10
<1>12. P * T < R * W + T BY SMTT(30), <1>3, <1>10, <1>11
<1>13. ASSUME R % T = 0 PROVE P * T = R * W
  <2>1. PICK q \in Int : R = T * q
    <3>1. T \in Nat BY SMTT(30), <1>3
    <3>2. R = T * (R \div T) + (R % T) /\ R \div T \in Int BY <1>3, <1>5, <3>1, DivMod
    <3>3. PICK u \in Int : u = R \div T BY <3>2
    <3>4. R = T * u + 0 /\ T * u \in Int BY SMTT(30), <1>3, <1>13, <3>2, <3>3
    <3> QED BY SMTT(30), <3>4
  <2>2. ASSUME NEW x \in Proxy PROVE w[x] >= 0
    <3>1. PICK V, Q : V = Weight[x] /\ Q = Picks(k, x) OBVIOUS
    <3>2. V \in Int /\ Q \in Int /\ w[x] = R * V - Q * T /\ w[x] > -T
      BY SMTT(30), <1>5, <1>7, <1>8, <3>1
    <3>3. PICK m \in Int : m = q * V - Q BY SMTT(30), <3>2
    <3>4. (T * q) * V - Q * T = T * (q * V - Q) BY SMTT(30), <1>3, <3>2
    <3>5. w[x] = T * m BY <2>1, <3>2, <3>3, <3>4
    <3> QED BY <1>3, <3>2, <3>5, Multiple
  <2>3. PICK z : z = [x \in Proxy |-> 0] OBVIOUS
  <2>4. z \in [Proxy -> Int] /\ \A x \in Proxy : z[x] = 0 BY SMTT(30), <2>3
  <2>5. SumOver(z) = 0 BY <2>3, SumWeights
  <2>6. \A x \in Proxy : z[x] <= w[x] BY <2>2, <2>4
  <2>7. ~(z[p] < w[p])
    <3>1. (\E x \in Proxy : z[x] < w[x]) => SumOver(z) < SumOver(w)
      BY <1>6, <2>4, <2>6, SumMonotone
    <3> QED BY SMTT(30), <1>7, <2>5, <3>1
  <2>8. w[p] = 0 BY SMTT(30), <1>6, <2>2, <2>4, <2>7
  <2> QED BY SMTT(30), <1>10, <1>11, <2>8
<1> QED BY <1>1, <1>9, <1>12, <1>13

\* As long as every command was computed from the current state, the current
\* weight of a proxy is what its weight added up to less what its choices
\* cost, and the weights sum up to 0: NextProxy takes from the selected proxy
\* what it gave to all of them.
THEOREM WeightsAccounted == ASSUME IsInjective(Proxies) PROVE Spec => []ShareInv
<1>1. Init => ShareInv
  <2> SUFFICES ASSUME Init PROVE ShareInv OBVIOUS
  <2>1. Len(log) = 0 /\ states = <<NewFSM>> BY DEF Init
  <2>2. PICK z : z = [q \in Proxy |-> 0] OBVIOUS
  <2>3. SumOver(z) = 0 /\ TotalWeight \in Int /\ TotalWeight > 0 BY <2>2, SumWeights
  <2>4. states[1].wrr = z BY <2>1, <2>2 DEF NewFSM
  <2>5. Rounds(0) = 0 /\ \A p \in Proxy : Picks(0, p) = 0
    <3>1. 1..0 = {} BY SMTT(30)
    <3> QED BY <3>1, FS_EmptySet DEF Rounds, Picks
  <2>6. \A p \in Proxy : z[p] = 0 /\ Weight[p] \in Int BY SMTT(30), <2>2, BalancerAssumption
  <2>7. \A p \in Proxy : 0 = 0 * Weight[p] - 0 * TotalWeight /\ 0 > -TotalWeight
    BY SMTT(30), <2>3, <2>6
  <2>8. ASSUME NEW k \in 0..Len(log)
        PROVE  /\ SumOver(states[k + 1].wrr) = 0
               /\ \A p \in Proxy :
                    /\ states[k + 1].wrr[p] = Rounds(k) * Weight[p] - Picks(k, p) * TotalWeight
                    /\ states[k + 1].wrr[p] > -TotalWeight
    <3>1. k = 0 BY SMTT(30), <2>1
    <3>2. states[k + 1].wrr = z BY SMTT(30), <2>4, <3>1
    <3> QED BY <2>3, <2>5, <2>6, <2>7, <3>1, <3>2
  <2> QED BY <2>8 DEF ShareInv
<1>2. BaseInv /\ ShareInv /\ [Next]_vars => ShareInv'
  <2> SUFFICES ASSUME BaseInv, ShareInv, [Next]_vars PROVE ShareInv' OBVIOUS
  <2>1. CASE UNCHANGED <<scenario, log, states, fresh>>
    <3>1. \A k : Rounds(k)' = Rounds(k) BY <2>1 DEF Rounds
    <3>2. \A k, p : Picks(k, p)' = Picks(k, p) BY <2>1 DEF Picks
    <3> QED BY <2>1, <3>1, <3>2 DEF ShareInv
  <2>2. CASE ~fresh' BY <2>2 DEF ShareInv
  <2>3. ASSUME NEW n \in Node, Commit(n), fresh' PROVE ShareInv' BY <2>3, CommitShare
  <2> QED BY <2>1, <2>2, <2>3, CommitOrKept
<1> QED BY <1>1, <1>2, InitBase, StepBase, PTL DEF Spec

\* A proxy is never a whole choice ahead of its share, and each full cycle
\* gives it exactly its weight, as long as every command was computed from
\* the current state.
THEOREM SharesKept == ASSUME IsInjective(Proxies) PROVE Spec => []WeightedShare
<1>1. Spec => []ShareInv BY WeightsAccounted
<1>2. BaseInv /\ ShareInv => WeightedShare
  <2> SUFFICES ASSUME BaseInv, ShareInv PROVE WeightedShare OBVIOUS
  <2> QED BY Shares DEF WeightedShare
<1> QED BY <1>1, <1>2, InitBase, StepBase, PTL DEF Spec

=============================================================================
