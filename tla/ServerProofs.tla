---------------------------- MODULE ServerProofs ----------------------------
(***************************************************************************)
(* While the server runs, a connection that has ended left nothing behind, *)
(* for every set of connections and every pool size.                       *)
(***************************************************************************)
EXTENDS Server, FiniteSetTheorems, TLAPS

\* SMT, then Zenon, with their time limits in seconds.
USE SMTT(30), ZenonT(60)

\* Init establishes the inductive invariant.
LEMMA InitLife == Init => LifeInv
  BY DEF Init, LifeInv, StoppedFirst, Holds

\* Every step preserves the inductive invariant.
LEMMA StepLife ==
  ASSUME LifeInv, [Next]_vars
  PROVE  LifeInv'
<1> USE DEF LifeInv, StoppedFirst, Holds
<1>1. CASE RunBoot BY <1>1 DEF RunBoot, stopVars, connVars, poolVars, appVars
<1>2. CASE RunListen
  BY <1>2 DEF RunListen, stopVars, connVars, poolVars, appVars
<1>2a. CASE RunAddress
  BY <1>2a DEF RunAddress, stopVars, connVars, poolVars, appVars
<1>3. CASE RunInit BY <1>3 DEF RunInit, connVars, poolVars, appVars
<1>4. CASE RunStart BY <1>4 DEF RunStart, stopVars, connVars, poolVars, appVars
<1>5. CASE RunSelect
  BY <1>5 DEF RunSelect, Receivable, Received, connVars, poolVars, appVars
<1>6. CASE RunAccept BY <1>6 DEF RunAccept, flagVars, stopVars, poolVars, appVars
<1>7. CASE RunOpen BY <1>7 DEF RunOpen, flagVars, stopVars, appVars
<1>8. CASE RunCount BY <1>8 DEF RunCount, flagVars, stopVars, poolVars, appVars
<1>9. ASSUME NEW c \in Conn, TrafficEnd(c) PROVE LifeInv'
  BY <1>9 DEF TrafficEnd, runVars, flagVars, stopVars, poolVars, appVars
<1>10. ASSUME NEW c \in Conn, OnClose(c) PROVE LifeInv'
  <2>1. CASE Decrement(c)
    BY <2>1 DEF Decrement, runVars, flagVars, stopVars, poolVars, appVars
  <2>2. CASE CloseCount(c)
    BY <2>2 DEF CloseCount, runVars, flagVars, stopVars, poolVars, appVars
  <2>3. CASE CloseLast(c)
    BY <2>3 DEF CloseLast, runVars, flagVars, stopVars, poolVars, appVars
  <2>4. CASE CloseDisconnect(c)
    BY <2>4 DEF CloseDisconnect, runVars, flagVars, stopVars, poolVars, appVars
  <2>5. CASE CloseUnmap(c)
    BY <2>5 DEF CloseUnmap, runVars, flagVars, stopVars, poolVars, appVars
  <2> QED BY <1>10, <2>1, <2>2, <2>3, <2>4, <2>5 DEF OnClose
<1>11. CASE StopperReceive
  BY <1>11 DEF StopperReceive, Receivable, Received, runVars, flagVars,
               connVars, poolVars, appVars
<1>12. CASE StopperShutdown
  BY <1>12 DEF StopperShutdown, runVars, connVars, poolVars, appVars
<1>13. CASE TickerSelect
  BY <1>13 DEF TickerSelect, Receivable, Received, runVars, flagVars,
               connVars, poolVars, appVars
<1>14. CASE Shutdown
  <2>1. CASE ShutdownStatus
    BY <2>1 DEF ShutdownStatus, runVars, connVars, poolVars, appVars
  <2>2. CASE ShutdownRunning
    BY <2>2 DEF ShutdownRunning, runVars, connVars, poolVars, appVars
  <2>3. CASE ShutdownProxies
    BY <2>3 DEF ShutdownProxies, runVars, flagVars, connVars, appVars
  <2>4. CASE ShutdownListener
    BY <2>4 DEF ShutdownListener, runVars, connVars, poolVars, appVars
  <2>5. CASE ShutdownClose
    BY <2>5 DEF ShutdownClose, runVars, flagVars, connVars, poolVars, appVars
  <2> QED BY <1>14, <2>1, <2>2, <2>3, <2>4, <2>5 DEF Shutdown
<1>15. CASE Signal \/ RunFailed
  BY <1>15 DEF Signal, RunFailed, StopGracefully, runVars, flagVars, connVars,
               poolVars, appVars
<1>16. CASE Exit \/ SignalAgain \/ RunFailedAgain
  BY <1>16 DEF Exit, SignalAgain, RunFailedAgain, ExitSecond, runVars,
               flagVars, stopVars, connVars, poolVars, appVars
<1>17. CASE UNCHANGED vars BY <1>17 DEF vars
<1> QED
  BY <1>1, <1>2, <1>2a, <1>3, <1>4, <1>5, <1>6, <1>7, <1>8, <1>9, <1>10,
     <1>11, <1>12, <1>13, <1>14, <1>15, <1>16, <1>17 DEF Next, Run

\* While the server runs, a connection whose goroutine has ended holds no
\* backend client, is not mapped and has its socket closed, unless Connect
\* failed for it with another error than an exhausted pool.
THEOREM Finished == Spec => []CleanFinish
<1>1. LifeInv /\ [Next]_vars => LifeInv' BY StepLife
<1>2. LifeInv => CleanFinish BY DEF LifeInv, Holds, CleanFinish
<1> QED BY InitLife, <1>1, <1>2, PTL DEF Spec

-----------------------------------------------------------------------------
(* The counters.                                                           *)

\* A set of connections is finite and not larger than all of them.
LEMMA Bounded ==
  ASSUME NEW S \in SUBSET Conn
  PROVE  IsFiniteSet(S) /\ Cardinality(S) \in 0..Cardinality(Conn)
<1>1. IsFiniteSet(Conn) BY ServerAssumption
<1>2. IsFiniteSet(S) /\ Cardinality(S) <= Cardinality(Conn) BY <1>1, FS_Subset
<1>3. Cardinality(S) \in Nat /\ Cardinality(Conn) \in Nat
  BY <1>1, <1>2, FS_CardinalityType
<1> QED BY <1>2, <1>3

\* Every step that changes the connections that are between RunCount and
\* Decrement changes the counter with them.
LEMMA StepCounted ==
  ASSUME LifeInv, TypeOK, CountInv, [Next]_vars
  PROVE  connections' = Cardinality(Counted')
<1>1. CASE UNCHANGED <<pc, connections>>
  BY <1>1 DEF CountInv, Counted
<1>2. ASSUME NEW c \in Conn, NEW to, pc' = [pc EXCEPT ![c] = to], connections' = connections,
             (pc[c] \in {"traffic", "ended"}) <=> (to \in {"traffic", "ended"})
      PROVE  connections' = Cardinality(Counted')
  <2>1. Counted' = Counted BY <1>2 DEF Counted, TypeOK
  <2> QED BY <1>2, <2>1 DEF CountInv
<1>3. CASE RunAccept
  <2>1. CASE UNCHANGED pc BY <1>1, <1>3, <2>1 DEF RunAccept
  <2>2. ASSUME NEW c \in Conn, pc[c] = "new", pc' = [pc EXCEPT ![c] = "accepted"]
        PROVE  connections' = Cardinality(Counted')
    BY ZenonT(60), <1>2, <1>3, <2>2 DEF RunAccept
  <2> QED BY <1>3, <2>1, <2>2 DEF RunAccept
<1>4. CASE RunCount
  <2>1. cur \in Conn /\ pc[cur] = "accepted" BY <1>4 DEF LifeInv, RunCount
  <2>2. Counted' = Counted \cup {cur} /\ cur \notin Counted
    BY <1>4, <2>1 DEF Counted, TypeOK, RunCount
  <2>3. Counted \in SUBSET Conn BY DEF Counted
  <2>4. Cardinality(Counted') = Cardinality(Counted) + 1
    BY <2>2, <2>3, Bounded, FS_AddElement
  <2> QED BY <1>4, <2>4 DEF CountInv, RunCount
<1>5. ASSUME NEW c \in Conn, Decrement(c) PROVE connections' = Cardinality(Counted')
  <2>1. Counted' = Counted \ {c} /\ c \in Counted
    BY <1>5 DEF Counted, TypeOK, Decrement
  <2>2. Counted \in SUBSET Conn BY DEF Counted
  <2>3. Cardinality(Counted') = Cardinality(Counted) - 1
    BY <2>1, <2>2, Bounded, FS_RemoveElement
  <2> QED BY <1>5, <2>3 DEF CountInv, Decrement
<1>6. ASSUME NEW c \in Conn,
             TrafficEnd(c) \/ CloseCount(c) \/ CloseLast(c) \/ CloseDisconnect(c) \/ CloseUnmap(c)
      PROVE  connections' = Cardinality(Counted')
  BY <1>2, <1>6 DEF TrafficEnd, CloseCount, CloseLast, CloseDisconnect, CloseUnmap
<1>7. CASE \/ RunBoot \/ RunListen \/ RunAddress \/ RunInit \/ RunStart \/ RunSelect \/ RunOpen
           \/ StopperReceive \/ StopperShutdown \/ TickerSelect \/ Shutdown
           \/ Signal \/ RunFailed \/ Exit \/ SignalAgain \/ RunFailedAgain
           \/ UNCHANGED vars
  BY <1>1, <1>7
  DEF RunBoot, RunListen, RunAddress, RunInit, RunStart, RunSelect, RunOpen, StopperReceive,
      StopperShutdown, TickerSelect, Shutdown, ShutdownStatus, ShutdownRunning,
      ShutdownProxies, ShutdownListener, ShutdownClose, Signal, RunFailed,
      StopGracefully, Exit, SignalAgain, RunFailedAgain, ExitSecond, connVars, vars
<1> QED BY <1>3, <1>4, <1>5, <1>6, <1>7 DEF Next, Run, OnClose

\* Every step that takes a client from the available ones or gives it back
\* changes avail and busy together; Shutdown may drop clients.
LEMMA StepPool ==
  ASSUME LifeInv, TypeOK, CountInv, [Next]_vars
  PROVE  /\ avail' \in 0..PoolSize /\ busy' \subseteq Conn
         /\ avail' + Cardinality(busy') <= PoolSize
<1>0. /\ avail \in Nat /\ PoolSize \in Nat /\ busy \in SUBSET Conn
      /\ IsFiniteSet(busy) /\ Cardinality(busy) \in Nat
      /\ avail + Cardinality(busy) <= PoolSize
  BY Bounded, ServerAssumption DEF TypeOK, CountInv
<1>1. CASE UNCHANGED <<avail, busy>> BY <1>0, <1>1
<1>2. CASE RunOpen
  <2>1. cur \in Conn BY <1>2 DEF LifeInv, RunOpen
  <2>2. CASE avail > 0 /\ avail' = avail - 1 /\ busy' = busy \cup {cur}
    <3>1. Cardinality(busy') \in Nat /\ Cardinality(busy') <= Cardinality(busy) + 1
      <4>1. Cardinality(busy \cup {cur}) =
              IF cur \in busy THEN Cardinality(busy) ELSE Cardinality(busy) + 1
        BY <1>0, FS_AddElement
      <4> QED BY <1>0, <2>2, <4>1
    <3> QED BY <1>0, <2>1, <2>2, <3>1
  <2> QED BY <1>1, <1>2, <2>2 DEF RunOpen
<1>3. ASSUME NEW c \in Conn, CloseDisconnect(c)
      PROVE  /\ avail' \in 0..PoolSize /\ busy' \subseteq Conn
             /\ avail' + Cardinality(busy') <= PoolSize
  <2>1. CASE c \in busy /\ busy' = busy \ {c} /\ avail' = avail + 1
    <3>1. Cardinality(busy') = Cardinality(busy) - 1 /\ Cardinality(busy') \in Nat
      <4>1. busy' \in SUBSET Conn BY <1>0, <2>1
      <4> QED BY <1>0, <2>1, <4>1, Bounded, FS_RemoveElement
    <3> QED BY <1>0, <2>1, <3>1
  <2> QED BY <1>1, <1>3, <2>1 DEF CloseDisconnect, poolVars
<1>4. CASE ProxyClose BY <1>0, <1>4 DEF ProxyClose
<1>5. CASE ProxyClear BY <1>0, <1>5, FS_EmptySet DEF ProxyClear
<1>6. CASE StopperShutdown \/ ShutdownProxies
  BY <1>1, <1>4, <1>5, <1>6 DEF StopperShutdown, ShutdownProxies, poolVars
<1>7. ASSUME NEW c \in Conn,
             TrafficEnd(c) \/ Decrement(c) \/ CloseCount(c) \/ CloseLast(c) \/ CloseUnmap(c)
      PROVE  /\ avail' \in 0..PoolSize /\ busy' \subseteq Conn
             /\ avail' + Cardinality(busy') <= PoolSize
  BY <1>1, <1>7 DEF TrafficEnd, Decrement, CloseCount, CloseLast, CloseUnmap, poolVars
<1>8. CASE \/ RunBoot \/ RunListen \/ RunAddress \/ RunInit \/ RunStart
           \/ RunSelect \/ RunAccept \/ RunCount
           \/ StopperReceive \/ TickerSelect \/ ShutdownStatus \/ ShutdownRunning
           \/ ShutdownListener \/ ShutdownClose
           \/ Signal \/ RunFailed \/ Exit \/ SignalAgain \/ RunFailedAgain
           \/ UNCHANGED vars
  BY <1>1, <1>8
  DEF RunBoot, RunListen, RunAddress, RunInit, RunStart, RunSelect, RunAccept, RunCount,
      StopperReceive, TickerSelect, ShutdownStatus, ShutdownRunning,
      ShutdownListener, ShutdownClose, Signal, RunFailed, StopGracefully, Exit,
      SignalAgain, RunFailedAgain, ExitSecond, poolVars, vars
<1> QED BY <1>2, <1>3, <1>6, <1>7, <1>8 DEF Next, Run, OnClose, Shutdown

\* Every variable keeps its type.
LEMMA StepTyped ==
  ASSUME LifeInv, TypeOK, CountInv, [Next]_vars
  PROVE  TypeOK' /\ CountInv'
<1> SUFFICES TypeOK'
  <2>1. CountInv' BY StepCounted, StepPool DEF CountInv
  <2> QED BY <2>1
<1>2. connections' \in 0..Cardinality(Conn)
  <2>1. Counted' \in SUBSET Conn BY DEF Counted
  <2> QED BY <2>1, Bounded, StepCounted
<1>3. avail' \in 0..PoolSize /\ busy' \subseteq Conn BY StepPool
<1>4. CASE RunBoot \/ RunListen \/ RunAddress \/ RunInit \/ RunStart \/ RunSelect
  BY ZenonT(60), <1>2, <1>3, <1>4
  DEF TypeOK, RunBoot, RunListen, RunAddress, RunInit, RunStart, RunSelect, Received, stopVars,
      connVars, poolVars, appVars
<1>5. CASE RunAccept
  BY <1>2, <1>3, <1>5 DEF TypeOK, RunAccept, flagVars, stopVars, poolVars, appVars
<1>6. CASE RunOpen \/ RunCount
  <2>1. cur \in Conn BY <1>6 DEF LifeInv, RunOpen, RunCount
  <2> QED BY <1>2, <1>3, <1>6, <2>1
        DEF TypeOK, RunOpen, RunCount, flagVars, stopVars, poolVars, appVars
<1>7. ASSUME NEW c \in Conn, TrafficEnd(c) \/ OnClose(c) PROVE TypeOK'
  BY <1>2, <1>3, <1>7
  DEF TypeOK, TrafficEnd, OnClose, Decrement, CloseCount, CloseLast,
      CloseDisconnect, CloseUnmap, runVars, flagVars, stopVars, poolVars, appVars
<1>8. CASE StopperReceive \/ StopperShutdown \/ TickerSelect
  BY <1>2, <1>3, <1>8
  DEF TypeOK, StopperReceive, StopperShutdown, TickerSelect, Received, ProxyClose,
      ProxyClear, runVars, flagVars, connVars, poolVars, appVars
<1>9. CASE Shutdown
  BY ZenonT(60), <1>2, <1>3, <1>9
  DEF TypeOK, Shutdown, ShutdownStatus, ShutdownRunning, ShutdownProxies,
      ShutdownListener, ShutdownClose, ProxyClose, ProxyClear, runVars, flagVars,
      connVars, poolVars, appVars
<1>10. CASE Signal \/ RunFailed \/ Exit \/ SignalAgain \/ RunFailedAgain
  BY <1>2, <1>3, <1>10
  DEF TypeOK, Signal, RunFailed, StopGracefully, Exit, SignalAgain,
      RunFailedAgain, ExitSecond, runVars, flagVars, stopVars, connVars, poolVars, appVars
<1>11. CASE UNCHANGED vars BY <1>11 DEF TypeOK, vars
<1> QED
  BY <1>4, <1>5, <1>6, <1>7, <1>8, <1>9, <1>10, <1>11 DEF Next, Run

\* Every variable has its type; the connection counter is never negative and
\* never exceeds the connections, and the proxy never has more clients than
\* its pool was made with, whatever Shutdown does in the middle of it.
THEOREM ServerTyped == Spec => []TypeOK
<1>1. Init => TypeOK /\ CountInv
  <2>1. Init => Counted = {} BY DEF Init, Counted
  <2>2. Cardinality({}) = 0 /\ 0 \in 0..Cardinality(Conn) BY FS_EmptySet, Bounded
  <2>3. Init => TypeOK
    <3>1. PoolSize \in 0..PoolSize BY ServerAssumption
    <3> QED BY ZenonT(60), <2>2, <3>1 DEF Init, TypeOK
  <2>4. Init => CountInv BY <2>1, <2>2, ServerAssumption DEF Init, CountInv
  <2> QED BY <2>3, <2>4
<1>2. LifeInv /\ TypeOK /\ CountInv /\ [Next]_vars => (LifeInv /\ TypeOK /\ CountInv)'
  BY StepLife, StepTyped
<1> QED BY InitLife, <1>1, <1>2, PTL DEF Spec

=============================================================================
