---------------------------- MODULE ProxyProofs ----------------------------
(***************************************************************************)
(* Proofs about Proxy for any number of connections, clients and ports,    *)
(* any capacity, any faults, with or without health checks and however     *)
(* often Shutdown is called.                                               *)
(*                                                                         *)
(* ExclusiveAssignment only speaks of the two pools.  It is not inductive: *)
(* a client that a goroutine holds between a Pop and a Put must be in no   *)
(* pool and in no other goroutine's hands, which is Ownership.  The health *)
(* check and Shutdown also hold references they do not own (hc.old and the *)
(* clients of a detached map); these may only be closed.                   *)
(*                                                                         *)
(* The last part shows that the proxy implements Lease, under the identity *)
(* mapping of the busy pool and of the sessions' state.  LeaseInv adds     *)
(* what a grant needs: nobody used the accept loop's client since its last *)
(* reset, and a connection with a client is being served.                  *)
(*                                                                         *)
(* NoClientLost holds while only Connect and Disconnect work on the pool   *)
(* and no dial fails (RecyclingOnly).  RecycleInv is its strengthening:    *)
(* every pooled client is connected and under its own ID.                  *)
(***************************************************************************)
EXTENDS Proxy, FiniteSetTheorems, TLAPS

\* A leaf is left to Zenon unless it names SMT, which arithmetic needs; the
\* numbers are time limits in seconds.
USE ZenonT(60)

\* The clients the application puts into the pool have distinct IDs, so each
\* is under one key, and no goroutine holds one.
LEMMA InitIInv == Init => IInv
  <1> SUFFICES ASSUME Init PROVE IInv
    OBVIOUS
  <1> USE PoolAssumption
  <1>1. PICK f \in [InitialClients -> Port] :
          /\ \A c, d \in InitialClients : f[c] = f[d] => c = d
          /\ id = [c \in Client |-> IF c \in InitialClients THEN f[c] ELSE NoID]
          /\ available = [k \in Key |->
               IF \E c \in InitialClients : f[c] = k
               THEN CHOOSE c \in InitialClients : f[c] = k ELSE Nil]
    BY DEF Init
  <1>2. \A k \in Key :
          \/ available[k] \in InitialClients /\ f[available[k]] = k
          \/ available[k] = Nil
    BY <1>1
  <1>3. PoolsTyped
    BY <1>1, <1>2 DEF Init, PoolsTyped
  <1>4. ClientsTyped
    BY SMTT(30), <1>1 DEF Init, ClientsTyped, SessionState, Key
  <1>5. TypeOK
    BY SMTT(30), <1>3, <1>4
       DEF Init, TypeOK, AcceptTyped, ConnsTyped, HealthTyped, ShutdownTyped,
           Idle, HcIdle, ConnPc, Key
  <1>6. Ownership
    BY <1>2 DEF Init, Ownership, Idle, HcIdle
  <1>7. AcceptLoop
    BY DEF Init, AcceptLoop, Idle
  <1>8. CleanSessions
    BY <1>2 DEF Init, CleanSessions, CleanWhenAvailable, HcIdle
  <1> QED
    BY <1>5, <1>6, <1>7, <1>8 DEF IInv


\* Every step keeps the types, and the accept loop's connection waiting for it.
LEMMA TypeStep ==
  ASSUME TypeOK, AcceptLoop, Next PROVE TypeOK' /\ AcceptLoop'
  <1> USE DEF TypeOK, poolVars, clientVars, connVars, SessionState
  <1>1. ASSUME NEW n \in Conn, ConnectPick(n) PROVE TypeOK' /\ AcceptLoop'
    <2>1. AcceptTyped'
      <3>1. PICK k \in Key : acc' = [acc EXCEPT !.pc = "check", !.conn = n, !.key = k]
        BY <1>1 DEF ConnectPick, Pooled, Key
      <3> QED BY <3>1 DEF AcceptTyped
    <2>2. ConnsTyped'
      BY <1>1, PoolAssumption
         DEF ConnectPick, ConnsTyped, PoolsTyped, ClientsTyped, AcceptTyped,
             ConnPc, AcceptLoop, Key
    <2>3. AcceptLoop'
      BY SMTT(30), <1>1 DEF ConnectPick, AcceptLoop, AcceptTyped, ConnsTyped, PoolsTyped
    <2> QED
      BY <1>1, <2>1, <2>2, <2>3
         DEF ConnectPick, PoolsTyped, ClientsTyped, HealthTyped, ShutdownTyped
  <1>2. ASSUME ConnectCheck PROVE TypeOK' /\ AcceptLoop'
    <2>1. AcceptTyped'
      BY SMTT(30), <1>2, PoolAssumption
         DEF ConnectCheck, Idle, AcceptTyped, PoolsTyped, ConnsTyped, Key
    <2>2. ConnsTyped'
      BY SMTT(30), <1>2, PoolAssumption
         DEF ConnectCheck, Idle, ConnsTyped, PoolsTyped, ClientsTyped,
             AcceptTyped, ConnPc, AcceptLoop, Key
    <2>3. AcceptLoop'
      BY SMTT(30), <1>2
         DEF ConnectCheck, Idle, AcceptLoop, AcceptTyped, ConnsTyped,
             PoolsTyped
    <2> QED
      BY <1>2, <2>1, <2>2, <2>3
         DEF ConnectCheck, Idle, PoolsTyped, ClientsTyped, HealthTyped,
             ShutdownTyped
  <1>3. ASSUME ConnectPop PROVE TypeOK' /\ AcceptLoop'
    <2>1. PoolsTyped'
      BY <1>3, PoolAssumption
         DEF ConnectPop, Delete, PoolsTyped, AcceptTyped, ConnsTyped,
             HealthTyped, ClientsTyped, Key
    <2>2. AcceptTyped'
      BY <1>3, PoolAssumption
         DEF ConnectPop, Delete, AcceptTyped, PoolsTyped, ConnsTyped, Key
    <2>3. AcceptLoop'
      BY <1>3
         DEF ConnectPop, Delete, AcceptLoop, AcceptTyped, ConnsTyped,
             PoolsTyped
    <2> QED
      BY <1>3, <2>1, <2>2, <2>3
         DEF ConnectPop, Delete, ClientsTyped, ConnsTyped, HealthTyped,
             ShutdownTyped
  <1>4. ASSUME ConnectPut PROVE TypeOK' /\ AcceptLoop'
    <2>1. ClientsTyped'
      <3>1. CASE acc.client = Nil
        BY <1>4, <3>1 DEF ConnectPut, ClientsTyped
      <3>2. CASE acc.client # Nil
        BY <1>4, <3>2
           DEF ConnectPut, Served, ClientsTyped, IsConnected, AcceptTyped
      <3> QED BY <3>1, <3>2
    <2>2. PoolsTyped'
      BY <1>4, PoolAssumption
         DEF ConnectPut, Idle, PoolsTyped, AcceptTyped, ConnsTyped,
             HealthTyped, ClientsTyped, Key
    <2>3. AcceptTyped'
      BY SMTT(30), <1>4, PoolAssumption
         DEF ConnectPut, Idle, AcceptTyped, PoolsTyped, ConnsTyped, Key
    <2>4. ConnsTyped'
      BY SMTT(30), <1>4, PoolAssumption
         DEF ConnectPut, Idle, ConnsTyped, PoolsTyped, ClientsTyped,
             AcceptTyped, ConnPc, AcceptLoop, Key
    <2>5. AcceptLoop'
      BY SMTT(30), <1>4
         DEF ConnectPut, Idle, AcceptLoop, AcceptTyped, ConnsTyped, PoolsTyped
    <2> QED
      BY <1>4, <2>1, <2>2, <2>3, <2>4, <2>5
         DEF ConnectPut, Idle, HealthTyped, ShutdownTyped
  <1>5. ASSUME NEW n \in Conn, DisconnectPop(n) PROVE TypeOK' /\ AcceptLoop'
    <2>1. PoolsTyped'
      BY SMTT(30), <1>5, PoolAssumption
         DEF DisconnectPop, Goto, PoolsTyped, AcceptTyped, ConnsTyped,
             HealthTyped, ClientsTyped, Key
    <2>2. ConnsTyped'
      BY SMTT(30), <1>5, PoolAssumption
         DEF DisconnectPop, Goto, ConnsTyped, PoolsTyped, ClientsTyped,
             AcceptTyped, ConnPc, AcceptLoop, Key
    <2>3. AcceptLoop'
      BY <1>5
         DEF DisconnectPop, Goto, AcceptLoop, AcceptTyped, ConnsTyped,
             PoolsTyped
    <2>4. ClientsTyped'
      BY <1>5 DEF DisconnectPop, ClientsTyped
    <2> QED
      BY SMTT(30), <1>5, <2>1, <2>2, <2>3, <2>4
         DEF DisconnectPop, Goto, AcceptTyped, HealthTyped, ShutdownTyped
  <1>6. ASSUME NEW n \in Conn, RecycleReset(n) PROVE TypeOK' /\ AcceptLoop'
    <2>1. ClientsTyped'
      BY <1>6 DEF RecycleReset, ClientsTyped
    <2>2. ConnsTyped'
      BY SMTT(30), <1>6, PoolAssumption
         DEF RecycleReset, Goto, ConnsTyped, PoolsTyped, ClientsTyped,
             AcceptTyped, ConnPc, AcceptLoop, Key
    <2>3. AcceptLoop'
      BY <1>6
         DEF RecycleReset, Goto, AcceptLoop, AcceptTyped, ConnsTyped,
             PoolsTyped
    <2> QED
      BY SMTT(30), <1>6, <2>1, <2>2, <2>3
         DEF RecycleReset, Goto, PoolsTyped, AcceptTyped, HealthTyped,
             ShutdownTyped
  <1>7. ASSUME NEW n \in Conn, ReconnectClose(n) PROVE TypeOK' /\ AcceptLoop'
    <2>1. ClientsTyped'
      BY <1>7, PoolAssumption
         DEF ReconnectClose, Goto, ClientsTyped, AcceptTyped, ConnsTyped,
             HealthTyped, PoolsTyped, Key
    <2>2. ConnsTyped'
      BY SMTT(30), <1>7, PoolAssumption
         DEF ReconnectClose, Goto, ConnsTyped, PoolsTyped, ClientsTyped,
             AcceptTyped, ConnPc, AcceptLoop, Key
    <2>3. AcceptLoop'
      BY <1>7
         DEF ReconnectClose, Goto, AcceptLoop, AcceptTyped, ConnsTyped,
             PoolsTyped
    <2> QED
      BY SMTT(30), <1>7, <2>1, <2>2, <2>3
         DEF ReconnectClose, Goto, PoolsTyped, AcceptTyped, HealthTyped,
             ShutdownTyped
  <1>8. ASSUME NEW n \in Conn, ReconnectDial(n) PROVE TypeOK' /\ AcceptLoop'
    <2>1. ClientsTyped'
      BY SMTT(30), <1>8, PoolAssumption
         DEF ReconnectDial, Goto, ClientsTyped, AcceptTyped, ConnsTyped,
             HealthTyped, PoolsTyped, Key
    <2>2. ConnsTyped'
      BY SMTT(30), <1>8, PoolAssumption
         DEF ReconnectDial, Goto, ConnsTyped, PoolsTyped, ClientsTyped,
             AcceptTyped, ConnPc, AcceptLoop, Key
    <2>3. AcceptLoop'
      BY <1>8
         DEF ReconnectDial, Goto, AcceptLoop, AcceptTyped, ConnsTyped,
             PoolsTyped
    <2> QED
      BY SMTT(30), <1>8, <2>1, <2>2, <2>3
         DEF ReconnectDial, Goto, PoolsTyped, AcceptTyped, HealthTyped,
             ShutdownTyped
  <1>9. ASSUME NEW n \in Conn, ReconnectStartup(n) PROVE TypeOK' /\ AcceptLoop'
    <2>1. ClientsTyped'
      BY <1>9 DEF ReconnectStartup, ClientsTyped
    <2>2. ConnsTyped'
      BY <1>9, PoolAssumption
         DEF ReconnectStartup, Goto, ConnsTyped, PoolsTyped, ClientsTyped,
             AcceptTyped, ConnPc, AcceptLoop, Key
    <2>3. AcceptLoop'
      BY <1>9
         DEF ReconnectStartup, Goto, AcceptLoop, AcceptTyped, ConnsTyped,
             PoolsTyped
    <2> QED
      BY SMTT(30), <1>9, <2>1, <2>2, <2>3
         DEF ReconnectStartup, Goto, PoolsTyped, AcceptTyped, HealthTyped,
             ShutdownTyped
  <1>10. ASSUME NEW n \in Conn, RecyclePut(n) PROVE TypeOK' /\ AcceptLoop'
    <2>1. ConnsTyped'
      BY SMTT(30), <1>10, PoolAssumption
         DEF RecyclePut, Goto, ConnsTyped, PoolsTyped, ClientsTyped,
             AcceptTyped, ConnPc, AcceptLoop, Key
    <2>2. AcceptLoop'
      BY <1>10
         DEF RecyclePut, Goto, AcceptLoop, AcceptTyped, ConnsTyped, PoolsTyped
    <2> QED
      BY SMTT(30), <1>10, <2>1, <2>2
         DEF RecyclePut, Goto, PoolsTyped, ClientsTyped, AcceptTyped,
             HealthTyped, ShutdownTyped
  <1>11. ASSUME NEW n \in Conn, RecycleStore(n) PROVE TypeOK' /\ AcceptLoop'
    <2>1. PoolsTyped'
      BY <1>11, PoolAssumption
         DEF RecycleStore, Goto, Store, PoolsTyped, AcceptTyped, ConnsTyped,
             HealthTyped, ClientsTyped, Key
    <2>2. ConnsTyped'
      BY <1>11, PoolAssumption
         DEF RecycleStore, Goto, Store, ConnsTyped, PoolsTyped, ClientsTyped,
             AcceptTyped, ConnPc, AcceptLoop, Key
    <2>3. AcceptLoop'
      BY <1>11
         DEF RecycleStore, Goto, Store, AcceptLoop, AcceptTyped, ConnsTyped,
             PoolsTyped
    <2> QED
      BY SMTT(30), <1>11, <2>1, <2>2, <2>3
         DEF RecycleStore, Goto, Store, ClientsTyped, AcceptTyped, HealthTyped,
             ShutdownTyped
  <1>12. ASSUME HcStart PROVE TypeOK' /\ AcceptLoop'
    <2>1. HealthTyped'
      BY <1>12, PoolAssumption
         DEF HcStart, HcIdle, HealthTyped, PoolsTyped, ClientsTyped, Key
    <2>2. AcceptLoop'
      BY <1>12
         DEF HcStart, HcIdle, AcceptLoop, AcceptTyped, ConnsTyped, PoolsTyped
    <2> QED
      BY <1>12, <2>1, <2>2
         DEF HcStart, HcIdle, PoolsTyped, ClientsTyped, AcceptTyped,
             ConnsTyped, ShutdownTyped
  <1>13. ASSUME HcVisit PROVE TypeOK' /\ AcceptLoop'
    <2>1. HealthTyped'
      <3>1. ASSUME NEW k \in RangeNext(Pooled, hc.cursor),
                   hc' = [hc EXCEPT !.pc = "remove", !.cursor = Rank[k],
                                    !.old = available[k]]
            PROVE  HealthTyped'
        <4>1. k \in Key /\ available[k] \in Client
          BY DEF RangeNext, Pooled, PoolsTyped
        <4>2. Rank[k] \in Nat
          BY <4>1, PoolAssumption
        <4> QED BY <1>13, <3>1, <4>1, <4>2, PoolAssumption DEF HcVisit, HealthTyped
      <3>2. ASSUME NEW c \in hc.detached,
                   hc' = [hc EXCEPT !.pc = "remove", !.detached = @ \ {c}, !.old = c]
            PROVE  HealthTyped'
        <4>1. c \in Client /\ hc.detached \ {c} \in SUBSET Client /\ c # Nil
          BY <3>2, PoolAssumption DEF HealthTyped
        <4> QED BY <1>13, <3>2, <4>1 DEF HcVisit, HealthTyped
      <3> QED BY <1>13, <3>1, <3>2 DEF HcVisit
    <2>2. AcceptLoop'
      BY <1>13
         DEF HcVisit, RangeNext, Pooled, AcceptLoop, AcceptTyped, ConnsTyped,
             PoolsTyped
    <2> QED
      BY <1>13, <2>1, <2>2
         DEF HcVisit, RangeNext, Pooled, PoolsTyped, ClientsTyped, AcceptTyped,
             ConnsTyped, ShutdownTyped
  <1>14. ASSUME HcFinish PROVE TypeOK' /\ AcceptLoop'
    <2>1. HealthTyped'
      BY <1>14, PoolAssumption
         DEF HcFinish, HcIdle, HealthTyped, PoolsTyped, ClientsTyped, Key
    <2>2. AcceptLoop'
      BY <1>14
         DEF HcFinish, HcIdle, AcceptLoop, AcceptTyped, ConnsTyped, PoolsTyped
    <2> QED
      BY <1>14, <2>1, <2>2
         DEF HcFinish, HcIdle, PoolsTyped, ClientsTyped, AcceptTyped,
             ConnsTyped, ShutdownTyped
  <1>15. ASSUME HcRemove PROVE TypeOK' /\ AcceptLoop'
    <2>1. PoolsTyped'
      BY <1>15, PoolAssumption
         DEF HcRemove, Delete, PoolsTyped, AcceptTyped, ConnsTyped,
             HealthTyped, ClientsTyped, Key
    <2>2. HealthTyped'
      BY <1>15, PoolAssumption
         DEF HcRemove, Delete, HealthTyped, PoolsTyped, ClientsTyped, Key
    <2>3. AcceptLoop'
      BY <1>15
         DEF HcRemove, Delete, AcceptLoop, AcceptTyped, ConnsTyped, PoolsTyped
    <2> QED
      BY <1>15, <2>1, <2>2, <2>3
         DEF HcRemove, Delete, ClientsTyped, AcceptTyped, ConnsTyped,
             ShutdownTyped
  <1>16. ASSUME HcClose PROVE TypeOK' /\ AcceptLoop'
    <2>1. ClientsTyped'
      BY <1>16, PoolAssumption
         DEF HcClose, Close, ClientsTyped, AcceptTyped, ConnsTyped,
             HealthTyped, PoolsTyped, Key
    <2>2. HealthTyped'
      BY <1>16, PoolAssumption
         DEF HcClose, Close, HealthTyped, PoolsTyped, ClientsTyped, Key
    <2>3. AcceptLoop'
      BY <1>16
         DEF HcClose, Close, AcceptLoop, AcceptTyped, ConnsTyped, PoolsTyped
    <2> QED
      BY <1>16, <2>1, <2>2, <2>3
         DEF HcClose, Close, PoolsTyped, AcceptTyped, ConnsTyped, ShutdownTyped
  <1>17. ASSUME HcNewClient PROVE TypeOK' /\ AcceptLoop'
    <2>1. ClientsTyped' /\ HealthTyped'
      <3>1. ASSUME NEW c \in Client, NEW p \in Port,
                   id' = [id EXCEPT ![c] = p],
                   addr' = [addr EXCEPT ![c] = TRUE],
                   auth' = [auth EXCEPT ![c] = Startup],
                   session' = [session EXCEPT ![c] = "clean"],
                   hc' = [hc EXCEPT !.pc = "put", !.new = c]
            PROVE  ClientsTyped' /\ HealthTyped'
        <4>1. ClientsTyped'
          BY <3>1, PoolAssumption DEF ClientsTyped, Key
        <4>2. HealthTyped'
          BY <3>1, PoolAssumption DEF HealthTyped
        <4> QED BY <4>1, <4>2
      <3>2. CASE hc' = [hc EXCEPT !.pc = "iterate"] /\ UNCHANGED clientVars
        BY <1>17, <3>2 DEF HcNewClient, ClientsTyped, HealthTyped
      <3>3. CASE UNCHANGED <<clientVars, hc>>
        BY <3>3 DEF ClientsTyped, HealthTyped
      <3> QED BY <1>17, <3>1, <3>2, <3>3 DEF HcNewClient
    <2>2. AcceptLoop'
      BY <1>17 DEF HcNewClient, AcceptLoop, AcceptTyped, ConnsTyped, PoolsTyped
    <2> QED
      BY <1>17, <2>1, <2>2
         DEF HcNewClient, PoolsTyped, AcceptTyped, ConnsTyped, ShutdownTyped
  <1>18. ASSUME HcPut PROVE TypeOK' /\ AcceptLoop'
    <2>1. ClientsTyped' /\ HealthTyped'
      <3>1. hc.new \in Client
        BY <1>18 DEF HcPut, HealthTyped
      <3>2. CASE PutRefused
        <4>1. ClientsTyped'
          BY <1>18, <3>1, <3>2 DEF HcPut, Close, ClientsTyped, Key
        <4>2. HealthTyped'
          BY <1>18, <3>2 DEF HcPut, HealthTyped
        <4> QED BY <4>1, <4>2
      <3>3. CASE ~PutRefused
        <4>1. id[hc.new] \in Key /\ ClientsTyped'
          BY <1>18, <3>1, <3>3 DEF HcPut, ClientsTyped
        <4>2. HealthTyped'
          BY <1>18, <3>3, <4>1 DEF HcPut, HealthTyped
        <4> QED BY <4>1, <4>2
      <3> QED BY <3>2, <3>3
    <2>2. AcceptLoop'
      BY <1>18
         DEF HcPut, Close, AcceptLoop, AcceptTyped, ConnsTyped, PoolsTyped
    <2> QED
      BY <1>18, <2>1, <2>2
         DEF HcPut, Close, PoolsTyped, AcceptTyped, ConnsTyped, ShutdownTyped
  <1>19. ASSUME HcStore PROVE TypeOK' /\ AcceptLoop'
    <2>1. PoolsTyped'
      BY <1>19, PoolAssumption
         DEF HcStore, Store, PoolsTyped, AcceptTyped, ConnsTyped, HealthTyped,
             ClientsTyped, Key
    <2>2. HealthTyped'
      BY <1>19, PoolAssumption
         DEF HcStore, Store, HealthTyped, PoolsTyped, ClientsTyped, Key
    <2>3. AcceptLoop'
      BY <1>19
         DEF HcStore, Store, AcceptLoop, AcceptTyped, ConnsTyped, PoolsTyped
    <2> QED
      BY <1>19, <2>1, <2>2, <2>3
         DEF HcStore, Store, ClientsTyped, AcceptTyped, ConnsTyped,
             ShutdownTyped
  <1>20. ASSUME ShutdownStart PROVE TypeOK' /\ AcceptLoop'
    <2>1. ShutdownTyped'
      <3>1. sd.calls \in 0..ShutdownCalls /\ sd.calls + 1 \in 0..ShutdownCalls
        BY SMTT(30), <1>20, PoolAssumption DEF ShutdownStart, ShutdownTyped
      <3> QED BY <1>20, <3>1 DEF ShutdownStart, ShutdownTyped
    <2>2. AcceptLoop'
      BY <1>20
         DEF ShutdownStart, AcceptLoop, AcceptTyped, ConnsTyped, PoolsTyped
    <2> QED
      BY SMTT(30), <1>20, <2>1, <2>2
         DEF ShutdownStart, PoolsTyped, ClientsTyped, AcceptTyped, ConnsTyped,
             HealthTyped
  <1>21. ASSUME ShutdownAvailable PROVE TypeOK' /\ AcceptLoop'
    <2>1. ClientsTyped'
      <3>1. PICK k \in RangeNext(Pooled, sd.cursor) :
              IF IsConnected(available[k]) THEN Close(available[k])
                                           ELSE UNCHANGED clientVars
        BY <1>21 DEF ShutdownAvailable
      <3> QED BY <3>1 DEF Close, ClientsTyped, Key
    <2>2. ShutdownTyped'
      BY SMTT(30), <1>21, PoolAssumption
         DEF ShutdownAvailable, Close, RangeNext, Pooled, ShutdownTyped, Key
    <2>3. AcceptLoop'
      BY <1>21
         DEF ShutdownAvailable, Close, RangeNext, Pooled, AcceptLoop,
             AcceptTyped, ConnsTyped, PoolsTyped
    <2> QED
      BY SMTT(30), <1>21, <2>1, <2>2, <2>3
         DEF ShutdownAvailable, Close, RangeNext, Pooled, PoolsTyped,
             AcceptTyped, ConnsTyped, HealthTyped
  <1>22. ASSUME ShutdownClearAvailable PROVE TypeOK' /\ AcceptLoop'
    <2>1. HealthTyped'
      <3> DEFINE D == {available[k] : k \in {j \in Pooled : Rank[j] > hc.cursor}}
      <3>1. D \subseteq Client
        BY DEF Pooled, PoolsTyped
      <3>2. CASE hc' = hc
        BY <3>2 DEF HealthTyped
      <3>3. CASE hc' = [hc EXCEPT !.live = FALSE, !.detached = D]
        <4> HIDE DEF D
        <4> QED BY <3>1, <3>3 DEF HealthTyped
      <3> QED BY <1>22, <3>2, <3>3 DEF ShutdownClearAvailable
    <2>2. PoolsTyped'
      BY <1>22, PoolAssumption
         DEF ShutdownClearAvailable, Pooled, PoolsTyped, AcceptTyped,
             ConnsTyped, HealthTyped, ClientsTyped, Key
    <2>3. ShutdownTyped'
      BY <1>22, PoolAssumption
         DEF ShutdownClearAvailable, Pooled, ShutdownTyped, Key
    <2>4. AcceptLoop'
      BY <1>22
         DEF ShutdownClearAvailable, Pooled, AcceptLoop, AcceptTyped,
             ConnsTyped, PoolsTyped
    <2> QED
      BY <1>22, <2>1, <2>2, <2>3, <2>4
         DEF ShutdownClearAvailable, Pooled, ClientsTyped, AcceptTyped,
             ConnsTyped
  <1>23. ASSUME ShutdownBusy PROVE TypeOK' /\ AcceptLoop'
    <2>1. ClientsTyped'
      BY SMTT(30), <1>23, PoolAssumption
         DEF ShutdownBusy, Close, RangeNext, Busy, ClientsTyped, AcceptTyped,
             ConnsTyped, HealthTyped, PoolsTyped, Key
    <2>2. ShutdownTyped'
      BY <1>23, PoolAssumption
         DEF ShutdownBusy, Close, RangeNext, Busy, ShutdownTyped, Key
    <2>3. AcceptLoop'
      BY <1>23
         DEF ShutdownBusy, Close, RangeNext, Busy, AcceptLoop, AcceptTyped,
             ConnsTyped, PoolsTyped
    <2> QED
      BY SMTT(30), <1>23, <2>1, <2>2, <2>3
         DEF ShutdownBusy, Close, RangeNext, Busy, PoolsTyped, AcceptTyped,
             ConnsTyped, HealthTyped
  <1>24. ASSUME ShutdownClearBusy PROVE TypeOK' /\ AcceptLoop'
    <2>1. PoolsTyped'
      BY <1>24, PoolAssumption
         DEF ShutdownClearBusy, PoolsTyped, AcceptTyped, ConnsTyped,
             HealthTyped, ClientsTyped, Key
    <2>2. ShutdownTyped'
      BY <1>24, PoolAssumption DEF ShutdownClearBusy, ShutdownTyped, Key
    <2>3. AcceptLoop'
      BY <1>24
         DEF ShutdownClearBusy, AcceptLoop, AcceptTyped, ConnsTyped, PoolsTyped
    <2> QED
      BY SMTT(30), <1>24, <2>1, <2>2, <2>3
         DEF ShutdownClearBusy, ClientsTyped, AcceptTyped, ConnsTyped,
             HealthTyped
  <1>25. ASSUME ShutdownStop PROVE TypeOK' /\ AcceptLoop'
    <2>1. ShutdownTyped'
      BY <1>25, PoolAssumption DEF ShutdownStop, ShutdownTyped, Key
    <2>2. AcceptLoop'
      BY <1>25
         DEF ShutdownStop, AcceptLoop, AcceptTyped, ConnsTyped, PoolsTyped
    <2> QED
      BY <1>25, <2>1, <2>2
         DEF ShutdownStop, PoolsTyped, ClientsTyped, AcceptTyped, ConnsTyped,
             HealthTyped
  <1>26. ASSUME NEW c \in Client, Finalize(c) PROVE TypeOK' /\ AcceptLoop'
    <2>1. ClientsTyped'
      BY <1>26 DEF Finalize, Close, ClientsTyped, Key
    <2> QED
      BY SMTT(30), <1>26, <2>1
         DEF Finalize, PoolsTyped, AcceptTyped, ConnsTyped, HealthTyped,
             ShutdownTyped, AcceptLoop
  <1> QED
    BY <1>1, <1>2, <1>3, <1>4, <1>5, <1>6, <1>7, <1>8, <1>9, <1>10, <1>11,
       <1>12, <1>13, <1>14, <1>15, <1>16, <1>17, <1>18, <1>19, <1>20, <1>21,
       <1>22, <1>23, <1>24, <1>25, <1>26
       DEF Next, Disconnect, Connect, HealthCheck, Shutdown

\* Every step keeps each client in one place: a client moves between the pools
\* and the goroutines that hold it, and is never copied.
LEMMA OwnershipStep ==
  ASSUME TypeOK, AcceptLoop, Ownership, Next PROVE Ownership'
  <1> USE DEF TypeOK, poolVars, clientVars, connVars
  <1>1. ASSUME UNCHANGED <<available, busy, ref>>,
               acc'.client \in {Nil, acc.client}, hc'.new \in {Nil, hc.new}
        PROVE  Ownership'
    BY <1>1 DEF Ownership
  <1>2. ASSUME NEW n \in Conn, ConnectPick(n) PROVE Ownership'
    BY <1>1, <1>2 DEF ConnectPick, AcceptTyped
  <1>3. ASSUME ConnectCheck PROVE Ownership'
    BY SMTT(30), <1>1, <1>3 DEF ConnectCheck, AcceptTyped, Idle
  <1>4. ASSUME ConnectPop PROVE Ownership'
    BY SMTT(30), <1>4, PoolAssumption
       DEF ConnectPop, Delete, Ownership, AcceptTyped, PoolsTyped, AcceptLoop
  <1>5. ASSUME ConnectPut PROVE Ownership'
    <2>1. /\ UNCHANGED <<available, ref, hc>>
          /\ acc.conn \in Conn
          /\ \A n \in Conn : busy'[n] \in {busy[n], acc.client}
          /\ \A n \in Conn \ {acc.conn} : busy'[n] = busy[n]
      BY <1>5 DEF ConnectPut, AcceptTyped, PoolsTyped
    <2>2. acc.client = Nil \/ acc'.client = Nil
      BY SMTT(30), <1>5 DEF ConnectPut, Idle
    <2>3. acc.client = Nil => acc'.client = Nil
      BY <1>5 DEF ConnectPut, Idle
    <2> QED BY SMTT(30), <2>1, <2>2, <2>3 DEF Ownership
  <1>6. ASSUME NEW n \in Conn, DisconnectPop(n) PROVE Ownership'
    <2>1. CASE busy[n] = Nil
      BY <1>1, <1>6, <2>1 DEF DisconnectPop
    <2>2. CASE busy[n] # Nil
      <3>1. /\ UNCHANGED <<available, acc, hc>>
            /\ ref'[n] = busy[n] /\ \A m \in Conn \ {n} : ref'[m] = ref[m]
            /\ busy'[n] = Nil /\ \A m \in Conn \ {n} : busy'[m] = busy[m]
        BY <1>6, <2>2 DEF DisconnectPop, ConnsTyped, PoolsTyped
      <3> QED BY SMTT(30), <2>2, <3>1 DEF Ownership
    <2> QED BY <2>1, <2>2
  <1>7. ASSUME NEW n \in Conn,
               RecycleReset(n) \/ ReconnectClose(n) \/ ReconnectDial(n)
                 \/ ReconnectStartup(n)
        PROVE  Ownership'
    BY <1>1, <1>7
       DEF RecycleReset, ReconnectClose, ReconnectDial, ReconnectStartup
  <1>8. ASSUME NEW n \in Conn, RecyclePut(n) PROVE Ownership'
    <2>1. /\ UNCHANGED <<available, busy, acc, hc>>
          /\ \A m \in Conn : ref'[m] \in {Nil, ref[m]}
      BY <1>8 DEF RecyclePut, ConnsTyped
    <2> QED BY SMTT(30), <2>1 DEF Ownership
  <1>9. ASSUME NEW n \in Conn, RecycleStore(n) PROVE Ownership'
    <2>1. ref[n] # Nil
      BY <1>9 DEF RecycleStore, Goto, ConnsTyped, ConnPc
    <2>2. /\ UNCHANGED <<busy, acc, hc>>
          /\ ref'[n] = Nil /\ \A m \in Conn \ {n} : ref'[m] = ref[m]
          /\ key[n] \in Key /\ available'[key[n]] = ref[n]
          /\ \A k \in Key \ {key[n]} : available'[k] = available[k]
      BY <1>9 DEF RecycleStore, Store, ConnsTyped, PoolsTyped
    <2> QED BY SMTT(30), <2>1, <2>2 DEF Ownership
  <1>10. ASSUME HcStart \/ HcFinish PROVE Ownership'
    BY SMTT(30), <1>1, <1>10 DEF HcStart, HcFinish, HcIdle
  <1>11. ASSUME HcVisit PROVE Ownership'
    <2>1. hc'.new = hc.new
      BY <1>11 DEF HcVisit, HealthTyped
    <2> QED BY <1>1, <1>11, <2>1 DEF HcVisit
  <1>12. ASSUME HcRemove PROVE Ownership'
    BY SMTT(30), <1>12 DEF HcRemove, Delete, Ownership, HealthTyped, PoolsTyped
  <1>13. ASSUME HcClose PROVE Ownership'
    BY <1>1, <1>13 DEF HcClose, HealthTyped
  <1>14. ASSUME HcNewClient PROVE Ownership'
    <2>1. ASSUME NEW c \in Client, Unreferenced(c),
                 hc' = [hc EXCEPT !.pc = "put", !.new = c]
          PROVE  Ownership'
      <3>1. hc'.new = c
        BY <2>1 DEF HealthTyped
      <3>2. /\ \A k \in Key : available[k] # c
            /\ \A n \in Conn : busy[n] # c /\ ref[n] # c
            /\ acc.client # c
        BY <2>1 DEF Unreferenced
      <3>3. UNCHANGED <<available, busy, ref, acc>>
        BY <1>14 DEF HcNewClient
      <3> QED BY <3>1, <3>2, <3>3 DEF Ownership
    <2>2. CASE hc' \in {hc, [hc EXCEPT !.pc = "iterate"]}
      <3>1. hc'.new = hc.new
        BY <2>2 DEF HealthTyped
      <3> QED BY <1>1, <1>14, <3>1 DEF HcNewClient
    <2> QED BY <1>14, <2>1, <2>2 DEF HcNewClient
  <1>15. ASSUME HcPut PROVE Ownership'
    <2>1. hc'.new \in {Nil, hc.new}
      BY <1>15 DEF HcPut, HealthTyped
    <2> QED BY <1>1, <1>15, <2>1 DEF HcPut
  <1>16. ASSUME HcStore PROVE Ownership'
    <2>1. hc.new # Nil /\ hc'.new = Nil
      BY <1>16 DEF HcStore, HealthTyped
    <2> QED
      BY <1>16, <2>1 DEF HcStore, Store, Ownership, HealthTyped, PoolsTyped
  <1>17. ASSUME ShutdownStart \/ ShutdownAvailable \/ ShutdownBusy \/ ShutdownStop
         PROVE  Ownership'
    BY <1>1, <1>17
       DEF ShutdownStart, ShutdownAvailable, ShutdownBusy, ShutdownStop
  <1>18. ASSUME ShutdownClearAvailable PROVE Ownership'
    <2>1. hc'.new = hc.new
      BY <1>18 DEF ShutdownClearAvailable, HealthTyped
    <2> QED BY <1>18, <2>1 DEF ShutdownClearAvailable, Ownership
  <1>19. ASSUME ShutdownClearBusy PROVE Ownership'
    BY <1>19 DEF ShutdownClearBusy, Ownership
  <1>20. ASSUME NEW c \in Client, Finalize(c) PROVE Ownership'
    BY <1>1, <1>20 DEF Finalize
  <1> QED
    BY <1>2, <1>3, <1>4, <1>5, <1>6, <1>7, <1>8, <1>9, <1>10, <1>11, <1>12,
       <1>13, <1>14, <1>15, <1>16, <1>17, <1>18, <1>19, <1>20
       DEF Next, Disconnect, Connect, HealthCheck, Shutdown

\* Every step keeps the sessions clean that Connect may hand out next.
LEMMA CleanStep ==
  ASSUME TypeOK, AcceptLoop, Ownership, CleanSessions, Next
  PROVE  CleanSessions'
  <1> USE DEF TypeOK, poolVars, clientVars, connVars
  \* A step that only cleans sessions and moves no client keeps them clean.
  <1>1. ASSUME UNCHANGED <<available, pc, ref>>, hc'.new \in {Nil, hc.new},
               \A c \in Client : session'[c] = "used" => session[c] = "used"
        PROVE  CleanSessions'
    BY SMTT(30), <1>1, PoolAssumption
       DEF CleanSessions, CleanWhenAvailable, PoolsTyped, ConnsTyped, ConnPc,
           HealthTyped
  <1>2. ASSUME NEW c \in Client, Close(c)
        PROVE  \A d \in Client : session'[d] = "used" => session[d] = "used"
    BY <1>2 DEF Close, ClientsTyped
  <1>3. ASSUME NEW n \in Conn, ConnectPick(n) PROVE CleanSessions'
    BY <1>3 DEF ConnectPick, CleanSessions, CleanWhenAvailable, ConnsTyped
  <1>4. ASSUME ConnectCheck PROVE CleanSessions'
    BY <1>4 DEF ConnectCheck, CleanSessions, CleanWhenAvailable, ConnsTyped
  <1>5. ASSUME ConnectPop PROVE CleanSessions'
    BY <1>5 DEF ConnectPop, Delete, CleanSessions, CleanWhenAvailable, PoolsTyped
  <1>6. ASSUME ConnectPut PROVE CleanSessions'
    <2>1. CASE acc.client = Nil
      BY <1>1, <1>6, <2>1 DEF ConnectPut
    <2>2. CASE acc.client # Nil
      <3>1. /\ acc.conn \in Conn /\ acc.client \in Client
            /\ pc' = [pc EXCEPT ![acc.conn] = "serving"]
            /\ \A d \in Client \ {acc.client} : session'[d] = session[d]
            /\ UNCHANGED <<available, ref, hc>>
        BY <1>6, <2>2 DEF ConnectPut, AcceptTyped, ClientsTyped
      <3>2. /\ \A k \in Key : available[k] # acc.client
            /\ \A n \in Conn : ref[n] # acc.client
            /\ hc.new # acc.client
        BY <2>2 DEF Ownership
      <3> QED
        BY SMTT(30), <3>1, <3>2, PoolAssumption
           DEF CleanSessions, CleanWhenAvailable, PoolsTyped, ConnsTyped,
               ConnPc, HealthTyped
    <2> QED BY <2>1, <2>2
  <1>7. ASSUME NEW n \in Conn, DisconnectPop(n) PROVE CleanSessions'
    <2>1. /\ UNCHANGED <<available, hc>>
          /\ \A c \in Client : session'[c] = "used" => session[c] = "used"
      BY <1>7 DEF DisconnectPop, ClientsTyped
    <2>2. \A m \in Conn : pc'[m] \in {"dial", "startup", "put", "store"} =>
            pc'[m] = pc[m] /\ ref'[m] = ref[m]
      BY <1>7 DEF DisconnectPop, Goto, ConnsTyped
    <2> QED
      BY SMTT(30), <2>1, <2>2, PoolAssumption
         DEF CleanSessions, CleanWhenAvailable, PoolsTyped, ConnsTyped, ConnPc,
             HealthTyped
  <1>8. ASSUME NEW n \in Conn, RecycleReset(n) PROVE CleanSessions'
    <2>1. /\ UNCHANGED <<available, ref, hc>>
          /\ \A c \in Client : session'[c] = "used" => session[c] = "used"
      BY <1>8 DEF RecycleReset, ClientsTyped
    <2>2. \A m \in Conn : pc'[m] \in {"dial", "startup", "put", "store"} =>
            (m = n /\ session'[ref[n]] # "used") \/ pc'[m] = pc[m]
      BY <1>8 DEF RecycleReset, Goto, ConnsTyped, ClientsTyped
    <2> QED
      BY SMTT(30), <2>1, <2>2, PoolAssumption
         DEF CleanSessions, CleanWhenAvailable, PoolsTyped, ConnsTyped, ConnPc,
             HealthTyped
  <1>9. ASSUME NEW n \in Conn, ReconnectClose(n) PROVE CleanSessions'
    BY SMTT(30), <1>9, PoolAssumption
       DEF ReconnectClose, Goto, CleanSessions, CleanWhenAvailable, ConnsTyped,
           ClientsTyped, PoolsTyped, HealthTyped, ConnPc
  <1>10. ASSUME NEW n \in Conn,
                ReconnectDial(n) \/ ReconnectStartup(n) \/ RecyclePut(n)
         PROVE  CleanSessions'
    <2>1. /\ UNCHANGED <<available, session, hc>>
          /\ pc[n] \in {"dial", "startup", "put"}
          /\ \E to \in ConnPc : pc' = [pc EXCEPT ![n] = to]
          /\ \A m \in Conn : ref'[m] = ref[m] \/ pc'[m] = "new"
      BY <1>10
         DEF ReconnectDial, ReconnectStartup, RecyclePut, Goto, ConnsTyped, ConnPc
    <2> QED BY <2>1 DEF CleanSessions, CleanWhenAvailable, ConnsTyped
  <1>11. ASSUME NEW n \in Conn, RecycleStore(n) PROVE CleanSessions'
    BY <1>11
       DEF RecycleStore, Goto, Store, CleanSessions, CleanWhenAvailable,
           ConnsTyped, PoolsTyped
  <1>12. ASSUME HcStart \/ HcFinish PROVE CleanSessions'
    BY SMTT(30), <1>1, <1>12 DEF HcStart, HcFinish, HcIdle
  <1>13. ASSUME HcVisit PROVE CleanSessions'
    <2>1. hc'.new = hc.new
      BY <1>13 DEF HcVisit, HealthTyped
    <2> QED BY <1>1, <1>13, <2>1 DEF HcVisit
  <1>14. ASSUME HcRemove PROVE CleanSessions'
    BY <1>14
       DEF HcRemove, Delete, CleanSessions, CleanWhenAvailable, PoolsTyped,
           HealthTyped
  <1>15. ASSUME HcClose PROVE CleanSessions'
    <2>1. hc.old \in Client /\ hc'.new = hc.new
      BY <1>15 DEF HcClose, HealthTyped
    <2> QED BY <1>1, <1>2, <1>15, <2>1 DEF HcClose
  <1>16. ASSUME HcNewClient PROVE CleanSessions'
    <2>1. ASSUME NEW c \in Client, session' = [session EXCEPT ![c] = "clean"],
                 hc' = [hc EXCEPT !.pc = "put", !.new = c]
          PROVE  CleanSessions'
      <3>1. /\ hc'.new = c /\ session'[c] # "used"
            /\ \A d \in Client : session'[d] = "used" => session[d] = "used"
        BY <2>1 DEF HealthTyped, ClientsTyped
      <3>2. UNCHANGED <<available, pc, ref>>
        BY <1>16 DEF HcNewClient
      <3> QED
        BY SMTT(30), <3>1, <3>2, PoolAssumption
           DEF CleanSessions, CleanWhenAvailable, PoolsTyped, ConnsTyped, ConnPc
    <2>2. CASE hc' \in {hc, [hc EXCEPT !.pc = "iterate"]} /\ UNCHANGED clientVars
      <3>1. hc'.new = hc.new
        BY <2>2 DEF HealthTyped
      <3> QED BY <1>1, <1>16, <2>2, <3>1 DEF HcNewClient
    <2> QED BY <1>16, <2>1, <2>2 DEF HcNewClient
  <1>17. ASSUME HcPut PROVE CleanSessions'
    <2>1. hc.new \in Client /\ hc'.new \in {Nil, hc.new}
      BY <1>17 DEF HcPut, HealthTyped
    <2> QED BY <1>1, <1>2, <1>17, <2>1 DEF HcPut
  <1>18. ASSUME HcStore PROVE CleanSessions'
    <2>1. hc.new # Nil /\ hc'.new = Nil
      BY <1>18 DEF HcStore, HealthTyped
    <2> QED
      BY <1>18, <2>1
         DEF HcStore, Store, CleanSessions, CleanWhenAvailable, PoolsTyped
  <1>19. ASSUME ShutdownStart \/ ShutdownClearBusy \/ ShutdownStop
         PROVE  CleanSessions'
    BY <1>1, <1>19 DEF ShutdownStart, ShutdownClearBusy, ShutdownStop
  <1>20. ASSUME ShutdownAvailable PROVE CleanSessions'
    <2>1. PICK k \in RangeNext(Pooled, sd.cursor) :
            Close(available[k]) \/ UNCHANGED clientVars
      BY <1>20 DEF ShutdownAvailable
    <2>2. available[k] \in Client
      BY DEF RangeNext, Pooled, PoolsTyped
    <2> QED BY <1>1, <1>2, <1>20, <2>1, <2>2 DEF ShutdownAvailable
  <1>21. ASSUME ShutdownClearAvailable PROVE CleanSessions'
    <2>1. hc'.new = hc.new
      BY <1>21 DEF ShutdownClearAvailable, HealthTyped
    <2> QED
      BY <1>21, <2>1
         DEF ShutdownClearAvailable, CleanSessions, CleanWhenAvailable
  <1>22. ASSUME ShutdownBusy PROVE CleanSessions'
    <2>1. PICK n \in RangeNext(Busy, sd.cursor) : Close(busy[n])
      BY <1>22 DEF ShutdownBusy
    <2>2. busy[n] \in Client
      BY DEF RangeNext, Busy, PoolsTyped
    <2> QED BY <1>1, <1>2, <1>22, <2>1, <2>2 DEF ShutdownBusy
  <1>23. ASSUME NEW c \in Client, Finalize(c) PROVE CleanSessions'
    BY <1>1, <1>2, <1>23 DEF Finalize
  <1> QED
    BY <1>3, <1>4, <1>5, <1>6, <1>7, <1>8, <1>9, <1>10, <1>11, <1>12, <1>13,
       <1>14, <1>15, <1>16, <1>17, <1>18, <1>19, <1>20, <1>21, <1>22, <1>23
       DEF Next, Disconnect, Connect, HealthCheck, Shutdown

\* The inductive invariant holds in every reachable state.
THEOREM Invariance == Spec => []IInv
  <1>1. IInv /\ UNCHANGED vars => IInv'
    <2> SUFFICES ASSUME IInv, UNCHANGED vars PROVE IInv'
      OBVIOUS
    <2>1. TypeOK' /\ AcceptLoop'
      BY SMTT(30) DEF IInv, TypeOK, PoolsTyped, ClientsTyped, AcceptTyped, ConnsTyped,
             HealthTyped, ShutdownTyped, AcceptLoop, vars
    <2>2. Ownership'
      BY DEF IInv, Ownership, vars
    <2>3. CleanSessions'
      BY DEF IInv, CleanSessions, CleanWhenAvailable, vars
    <2> QED BY <2>1, <2>2, <2>3 DEF IInv
  <1>2. IInv /\ Next => IInv'
    BY TypeStep, OwnershipStep, CleanStep DEF IInv
  <1> QED
    BY InitIInv, <1>1, <1>2, PTL DEF Spec

\* The variables of the proxy keep their types; a goroutine refers to a client
\* exactly at the program points between taking and giving it back.
THEOREM TypeCorrect == Spec => []TypeOK
  BY Invariance, PTL DEF IInv

\* For every interleaving of Connect, Disconnect, the health check and
\* Shutdown, a backend client is assigned to at most one incoming connection
\* and is not available while it is assigned.
THEOREM Exclusive == Spec => []ExclusiveAssignment
  <1>1. IInv => ExclusiveAssignment
    BY DEF IInv, Ownership, ExclusiveAssignment
  <1> QED
    BY Invariance, <1>1, PTL

\* The client that the next Connect takes from the pool carries no session
\* state of a connection that waited for its answers.
THEOREM CleanHandout == Spec => []CleanWhenAvailable
  <1>1. IInv => CleanWhenAvailable
    BY DEF IInv, CleanSessions
  <1> QED
    BY Invariance, <1>1, PTL

-----------------------------------------------------------------------------
(* The proxy implements Lease.                                             *)

\* Init establishes the second inductive invariant.
LEMMA InitLease == Init => LeaseInv /\ L!Init
  BY SMTT(30) DEF Init, LeaseInv, Idle, L!Init

\* A step that leaves the busy pool and the accept loop's client alone, and
\* moves no serving connection, keeps LeaseInv if it leaves no state in a session.
LEMMA QuietLease ==
  ASSUME TypeOK, LeaseInv,
         UNCHANGED busy, acc'.client \in {Nil, acc.client},
         \A n \in Conn : busy[n] # Nil => pc'[n] = pc[n],
         \A c \in Client : session'[c] = "used" => session[c] = "used"
  PROVE  LeaseInv'
  BY PoolAssumption DEF TypeOK, AcceptTyped, LeaseInv

\* A step that leaves the busy pool alone and sets one session clean is a
\* step of Lease.
LEMMA CleanLease ==
  ASSUME NEW c \in Client, UNCHANGED busy, session' = [session EXCEPT ![c] = "clean"]
  PROVE  L!Next
  BY DEF L!Next, L!Clean

\* Every step keeps LeaseInv and is a step of Lease or a stuttering step.
LEMMA StepLease ==
  ASSUME IInv, LeaseInv, Next
  PROVE  LeaseInv' /\ [L!Next]_(L!vars)
<1> USE DEF IInv, poolVars, clientVars, connVars
<1>0. TypeOK /\ PoolsTyped /\ ClientsTyped /\ AcceptTyped /\ ConnsTyped
        /\ HealthTyped
  BY DEF TypeOK
<1>1. ASSUME NEW n \in Conn, ConnectPick(n) PROVE LeaseInv' /\ [L!Next]_(L!vars)
  <2>1. UNCHANGED <<busy, session>> /\ acc'.client = acc.client
    BY <1>0, <1>1 DEF ConnectPick, AcceptTyped
  <2>2. busy[n] = Nil BY <1>1 DEF ConnectPick, LeaseInv
  <2>3. \A m \in Conn : m # n => pc'[m] = pc[m]
    BY <1>0, <1>1 DEF ConnectPick, ConnsTyped
  <2> QED BY <1>0, <2>1, <2>2, <2>3, QuietLease DEF L!vars
<1>2. CASE ConnectCheck
  <2>1. UNCHANGED <<busy, session>> /\ acc'.client \in {Nil, acc.client}
    BY SMTT(30), <1>0, <1>2 DEF ConnectCheck, AcceptTyped, Idle
  <2>2. \A m \in Conn : busy[m] # Nil => pc'[m] = pc[m]
    BY <1>0, <1>2 DEF ConnectCheck, ConnsTyped, AcceptLoop, LeaseInv
  <2> QED BY <1>0, <2>1, <2>2, QuietLease DEF L!vars
<1>3. CASE ConnectPop
  <2>1. UNCHANGED <<busy, session, pc>> /\ acc'.client = available[acc.key]
    BY <1>0, <1>3 DEF ConnectPop, AcceptTyped
  <2>2. acc.key \in Key BY <1>0 DEF AcceptTyped
  <2> QED
    BY <2>1, <2>2 DEF LeaseInv, CleanSessions, CleanWhenAvailable, L!vars
<1>4. CASE ConnectPut
  <2>1. acc.conn \in Conn /\ busy[acc.conn] = Nil
    BY <1>0, <1>4 DEF ConnectPut, AcceptTyped, AcceptLoop, LeaseInv
  <2>2. CASE acc.client = Nil
    <3>1. UNCHANGED <<busy, session, acc, pc>>
      BY <1>0, <1>4, <2>1, <2>2 DEF ConnectPut, PoolsTyped
    <3> QED BY <3>1, <2>2 DEF LeaseInv, L!vars
  <2>3. CASE acc.client # Nil
    <3>1. /\ acc.client \in Client /\ session[acc.client] # "used"
          /\ \A m \in Conn : busy[m] # acc.client
      BY <1>0, <2>3 DEF AcceptTyped, LeaseInv, Ownership
    <3>2. /\ busy' = [busy EXCEPT ![acc.conn] = acc.client]
          /\ session' = [session EXCEPT ![acc.client] =
                          Served(session[acc.client], IsConnected(acc.client))]
          /\ acc' = Idle
          /\ pc' = [pc EXCEPT ![acc.conn] = "serving"]
      BY <1>4, <2>3 DEF ConnectPut
    <3>3. Served(session[acc.client], IsConnected(acc.client)) \in L!SessionState
      BY DEF Served, L!SessionState
    <3>4. L!Grant(acc.conn, acc.client)
      BY <2>1, <3>1, <3>2, <3>3 DEF L!Grant
    <3>5. LeaseInv'
      BY <1>0, <3>2 DEF LeaseInv, Idle, PoolsTyped, ConnsTyped
    <3> QED BY <2>1, <3>1, <3>4, <3>5 DEF L!Next
  <2> QED BY <2>2, <2>3
<1>5. ASSUME NEW n \in Conn, DisconnectPop(n) PROVE LeaseInv' /\ [L!Next]_(L!vars)
  <2>1. UNCHANGED acc /\ pc' \in [Conn -> ConnPc]
        /\ \A m \in Conn : m # n => pc'[m] = pc[m]
    BY <1>0, <1>5 DEF DisconnectPop, Goto, ConnsTyped, ConnPc
  <2>2. CASE busy[n] = Nil
    <3>1. UNCHANGED <<busy, session>> BY <1>5, <2>2 DEF DisconnectPop
    <3> QED BY <2>1, <2>2, <3>1 DEF LeaseInv, L!vars
  <2>3. CASE busy[n] # Nil
    <3>1. /\ busy[n] \in Client /\ busy[n] # acc.client
          /\ busy' = [busy EXCEPT ![n] = Nil]
          /\ UNCHANGED session \/ session' = [session EXCEPT ![busy[n]] = "left"]
      BY <1>0, <1>5, <2>3 DEF DisconnectPop, PoolsTyped, Ownership
    <3>2. L!Release(n) BY <2>3, <3>1 DEF L!Release
    <3>3. acc.client # Nil => session'[acc.client] = session[acc.client]
      BY <1>0, <3>1 DEF ClientsTyped, AcceptTyped
    <3>4. LeaseInv' BY <1>0, <2>1, <3>1, <3>3 DEF LeaseInv, PoolsTyped
    <3> QED BY <3>2, <3>4 DEF L!Next
  <2> QED BY <2>2, <2>3
<1>6. ASSUME NEW n \in Conn, pc[n] # "serving",
             RecycleReset(n) \/ ReconnectClose(n) \/ ReconnectDial(n)
               \/ ReconnectStartup(n) \/ RecyclePut(n) \/ RecycleStore(n)
      PROVE  LeaseInv' /\ [L!Next]_(L!vars)
  <2>1. UNCHANGED <<busy, acc>> /\ \A m \in Conn : m # n => pc'[m] = pc[m]
    BY <1>0, <1>6 DEF RecycleReset, ReconnectClose, ReconnectDial,
       ReconnectStartup, RecyclePut, RecycleStore, Goto, ConnsTyped
  <2>2. \A m \in Conn : busy[m] # Nil => pc'[m] = pc[m]
    BY <1>6, <2>1 DEF LeaseInv
  <2>3. CASE UNCHANGED session BY <1>0, <2>1, <2>2, <2>3, QuietLease DEF L!vars
  <2>4. CASE session' = [session EXCEPT ![ref[n]] = "clean"] /\ ref[n] # Nil
    <3>1. ref[n] \in Client BY <1>0, <2>4 DEF ConnsTyped
    <3>2. \A c \in Client : session'[c] = "used" => session[c] = "used"
      BY <1>0, <2>4 DEF ClientsTyped
    <3> QED BY <1>0, <2>1, <2>2, <2>4, <3>1, <3>2, QuietLease, CleanLease
  <2>5. UNCHANGED session \/ (session' = [session EXCEPT ![ref[n]] = "clean"] /\ ref[n] # Nil)
    BY <1>0, <1>6 DEF RecycleReset, ReconnectClose, ReconnectDial,
       ReconnectStartup, RecyclePut, RecycleStore, Goto, ConnsTyped, ConnPc
  <2> QED BY <2>3, <2>4, <2>5
\* The background goroutines move no connection and hand out no client.
<1>7. ASSUME UNCHANGED <<busy, pc, acc>>,
             UNCHANGED session
               \/ \E c \in Client : session' = [session EXCEPT ![c] = "clean"]
      PROVE  LeaseInv' /\ [L!Next]_(L!vars)
  <2>1. \A c \in Client : session'[c] = "used" => session[c] = "used"
    BY <1>0, <1>7 DEF ClientsTyped
  <2>2. LeaseInv' BY <1>0, <1>7, <2>1, QuietLease
  <2> QED BY <1>7, <2>2, CleanLease DEF L!vars
<1>8. CASE HcStart \/ HealthCheck
  <2>1. CASE HcStart \/ HcVisit \/ HcFinish \/ HcRemove \/ HcStore
    BY <1>7, <2>1 DEF HcStart, HcVisit, HcFinish, HcRemove, HcStore
  <2>2. CASE HcClose
    <3>1. hc.old \in Client BY <1>0, <2>2 DEF HealthTyped, HcClose
    <3> QED BY <1>7, <2>2, <3>1 DEF HcClose, Close
  <2>3. CASE HcNewClient BY <1>7, <2>3 DEF HcNewClient
  <2>4. CASE HcPut
    <3>1. hc.new \in Client BY <1>0, <2>4 DEF HealthTyped, HcPut
    <3> QED BY <1>7, <2>4, <3>1 DEF HcPut, Close
  <2> QED BY <1>8, <2>1, <2>2, <2>3, <2>4 DEF HealthCheck
<1>9. CASE ShutdownStart \/ Shutdown
  <2>1. CASE ShutdownStart \/ ShutdownClearAvailable \/ ShutdownStop
    BY <1>7, <2>1 DEF ShutdownStart, ShutdownClearAvailable, ShutdownStop
  <2>2. CASE ShutdownAvailable
    <3>1. PICK k \in Pooled :
            IF IsConnected(available[k]) THEN Close(available[k])
                                         ELSE UNCHANGED clientVars
      BY <2>2 DEF ShutdownAvailable, RangeNext
    <3>2. available[k] \in Client BY <1>0, <3>1 DEF Pooled, PoolsTyped
    <3> QED BY <1>7, <2>2, <3>1, <3>2 DEF ShutdownAvailable, Close
  <2>3. CASE ShutdownBusy
    <3>1. PICK n \in Busy : Close(busy[n])
      BY <2>3 DEF ShutdownBusy, RangeNext
    <3>2. busy[n] \in Client BY <1>0, <3>1 DEF Busy, PoolsTyped
    <3> QED BY <1>7, <2>3, <3>1, <3>2 DEF ShutdownBusy, Close
  <2>4. CASE ShutdownClearBusy
    BY <2>4 DEF ShutdownClearBusy, LeaseInv, L!Next, L!ReleaseAll
  <2> QED BY <1>9, <2>1, <2>2, <2>3, <2>4 DEF Shutdown
<1>10. ASSUME NEW c \in Client, Finalize(c) PROVE LeaseInv' /\ [L!Next]_(L!vars)
  BY <1>7, <1>10 DEF Finalize, Close
<1>11. ASSUME NEW n \in Conn, Disconnect(n) PROVE LeaseInv' /\ [L!Next]_(L!vars)
  <2>1. DisconnectPop(n) \/ pc[n] # "serving"
    BY <1>11 DEF Disconnect, RecycleReset, ReconnectClose, ReconnectDial,
       ReconnectStartup, RecyclePut, RecycleStore, Goto
  <2> QED BY <1>5, <1>6, <1>11, <2>1 DEF Disconnect
<1> QED
  BY <1>1, <1>2, <1>3, <1>4, <1>8, <1>9, <1>10, <1>11 DEF Next, Connect

\* The same with stuttering.
LEMMA LeaseStep ==
  IInv /\ LeaseInv /\ [Next]_vars => LeaseInv' /\ [L!Next]_(L!vars)
<1>1. ASSUME LeaseInv, UNCHANGED vars PROVE LeaseInv' /\ UNCHANGED L!vars
  BY <1>1 DEF LeaseInv, vars, L!vars
<1> QED BY <1>1, StepLease

\* Everything the proxy does with its clients is what Lease allows: for every
\* interleaving of Connect, Disconnect, the health check and Shutdown.
THEOREM Refinement == Spec => LeaseSpec
<1> QED
  BY InitLease, Invariance, LeaseStep, PTL DEF Spec, LeaseSpec, L!Spec

-----------------------------------------------------------------------------
(* No client is lost.                                                      *)

\* While a client is in the hands of a Disconnect, the others cannot fill the
\* pool: Put is not refused.
LEMMA RoomInPool ==
  ASSUME RecyclingOnly, IInv, RecycleInv, NEW n \in Conn, ref[n] # Nil
  PROVE  ~PutRefused
<1>1. IsFiniteSet(Pooled)
  <2>1. IsFiniteSet(Key) BY PoolAssumption, FS_AddElement DEF Key
  <2>2. Pooled \in SUBSET Key BY DEF Pooled
  <2> QED BY <2>1, <2>2, FS_Subset
<1>2. ref[n] \in InitialClients
  BY DEF IInv, TypeOK, ConnsTyped, RecycleInv, OnlyInitial
<1> DEFINE others == InitialClients \ {ref[n]}
<1>3. IsFiniteSet(others) /\ Cardinality(others) = Cardinality(InitialClients) - 1
  BY <1>2, FS_RemoveElement DEF RecyclingOnly
<1>4. Cardinality(InitialClients) \in Nat /\ Cap \in Nat /\ Cardinality(Pooled) \in Nat
  BY <1>1, FS_CardinalityType, PoolAssumption DEF RecyclingOnly
<1>5. SUFFICES ASSUME PutRefused PROVE FALSE
  OBVIOUS
<1>6. Cardinality(others) < Cardinality(Pooled)
  <2>1. Cardinality(Pooled) >= Cap BY <1>5 DEF PutRefused, Size
  <2>2. Cardinality(InitialClients) <= Cap BY DEF RecyclingOnly
  <2> HIDE DEF others
  <2> QED BY SMTT(30), <1>3, <1>4, <2>1, <2>2
<1>7. PICK f : f = [k \in Pooled |-> available[k]]
  OBVIOUS
<1>8. f \in [Pooled -> others]
  <2>1. \A k \in Pooled : available[k] \in others
    BY DEF Pooled, IInv, TypeOK, PoolsTyped, Ownership, RecycleInv, OnlyInitial
  <2> QED BY <1>7, <2>1
<1>9. \E x, y \in Pooled : x # y /\ f[x] = f[y]
  <2> HIDE DEF others
  <2> QED BY <1>1, <1>3, <1>6, <1>8, FS_PigeonHole
<1> QED BY <1>7, <1>9 DEF Pooled, IInv, Ownership

\* createPoolAndClients stores each connected client under its own ID.
LEMMA InitRecycle == Init => RecycleInv
<1> SUFFICES ASSUME Init PROVE RecycleInv
  OBVIOUS
<1> USE PoolAssumption
<1>1. PICK f \in [InitialClients -> Port] :
        /\ \A c, d \in InitialClients : f[c] = f[d] => c = d
        /\ id = [c \in Client |-> IF c \in InitialClients THEN f[c] ELSE NoID]
        /\ available = [k \in Key |->
             IF \E c \in InitialClients : f[c] = k
             THEN CHOOSE c \in InitialClients : f[c] = k ELSE Nil]
  BY DEF Init
<1>2. \A k \in Key :
        \/ available[k] \in InitialClients /\ f[available[k]] = k
        \/ available[k] = Nil /\ ~\E c \in InitialClients : f[c] = k
  BY <1>1
<1>3. \A c \in InitialClients : f[c] \in Key /\ id[c] = f[c] /\ f[c] # NoID
  BY SMTT(30), <1>1 DEF Key
<1>4. NoClientLost
  <2> SUFFICES ASSUME NEW c \in InitialClients PROVE \E k \in Key : available[k] = c
    BY DEF NoClientLost
  <2> QED BY SMTT(30), <1>1, <1>2, <1>3
<1>5. \A c \in Client \ InitialClients : ~IsConnected(c) /\ \A k \in Key : available[k] # c
  BY <1>1, <1>2 DEF IsConnected
<1>6. \A c, d \in Client : IsConnected(c) /\ id[c] = id[d] => c = d
  BY <1>1, <1>3 DEF IsConnected
<1>7. \A k \in Key : available[k] # Nil => k # NoID /\ id[available[k]] = k
  BY <1>2, <1>3
<1>8. OnlyInitial
  <2>1. acc.client = Nil /\ \A n \in Conn : busy[n] = Nil /\ ref[n] = Nil BY DEF Init, Idle
  <2>2. \A c \in InitialClients : addr[c] BY DEF Init
  <2> QED BY <1>5, <2>1, <2>2 DEF OnlyInitial
<1>9. DistinctIDs BY <1>6 DEF DistinctIDs
<1>10. KeyedByID BY <1>7 DEF KeyedByID
<1>11. ReturnsConnected BY DEF Init, ReturnsConnected
<1>12. hc = HcIdle /\ sd.pc = "idle" BY DEF Init
<1> QED BY <1>4, <1>8, <1>9, <1>10, <1>11, <1>12 DEF RecycleInv

\* Every step of Connect and Disconnect keeps that; nothing else happens.
LEMMA StepRecycle ==
  ASSUME RecyclingOnly, IInv, LeaseInv, RecycleInv, Next
  PROVE  RecycleInv'
<1> USE DEF poolVars, clientVars, connVars
<1>0. /\ TypeOK /\ PoolsTyped /\ ClientsTyped /\ AcceptTyped /\ ConnsTyped
      /\ Ownership /\ AcceptLoop
      /\ hc = HcIdle /\ sd.pc = "idle"
      /\ OnlyInitial /\ DistinctIDs /\ KeyedByID /\ ReturnsConnected /\ NoClientLost
  BY DEF IInv, TypeOK, RecycleInv
<1>00. Nil \notin Client /\ NoID \notin Port /\ InitialClients \subseteq Client
  BY PoolAssumption
<1>a. ASSUME UNCHANGED <<id, addr, hc, sd>>, OnlyInitial', KeyedByID', ReturnsConnected',
             NoClientLost'
      PROVE  RecycleInv'
  <2>1. DistinctIDs' BY <1>0, <1>a DEF DistinctIDs, IsConnected
  <2>2. hc' = HcIdle /\ sd'.pc = "idle" BY <1>0, <1>a
  <2> QED BY <1>a, <2>1, <2>2 DEF RecycleInv, HcIdle
<1>1. ASSUME NEW n \in Conn, ConnectPick(n) PROVE RecycleInv'
  <2>1. UNCHANGED <<available, busy, id, addr, ref, key, hc, sd>> /\ acc'.client = acc.client
    BY <1>0, <1>1 DEF ConnectPick, AcceptTyped
  <2>2. \A m \in Conn : pc'[m] = pc[m] \/ pc'[m] = "connecting"
    BY <1>0, <1>1 DEF ConnectPick, ConnsTyped
  <2>3. OnlyInitial' BY <1>0, <2>1 DEF OnlyInitial, IsConnected
  <2>4. KeyedByID' BY <1>0, <2>1 DEF KeyedByID
  <2>5. ReturnsConnected' BY <1>0, <2>1, <2>2 DEF ReturnsConnected, IsConnected
  <2>6. NoClientLost' BY <1>0, <2>1 DEF NoClientLost
  <2> QED BY <1>a, <2>1, <2>3, <2>4, <2>5, <2>6
<1>2. CASE ConnectCheck
  <2>1. UNCHANGED <<available, busy, id, addr, ref, key, hc, sd>>
    BY <1>2 DEF ConnectCheck
  <2>2. acc.client = Nil BY <1>0, <1>2 DEF ConnectCheck, AcceptLoop
  <2>3. acc'.client = Nil BY SMTT(30), <1>0, <1>2, <2>2 DEF ConnectCheck, AcceptTyped, Idle
  <2>4. \A m \in Conn : pc'[m] = pc[m] \/ pc'[m] = "new"
    BY <1>0, <1>2 DEF ConnectCheck, ConnsTyped
  <2>5. OnlyInitial' BY <1>0, <2>1, <2>2, <2>3 DEF OnlyInitial, IsConnected
  <2>6. KeyedByID' BY <1>0, <2>1 DEF KeyedByID
  <2>7. ReturnsConnected' BY <1>0, <2>1, <2>4 DEF ReturnsConnected, IsConnected
  <2>8. NoClientLost' BY <1>0, <2>1, <2>2, <2>3 DEF NoClientLost
  <2> QED BY <1>a, <2>1, <2>5, <2>6, <2>7, <2>8
<1>3. CASE ConnectPop
  <2>1. UNCHANGED <<busy, id, addr, pc, ref, key, hc, sd>> BY <1>3 DEF ConnectPop
  <2>2. acc.client = Nil /\ acc.key \in Key
    BY <1>0, <1>3 DEF ConnectPop, AcceptLoop, AcceptTyped
  <2>3. acc'.client = available[acc.key] BY <1>0, <1>3 DEF ConnectPop, AcceptTyped
  <2>4. \A k \in Key : available'[k] = IF k = acc.key THEN Nil ELSE available[k]
    BY <1>0, <1>3, <2>2 DEF ConnectPop, Delete, PoolsTyped
  <2>5. OnlyInitial' BY SMTT(30), <1>0, <1>00, <2>1, <2>2, <2>3, <2>4 DEF OnlyInitial, IsConnected
  <2>6. KeyedByID' BY <1>0, <2>1, <2>4 DEF KeyedByID
  <2>7. ReturnsConnected' BY <1>0, <2>1 DEF ReturnsConnected, IsConnected
  <2>8. NoClientLost' BY <1>0, <1>00, <2>1, <2>2, <2>3, <2>4 DEF NoClientLost
  <2> QED BY <1>a, <2>1, <2>5, <2>6, <2>7, <2>8
<1>4. CASE ConnectPut
  <2>1. UNCHANGED <<available, id, addr, ref, key, hc, sd>> BY <1>4 DEF ConnectPut
  <2>2. acc.conn \in Conn /\ busy[acc.conn] = Nil
    BY <1>0, <1>4 DEF ConnectPut, AcceptTyped, AcceptLoop, LeaseInv
  <2>3. \A m \in Conn : busy'[m] = IF m = acc.conn THEN acc.client ELSE busy[m]
    BY <1>0, <1>4, <2>2 DEF ConnectPut, PoolsTyped
  <2>4. acc'.client = Nil BY SMTT(30), <1>4 DEF ConnectPut, Idle
  <2>5. \A m \in Conn : pc'[m] = pc[m] \/ pc'[m] = "serving"
    BY <1>0, <1>4 DEF ConnectPut, ConnsTyped
  <2>6. OnlyInitial' BY <1>0, <1>00, <2>1, <2>3, <2>4 DEF OnlyInitial, IsConnected
  <2>7. KeyedByID' BY <1>0, <2>1 DEF KeyedByID
  <2>8. ReturnsConnected' BY <1>0, <2>1, <2>5 DEF ReturnsConnected, IsConnected
  <2>9. NoClientLost' BY SMTT(30), <1>0, <1>00, <2>1, <2>2, <2>3 DEF NoClientLost
  <2> QED BY <1>a, <2>1, <2>6, <2>7, <2>8, <2>9
<1>5. ASSUME NEW n \in Conn, DisconnectPop(n) PROVE RecycleInv'
  <2>1. UNCHANGED <<available, id, addr, acc, key, hc, sd>> BY <1>5 DEF DisconnectPop
  <2>2. ref[n] = Nil BY <1>0, <1>5 DEF DisconnectPop, Goto, ConnsTyped
  <2>3. \A m \in Conn : /\ busy'[m] = IF m = n THEN Nil ELSE busy[m]
                        /\ ref'[m] = IF m = n THEN busy[n] ELSE ref[m]
    BY <1>0, <1>5, <2>2 DEF DisconnectPop, Goto, PoolsTyped, ConnsTyped
  <2>4. \A m \in Conn : IF m = n THEN pc'[m] \in {"new", "recycle"} ELSE pc'[m] = pc[m]
    BY <1>0, <1>5 DEF DisconnectPop, Goto, ConnsTyped
  <2>5. OnlyInitial' BY SMTT(30), <1>0, <1>00, <2>1, <2>3 DEF OnlyInitial, IsConnected
  <2>6. KeyedByID' BY <1>0, <2>1 DEF KeyedByID
  <2>7. ReturnsConnected' BY <1>0, <2>1, <2>3, <2>4 DEF ReturnsConnected, IsConnected
  <2>8. NoClientLost' BY SMTT(30), <1>0, <1>00, <2>1, <2>2, <2>3 DEF NoClientLost
  <2> QED BY <1>a, <2>1, <2>5, <2>6, <2>7, <2>8
<1>6. ASSUME NEW n \in Conn, RecycleReset(n) \/ ReconnectStartup(n) PROVE RecycleInv'
  <2>1. UNCHANGED <<available, busy, id, addr, acc, ref, key, hc, sd>>
    BY <1>6 DEF RecycleReset, ReconnectStartup
  <2>2. pc[n] = "startup" => IsConnected(ref[n]) BY <1>0 DEF ReturnsConnected
  <2>3. PICK to \in {"put", "reconnect"} :
          pc' = [pc EXCEPT ![n] = to] /\ (to = "put" => IsConnected(ref[n]))
    <3>1. CASE RecycleReset(n) BY <3>1 DEF RecycleReset, Goto
    <3>2. CASE ReconnectStartup(n) BY <2>2, <3>2 DEF ReconnectStartup, Goto
    <3> QED BY <1>6, <3>1, <3>2
  <2>4. \A m \in Conn : pc'[m] = IF m = n THEN to ELSE pc[m]
    BY <1>0, <2>3 DEF ConnsTyped
  <2>5. OnlyInitial' BY <1>0, <2>1 DEF OnlyInitial, IsConnected
  <2>6. KeyedByID' BY <1>0, <2>1 DEF KeyedByID
  <2>7. ReturnsConnected' BY SMTT(30), <1>0, <2>1, <2>3, <2>4 DEF ReturnsConnected, IsConnected
  <2>8. NoClientLost' BY <1>0, <2>1 DEF NoClientLost
  <2> QED BY <1>a, <2>1, <2>5, <2>6, <2>7, <2>8
<1>7. ASSUME NEW n \in Conn, ref[n] # Nil, UNCHANGED <<available, busy, addr, acc, ref, key, hc, sd>>,
             NEW i \in Key, id' = [id EXCEPT ![ref[n]] = i],
             i = NoID \/ FreePort(i),
             NEW to \in ConnPc, pc' = [pc EXCEPT ![n] = to],
             to = "dial" \/ (i # NoID /\ to \in {"startup", "put"})
      PROVE  RecycleInv'
  <2>1. ref[n] \in InitialClients BY <1>0, <1>7 DEF ConnsTyped, OnlyInitial
  <2>2. \A c \in Client : id'[c] = IF c = ref[n] THEN i ELSE id[c]
    BY <1>0, <1>7 DEF ClientsTyped
  <2>3. \A m \in Conn : pc'[m] = IF m = n THEN to ELSE pc[m]
    BY <1>0, <1>7 DEF ConnsTyped
  <2>4. \A k \in Key : available[k] # Nil => available[k] \in Client /\ available[k] # ref[n]
    BY <1>0, <1>7 DEF Ownership, PoolsTyped
  <2>5. \A m \in Conn : m # n /\ ref[m] # Nil => ref[m] \in Client /\ ref[m] # ref[n]
    BY <1>0, <1>7 DEF Ownership, ConnsTyped
  <2>6. \A m \in Conn : pc[m] \in {"startup", "put", "store"} => ref[m] # Nil
    BY <1>0 DEF ConnsTyped, ConnPc
  <2>7. DistinctIDs'
    <3>1. \A c \in Client : i # NoID => id[c] # i BY <1>7 DEF FreePort
    <3> SUFFICES ASSUME NEW c \in Client, NEW d \in Client, id'[c] # NoID, id'[c] = id'[d]
                 PROVE  c = d
      BY DEF DistinctIDs, IsConnected
    <3> QED BY <1>0, <2>2, <3>1 DEF DistinctIDs, IsConnected
  <2>8. NoClientLost'
    <3>1. UNCHANGED <<available, busy, acc, ref>> BY <1>7
    <3> QED BY <1>0, <3>1 DEF NoClientLost
  <2>9. KeyedByID'
    <3>1. available' = available BY <1>7
    <3> QED BY <1>0, <2>2, <2>4, <3>1 DEF KeyedByID
  <2>10. ReturnsConnected'
    <3>0. ref' = ref /\ key' = key BY <1>7
    <3> SUFFICES ASSUME NEW m \in Conn
                 PROVE /\ pc'[m] \in {"startup", "put", "store"} => id'[ref[m]] # NoID
                       /\ pc'[m] = "store" => key[m] = id'[ref[m]]
      BY <3>0 DEF ReturnsConnected, IsConnected
    <3>1. CASE m = n BY <1>00, <1>7, <2>1, <2>2, <2>3, <3>1
    <3>2. CASE m # n
      BY <1>0, <2>2, <2>3, <2>5, <2>6, <3>2 DEF ReturnsConnected, IsConnected
    <3> QED BY <3>1, <3>2
  <2>11. OnlyInitial'
    <3>1. UNCHANGED <<available, busy, addr, acc, ref>> BY <1>7
    <3>2. \A c \in Client \ InitialClients : id'[c] = id[c] BY <2>1, <2>2
    <3> QED BY <1>0, <3>1, <3>2 DEF OnlyInitial, IsConnected
  <2>12. hc' = HcIdle /\ sd'.pc = "idle" BY <1>0, <1>7
  <2> QED BY <2>7, <2>8, <2>9, <2>10, <2>11, <2>12 DEF RecycleInv, HcIdle
<1>8. ASSUME NEW n \in Conn, ReconnectClose(n) PROVE RecycleInv'
  <2>1. ref[n] # Nil BY <1>0, <1>8 DEF ReconnectClose, Goto, ConnsTyped, ConnPc
  <2>2. NoID \in Key /\ "dial" \in ConnPc BY DEF Key, ConnPc
  <2>3. /\ UNCHANGED <<available, busy, addr, acc, ref, key, hc, sd>>
        /\ id' = [id EXCEPT ![ref[n]] = NoID] /\ pc' = [pc EXCEPT ![n] = "dial"]
    BY <1>8 DEF ReconnectClose, Goto
  <2> QED BY <1>7, <2>1, <2>2, <2>3
<1>9. ASSUME NEW n \in Conn, ReconnectDial(n) PROVE RecycleInv'
  <2>1. ref[n] \in Client /\ ref[n] # Nil
    BY <1>0, <1>00, <1>9 DEF ReconnectDial, ConnsTyped, ConnPc
  <2>2. addr[ref[n]] BY <2>1, <1>0 DEF OnlyInitial
  <2>a. hc.pc # "close" BY SMTT(30), <1>0 DEF HcIdle
  <2>3. PICK p \in Port : FreePort(p) /\ id' = [id EXCEPT ![ref[n]] = p]
    BY <1>9, <2>a, <2>2 DEF ReconnectDial, RecyclingOnly
  <2>4. PICK to \in {"startup", "put"} : pc' = [pc EXCEPT ![n] = to]
    BY <1>9, <2>a, <2>2 DEF ReconnectDial, RecyclingOnly, Goto
  <2>5. p \in Key /\ p # NoID /\ to \in ConnPc BY <1>00 DEF Key, ConnPc
  <2>6. UNCHANGED <<available, busy, addr, acc, ref, key, hc, sd>> BY <1>9 DEF ReconnectDial
  <2> QED BY <1>7, <2>1, <2>3, <2>4, <2>5, <2>6
<1>10. ASSUME NEW n \in Conn, RecyclePut(n) PROVE RecycleInv'
  <2>1. ref[n] # Nil BY <1>0, <1>10 DEF RecyclePut, Goto, ConnsTyped, ConnPc
  <2>2. ~PutRefused BY <2>1, RoomInPool
  <2>3. UNCHANGED <<available, busy, id, addr, acc, ref, hc, sd>> /\ pc[n] = "put"
    BY <1>10, <2>2 DEF RecyclePut, Goto
  <2>4. \A m \in Conn : /\ pc'[m] = IF m = n THEN "store" ELSE pc[m]
                        /\ key'[m] = IF m = n THEN id[ref[n]] ELSE key[m]
    BY <1>0, <1>10, <2>2 DEF RecyclePut, Goto, ConnsTyped
  <2>5. OnlyInitial' BY <1>0, <2>3 DEF OnlyInitial, IsConnected
  <2>6. KeyedByID' BY <1>0, <2>3 DEF KeyedByID
  <2>7. ReturnsConnected' BY <1>0, <2>3, <2>4 DEF ReturnsConnected, IsConnected
  <2>8. NoClientLost' BY <1>0, <2>3 DEF NoClientLost
  <2> QED BY <1>a, <2>3, <2>5, <2>6, <2>7, <2>8
<1>11. ASSUME NEW n \in Conn, RecycleStore(n) PROVE RecycleInv'
  <2>1. UNCHANGED <<busy, id, addr, acc, hc, sd>> /\ pc[n] = "store"
    BY <1>11 DEF RecycleStore, Goto
  <2>2. ref[n] \in Client /\ key[n] \in Key
    BY <1>0, <2>1 DEF ConnsTyped, ConnPc
  <2>3. key[n] = id[ref[n]] /\ key[n] # NoID
    BY <1>0, <2>1 DEF ReturnsConnected, IsConnected
  <2>4. available[key[n]] = Nil
    <3> SUFFICES ASSUME available[key[n]] # Nil PROVE FALSE
      OBVIOUS
    <3>1. available[key[n]] \in Client /\ id[available[key[n]]] = id[ref[n]]
      BY <1>0, <2>2, <2>3 DEF PoolsTyped, KeyedByID
    <3>2. available[key[n]] = ref[n] BY <1>0, <2>2, <2>3, <3>1 DEF DistinctIDs, IsConnected
    <3> QED BY <1>0, <2>2, <3>2 DEF Ownership
  <2>5. \A k \in Key : available'[k] = IF k = key[n] THEN ref[n] ELSE available[k]
    BY <1>0, <1>11, <2>2 DEF RecycleStore, Store, PoolsTyped
  <2>6. \A m \in Conn : /\ ref'[m] = IF m = n THEN Nil ELSE ref[m]
                        /\ pc'[m] = IF m = n THEN "new" ELSE pc[m]
                        /\ m # n => key'[m] = key[m]
    BY <1>0, <1>11 DEF RecycleStore, Goto, ConnsTyped
  <2>7. OnlyInitial'
    <3>1. ref[n] \in InitialClients BY <1>0, <2>2 DEF OnlyInitial
    <3> QED BY SMTT(30), <1>0, <1>00, <2>1, <2>5, <2>6, <3>1 DEF OnlyInitial, IsConnected
  <2>8. KeyedByID' BY <1>0, <2>1, <2>3, <2>5 DEF KeyedByID
  <2>9. ReturnsConnected' BY <1>0, <2>1, <2>6 DEF ReturnsConnected, IsConnected
  <2>10. NoClientLost'
    BY SMTT(30), <1>0, <1>00, <2>1, <2>2, <2>4, <2>5, <2>6 DEF NoClientLost
  <2> QED BY <1>a, <2>1, <2>7, <2>8, <2>9, <2>10
<1>12. ASSUME NEW c \in Client, Finalize(c) PROVE RecycleInv'
  <2>1. c \in InitialClients BY <1>0, <1>12 DEF Finalize, OnlyInitial
  <2>2. ~Unreferenced(c) BY <1>0, <2>1 DEF NoClientLost, Unreferenced
  <2> QED BY <1>12, <2>2 DEF Finalize
<1>13. ~HcStart /\ ~HealthCheck
  BY DEF HcStart, HealthCheck, HcVisit, HcFinish, HcRemove, HcClose, HcNewClient,
     HcPut, HcStore, HcIdle, RecyclingOnly, RecycleInv
<1>14. ~ShutdownStart /\ ~Shutdown
  <2>1. sd.calls \in 0..0 BY DEF IInv, TypeOK, ShutdownTyped, RecyclingOnly
  <2> QED BY SMTT(30), <2>1 DEF ShutdownStart, Shutdown, ShutdownAvailable, ShutdownClearAvailable,
          ShutdownBusy, ShutdownClearBusy, ShutdownStop, RecyclingOnly, RecycleInv
<1> QED
  BY <1>1, <1>2, <1>3, <1>4, <1>5, <1>6, <1>8, <1>9, <1>10, <1>11, <1>12, <1>13, <1>14
  DEF Next, Connect, Disconnect

\* While only Connect and Disconnect work on the pool and no dial fails, the
\* clients of the pool, and those that Disconnect is about to put back, are
\* connected and under their own IDs, and none is lost.
THEOREM Recycling ==
  ASSUME RecyclingOnly PROVE Spec => []RecycleInv
<1>1. IInv /\ LeaseInv /\ [Next]_vars => LeaseInv' BY LeaseStep
<1>2. IInv /\ LeaseInv /\ RecycleInv /\ [Next]_vars => RecycleInv'
  <2>1. ASSUME RecycleInv, UNCHANGED vars PROVE RecycleInv'
    <3>1. UNCHANGED <<available, busy, id, addr, pc, ref, key, acc, hc, sd>>
      BY <2>1 DEF vars, poolVars, clientVars, connVars
    <3>2. OnlyInitial' /\ DistinctIDs'
      BY <2>1, <3>1 DEF RecycleInv, OnlyInitial, DistinctIDs, IsConnected
    <3>3. KeyedByID' /\ ReturnsConnected'
      BY <2>1, <3>1 DEF RecycleInv, KeyedByID, ReturnsConnected, IsConnected
    <3>4. NoClientLost' BY <2>1, <3>1 DEF RecycleInv, NoClientLost
    <3>5. hc' = HcIdle /\ sd'.pc = "idle" BY <2>1, <3>1 DEF RecycleInv
    <3> QED BY <3>2, <3>3, <3>4, <3>5 DEF RecycleInv, HcIdle
  <2> QED BY <2>1, StepRecycle
<1> QED BY InitLease, InitRecycle, Invariance, <1>1, <1>2, PTL DEF Spec

\* Whatever connections come and go and whichever resets and handshakes fail,
\* Connect, Disconnect and recycleClientConnection neither lose a client of
\* the pool nor overwrite one: a Put is not refused and its key is free.
THEOREM CapacityKept ==
  ASSUME RecyclingOnly PROVE Spec => []NoClientLost
<1>1. RecycleInv => NoClientLost BY DEF RecycleInv
<1>2. Spec => []RecycleInv BY Recycling
<1> QED BY <1>1, <1>2, PTL

=============================================================================
