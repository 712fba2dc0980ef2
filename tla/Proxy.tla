------------------------------- MODULE Proxy -------------------------------
(***************************************************************************)
(* The connection pool of one proxy (network/proxy.go, network/client.go,  *)
(* pool/pool.go): incoming connections borrow a backend client from the    *)
(* pool of available clients (Connect), hand it back when they close       *)
(* (Disconnect, recycleClientConnection), while a scheduled health check   *)
(* replaces every available client and Shutdown empties both pools.        *)
(*                                                                         *)
(* No lock protects a whole operation.  Each operation on a pool (a        *)
(* sync.Map) and each blocking call on a client is one step here, so that  *)
(* the goroutines interleave exactly where the code lets them:             *)
(*   - the accept loop of the server runs Connect, one call at a time;     *)
(*   - one goroutine per incoming connection runs Disconnect;              *)
(*   - the scheduler runs at most one health check (SingletonMode);        *)
(*   - the goroutine that stops the server runs Shutdown, ShutdownCalls    *)
(*     times (Server.Shutdown and Server.OnShutdown both call it).         *)
(* Straight-line assignments to the fields of one client between two       *)
(* blocking calls are one step.                                            *)
(*                                                                         *)
(* A client whose socket is open has conn # nil, connected = true and      *)
(* ID # ""; Close resets the three together, so id[c] # NoID stands for    *)
(* all of them.                                                            *)
(***************************************************************************)
EXTENDS Naturals, FiniteSets

CONSTANTS
  Conn,           \* incoming connections; a slot is reused after it closed
  Client,         \* *Client objects; an unreferenced one may be reallocated
  Port,           \* local addresses of backend sockets, hashed into IDs
  InitialClients, \* the clients createPoolAndClients puts into the pool
  Cap,            \* capacity of AvailableConnections
  Startup,        \* TRUE iff startupParams (with a user) are configured
  Faults,         \* which calls may fail: subset of FaultKinds
  HealthChecks,   \* TRUE iff the health check may run
  ShutdownCalls,  \* how many times Shutdown is called
  Rank,           \* the order in which Range walks the keys of a pool
  Nil,            \* the nil *Client
  NoID,           \* the empty client ID
  NoConn          \* no incoming connection

FaultKinds == {"dial", "resolve", "startup", "reset"}

Key == Port \cup {NoID}

ASSUME PoolAssumption ==
  /\ IsFiniteSet(Port)
  /\ Nil \notin Client
  /\ NoID \notin Port
  /\ NoConn \notin Conn
  /\ Cap \in Nat \ {0}
  /\ Startup \in BOOLEAN
  /\ HealthChecks \in BOOLEAN
  /\ Faults \subseteq FaultKinds
  /\ ShutdownCalls \in Nat
  /\ InitialClients \subseteq Client
  /\ Rank \in [Key \cup Conn -> Nat \ {0}]
  /\ \A j, k \in Key \cup Conn : Rank[j] = Rank[k] => j = k

VARIABLES
  available, \* pr.AvailableConnections: the client stored under each key
  busy,      \* pr.busyConnections: the client of each incoming connection
  id,        \* client.ID, NoID iff the socket is closed
  addr,      \* whether client.Address and client.Network are still set
  auth,      \* whether the backend session finished pgStartup
  session,   \* what the backend session keeps of its connections: SessionState
  acc,       \* the accept loop inside Connect: pc, conn, clientID, client
  pc,        \* per connection: where its goroutine is
  ref,       \* per connection: the client local to Disconnect
  key,       \* per connection: the key Put is about to store under
  hc,        \* the health check: pc, iteration, client, key
  sd,        \* Shutdown: pc, keys or connections visited, calls made
  crashed    \* "no", or the call whose nil dereference ended the process

poolVars   == <<available, busy>>
clientVars == <<id, addr, auth, session>>
connVars   == <<pc, ref, key>>
vars == <<available, busy, id, addr, auth, session, acc, pc, ref, key, hc, sd,
          crashed>>

-----------------------------------------------------------------------------
(* Pool operations.                                                        *)

Pooled == {k \in Key : available[k] # Nil}

Busy == {n \in Conn : busy[n] # Nil}

Size == Cardinality(Pooled)

\* IsExhausted: Cap() > 0 holds by PoolAssumption.
IsExhausted == Size = 0

\* Mutant of PutRefused: the last slot is never filled.
PutRefusedEarly == Size + 1 >= Cap

\* The capacity test of Put; the Store that follows is a step of its own.
PutRefused == Size >= Cap

\* Range over the keys S of a pool walks them by the hash of the key: it goes
\* on to the first key after the cursor that is in the pool by then, so that
\* a key stored or deleted meanwhile is visited if it lies ahead.
RangeNext(S, cursor) ==
  {k \in S : /\ Rank[k] > cursor
             /\ \A j \in S : Rank[j] > cursor => Rank[k] <= Rank[j]}

Store(k, c) == available' = [available EXCEPT ![k] = c]

\* Mutant of Delete: Pop returns the value without deleting it.
DeleteNothing(k) == UNCHANGED available

Delete(k) == available' = [available EXCEPT ![k] = Nil]

(* Clients.                                                                *)

IsConnected(c) == id[c] # NoID

\* The local address of a new socket is not that of another open socket.
FreePort(p) == \A c \in Client : id[c] # p

\* No pool and no goroutine refers to c.
Unreferenced(c) ==
  /\ \A k \in Key : available[k] # c
  /\ \A n \in Conn : busy[n] # c /\ ref[n] # c
  /\ c \notin {acc.client, hc.old, hc.new}
  /\ c \notin hc.detached

\* "used": it has the state of a connection; "left": a connection ended before
\* its queries were answered, and what the session holds since is not known.
SessionState == {"clean", "used", "left"}

\* A session in state s serves one more connection, if it is open.
Served(s, open) == IF ~open THEN "clean" ELSE IF s = "left" THEN s ELSE "used"

Idle == [pc |-> "idle", conn |-> NoConn, key |-> NoID, client |-> Nil]

HcIdle == [pc |-> "idle", cursor |-> 0, detached |-> {},
           live |-> TRUE, old |-> Nil, new |-> Nil, key |-> NoID]

\* createPoolAndClients fills the pool with connected clients, or exits.
Init ==
  /\ \E f \in [InitialClients -> Port] :
       /\ \A c, d \in InitialClients : f[c] = f[d] => c = d
       /\ id = [c \in Client |-> IF c \in InitialClients THEN f[c] ELSE NoID]
       /\ available = [k \in Key |->
            IF \E c \in InitialClients : f[c] = k
            THEN CHOOSE c \in InitialClients : f[c] = k ELSE Nil]
  /\ busy = [n \in Conn |-> Nil]
  /\ addr = [c \in Client |-> c \in InitialClients]
  /\ auth = [c \in Client |-> c \in InitialClients /\ Startup]
  /\ session = [c \in Client |-> "clean"]
  /\ acc = Idle
  /\ pc = [n \in Conn |-> "new"]
  /\ ref = [n \in Conn |-> Nil]
  /\ key = [n \in Conn |-> NoID]
  /\ hc = HcIdle
  /\ sd = [pc |-> "idle", cursor |-> 0, calls |-> 0]
  /\ crashed = "no"

Running == crashed = "no"

\* Close: the socket and every field that names it are reset.
Close(c) ==
  /\ id' = [id EXCEPT ![c] = NoID]
  /\ addr' = [addr EXCEPT ![c] = FALSE]
  /\ auth' = [auth EXCEPT ![c] = FALSE]
  /\ session' = [session EXCEPT ![c] = "clean"]

-----------------------------------------------------------------------------
(* Connect, called by OnOpen in the accept loop.                           *)

\* ForEach stops at the first key; with an empty pool clientID stays "".
ConnectPick(n) ==
  /\ Running /\ acc.pc = "idle" /\ pc[n] = "new"
  /\ \E k \in IF Pooled = {} THEN {NoID} ELSE Pooled :
       acc' = [acc EXCEPT !.pc = "check", !.conn = n, !.key = k]
  /\ pc' = [pc EXCEPT ![n] = "connecting"]
  /\ UNCHANGED <<poolVars, clientVars, ref, key, hc, sd, crashed>>

\* ErrPoolExhausted makes OnOpen close the incoming connection.
ConnectCheck ==
  /\ Running /\ acc.pc = "check"
  /\ \/ /\ IsExhausted
        /\ acc' = Idle
        /\ pc' = [pc EXCEPT ![acc.conn] = "new"]
     \/ /\ ~IsExhausted
        /\ acc' = [acc EXCEPT !.pc = "pop"]
        /\ UNCHANGED pc
  /\ UNCHANGED <<poolVars, clientVars, ref, key, hc, sd, crashed>>

\* Pop returns nil when the key is no longer in the pool.
ConnectPop ==
  /\ Running /\ acc.pc = "pop"
  /\ acc' = [acc EXCEPT !.pc = "put", !.key = NoID,
                          !.client = available[acc.key]]
  /\ Delete(acc.key)
  /\ UNCHANGED <<busy, clientVars, connVars, hc, sd, crashed>>

\* IsHealthy only logs.  busyConnections has no capacity and accepts a nil
\* *Client; the client.ID that follows dereferences it.
ConnectPut ==
  /\ Running /\ acc.pc = "put"
  /\ busy' = [busy EXCEPT ![acc.conn] = acc.client]
  /\ \/ /\ acc.client = Nil
        /\ crashed' = "Connect"
        /\ UNCHANGED <<acc, pc, session>>
     \/ /\ acc.client # Nil
        /\ session' = [session EXCEPT ![acc.client] = Served(@, IsConnected(acc.client))]
        /\ acc' = Idle
        /\ pc' = [pc EXCEPT ![acc.conn] = "serving"]
        /\ UNCHANGED crashed
  /\ UNCHANGED <<available, id, addr, auth, ref, key, hc, sd>>

-----------------------------------------------------------------------------
(* Disconnect, called by OnClose in the goroutine of the connection.       *)

Goto(n, from, to) == pc[n] = from /\ pc' = [pc EXCEPT ![n] = to]

\* Mutant of DisconnectPop: the nil check is dropped.
DisconnectPopUnchecked(n) ==
  /\ Running
  /\ Goto(n, "serving", "recycle")
  /\ ref' = [ref EXCEPT ![n] = busy[n]]
  /\ busy' = [busy EXCEPT ![n] = Nil]
  /\ UNCHANGED <<available, clientVars, acc, key, hc, sd, crashed>>

\* Mutant of DisconnectPop: a client that is already closed is not recycled,
\* and its entry stays.
DisconnectPopConnected(n) ==
  /\ Running
  /\ \/ /\ busy[n] # Nil => ~IsConnected(busy[n])
        /\ Goto(n, "serving", "new")
        /\ UNCHANGED <<busy, ref>>
     \/ /\ busy[n] # Nil /\ IsConnected(busy[n])
        /\ Goto(n, "serving", "recycle")
        /\ ref' = [ref EXCEPT ![n] = busy[n]]
        /\ busy' = [busy EXCEPT ![n] = Nil]
  /\ UNCHANGED <<available, clientVars, acc, key, hc, sd, crashed>>

\* The client is gone from busyConnections only after Shutdown cleared it.
\* The connection may end before all its queries are answered.
DisconnectPop(n) ==
  /\ Running
  /\ \/ /\ busy[n] = Nil
        /\ Goto(n, "serving", "new")
        /\ UNCHANGED <<busy, ref, session>>
     \/ /\ busy[n] # Nil
        /\ Goto(n, "serving", "recycle")
        /\ ref' = [ref EXCEPT ![n] = busy[n]]
        /\ busy' = [busy EXCEPT ![n] = Nil]
        /\ \/ UNCHANGED session
           \/ /\ IsConnected(busy[n])
              /\ session' = [session EXCEPT ![busy[n]] = "left"]
  /\ UNCHANGED <<available, id, addr, auth, acc, key, hc, sd, crashed>>

\* Mutant of RecycleReset: a failed reset is only logged.
RecycleResetUnchecked(n) ==
  /\ Running /\ pc[n] = "recycle" /\ Startup /\ IsConnected(ref[n])
  /\ Goto(n, "recycle", "put")
  /\ \/ session' = [session EXCEPT ![ref[n]] = "clean"]
     \/ (session[ref[n]] = "left" \/ "reset" \in Faults) /\ UNCHANGED session
  /\ UNCHANGED <<poolVars, id, addr, auth, acc, ref, key, hc, sd, crashed>>

\* ResetSession: DISCARD ALL keeps the socket and cleans the session.  It
\* returns nil at the first ReadyForQuery, which on a session somebody left is
\* perhaps that of an earlier query, with DISCARD ALL unanswered or refused.
RecycleReset(n) ==
  /\ Running /\ pc[n] = "recycle" /\ Startup /\ IsConnected(ref[n])
  /\ \/ /\ Goto(n, "recycle", "put")
        /\ \/ session' = [session EXCEPT ![ref[n]] = "clean"]
           \/ session[ref[n]] = "left" /\ UNCHANGED session
     \/ /\ "reset" \in Faults
        /\ Goto(n, "recycle", "reconnect")
        /\ UNCHANGED session
  /\ UNCHANGED <<poolVars, id, addr, auth, acc, ref, key, hc, sd, crashed>>

\* Mutant of ReconnectClose: address and network are not restored.
ReconnectCloseErased(n) ==
  /\ Running
  /\ \/ Goto(n, "recycle", "dial") /\ (~Startup \/ ~IsConnected(ref[n]))
     \/ Goto(n, "reconnect", "dial")
  /\ Close(ref[n])
  /\ UNCHANGED <<poolVars, acc, ref, key, hc, sd, crashed>>

\* Reconnect, up to the dial: Close, then restore address and network.
\* Reached directly, or after a failed reset.
ReconnectClose(n) ==
  /\ Running
  /\ \/ Goto(n, "recycle", "dial") /\ (~Startup \/ ~IsConnected(ref[n]))
     \/ Goto(n, "reconnect", "dial")
  /\ id' = [id EXCEPT ![ref[n]] = NoID]
  /\ auth' = [auth EXCEPT ![ref[n]] = FALSE]
  /\ session' = [session EXCEPT ![ref[n]] = "clean"]
  /\ UNCHANGED <<poolVars, addr, acc, ref, key, hc, sd, crashed>>

\* The dial needs the address, which a Close by another goroutine erases.
\* A failed dial is only logged: the client stays closed and is put back.
\* A Close right after a successful one takes the c.conn that is used next.
ReconnectDial(n) ==
  /\ Running
  /\ pc[n] = "dial"
  /\ \/ /\ addr[ref[n]]
        /\ \E p \in Port : FreePort(p) /\ id' = [id EXCEPT ![ref[n]] = p]
        /\ Goto(n, "dial", IF Startup THEN "startup" ELSE "put")
        /\ UNCHANGED crashed
     \/ /\ ~addr[ref[n]] \/ "dial" \in Faults
        /\ Goto(n, "dial", "put")
        /\ UNCHANGED <<id, crashed>>
     \/ /\ addr[ref[n]] /\ hc.pc = "close" /\ hc.old = ref[n]
        /\ crashed' = "Reconnect"
        /\ UNCHANGED <<id, pc>>
  /\ UNCHANGED <<poolVars, addr, auth, session, acc, ref, key, hc, sd>>

\* Mutant of ReconnectStartup: a failed handshake reconnects again.
ReconnectStartupAgain(n) ==
  /\ Running
  /\ \/ /\ Goto(n, "startup", "put") /\ IsConnected(ref[n])
        /\ auth' = [auth EXCEPT ![ref[n]] = TRUE]
     \/ /\ Goto(n, "startup", "reconnect")
        /\ ~IsConnected(ref[n]) \/ "startup" \in Faults
        /\ UNCHANGED auth
  /\ UNCHANGED <<poolVars, id, addr, session, acc, ref, key, hc, sd, crashed>>

\* A failed handshake is only logged: the socket stays open and connected.
\* A client closed meanwhile fails the handshake, or gives it a nil c.conn.
ReconnectStartup(n) ==
  /\ Running /\ pc[n] = "startup"
  /\ \/ /\ Goto(n, "startup", "put") /\ IsConnected(ref[n])
        /\ auth' = [auth EXCEPT ![ref[n]] = TRUE]
        /\ UNCHANGED crashed
     \/ /\ Goto(n, "startup", "put")
        /\ ~IsConnected(ref[n]) \/ "startup" \in Faults
        /\ UNCHANGED <<auth, crashed>>
     \/ /\ ~IsConnected(ref[n])
        /\ crashed' = "Reconnect"
        /\ UNCHANGED <<auth, pc>>
  /\ UNCHANGED <<poolVars, id, addr, session, acc, ref, key, hc, sd>>

\* Put(client.ID, client): the key is read and the size compared first.  A
\* refused client is dropped without being closed.
RecyclePut(n) ==
  /\ Running
  /\ \/ /\ PutRefused
        /\ Goto(n, "put", "new")
        /\ ref' = [ref EXCEPT ![n] = Nil]
        /\ UNCHANGED key
     \/ /\ ~PutRefused
        /\ Goto(n, "put", "store")
        /\ key' = [key EXCEPT ![n] = id[ref[n]]]
        /\ UNCHANGED ref
  /\ UNCHANGED <<poolVars, clientVars, acc, hc, sd, crashed>>

RecycleStore(n) ==
  /\ Running
  /\ Goto(n, "store", "new")
  /\ Store(key[n], ref[n])
  /\ ref' = [ref EXCEPT ![n] = Nil]
  /\ key' = [key EXCEPT ![n] = NoID]
  /\ UNCHANGED <<busy, clientVars, acc, hc, sd, crashed>>

Disconnect(n) ==
  \/ DisconnectPop(n) \/ RecycleReset(n) \/ ReconnectClose(n)
  \/ ReconnectDial(n) \/ ReconnectStartup(n)
  \/ RecyclePut(n) \/ RecycleStore(n)

-----------------------------------------------------------------------------
(* The scheduled health check, connHealthCheck in NewProxy.                *)

\* Mutant of SchedulerRunning: Shutdown waits for the jobs but does not keep
\* the scheduler from starting new ones.
SchedulerNeverStops == TRUE

\* The scheduler starts no job once scheduler.Stop was called.
SchedulerRunning ==
  \/ sd.calls = 0
  \/ sd.calls = 1 /\ sd.pc \in {"available", "busy"}

HcStart ==
  /\ Running /\ HealthChecks /\ hc.pc = "idle" /\ SchedulerRunning
  /\ hc' = [HcIdle EXCEPT !.pc = "iterate"]
  /\ UNCHANGED <<poolVars, clientVars, acc, connVars, sd, crashed>>

\* An iteration over a map that Clear replaced goes on over the entries of
\* the old map.
HcVisit ==
  /\ Running /\ hc.pc = "iterate"
  /\ \/ /\ hc.live
        /\ \E k \in RangeNext(Pooled, hc.cursor) :
             hc' = [hc EXCEPT !.pc = "remove", !.cursor = Rank[k],
                              !.old = available[k]]
     \/ \E c \in hc.detached :
          hc' = [hc EXCEPT !.pc = "remove", !.detached = @ \ {c}, !.old = c]
  /\ UNCHANGED <<poolVars, clientVars, acc, connVars, sd, crashed>>

HcFinish ==
  /\ Running /\ hc.pc = "iterate"
  /\ hc.live => RangeNext(Pooled, hc.cursor) = {}
  /\ hc.detached = {}
  /\ hc' = HcIdle
  /\ UNCHANGED <<poolVars, clientVars, acc, connVars, sd, crashed>>

\* Mutant of HcRemove: a client without an ID is not removed.
HcRemoveConnected ==
  /\ Running /\ hc.pc = "remove"
  /\ IF IsConnected(hc.old) THEN Delete(id[hc.old]) ELSE UNCHANGED available
  /\ hc' = [hc EXCEPT !.pc = "close"]
  /\ UNCHANGED <<busy, clientVars, acc, connVars, sd, crashed>>

\* Remove(client.ID): the ID the client has now, not the key visited.
HcRemove ==
  /\ Running /\ hc.pc = "remove"
  /\ Delete(id[hc.old])
  /\ hc' = [hc EXCEPT !.pc = "close"]
  /\ UNCHANGED <<busy, clientVars, acc, connVars, sd, crashed>>

\* Mutant of HcClose: the health check reconnects the visited client and puts
\* it back instead of replacing it.
HcReconnect ==
  /\ Running /\ hc.pc = "close"
  /\ \E p \in Port : FreePort(p) /\ id' = [id EXCEPT ![hc.old] = p]
  /\ auth' = [auth EXCEPT ![hc.old] = Startup]
  /\ session' = [session EXCEPT ![hc.old] = "clean"]
  /\ hc' = [hc EXCEPT !.pc = "put", !.new = hc.old, !.old = Nil]
  /\ UNCHANGED <<poolVars, addr, acc, connVars, sd, crashed>>

HcClose ==
  /\ Running /\ hc.pc = "close"
  /\ Close(hc.old)
  /\ hc' = [hc EXCEPT !.pc = "new", !.old = Nil]
  /\ UNCHANGED <<poolVars, acc, connVars, sd, crashed>>

\* NewClient: resolve, dial, pgStartup.  The fallback client of a failed
\* resolution has no retry object, and the call through it panics.
HcNewClient ==
  /\ Running /\ hc.pc = "new"
  /\ \/ \E c \in Client, p \in Port :
          /\ Unreferenced(c) /\ ~IsConnected(c) /\ FreePort(p)
          /\ id' = [id EXCEPT ![c] = p]
          /\ addr' = [addr EXCEPT ![c] = TRUE]
          /\ auth' = [auth EXCEPT ![c] = Startup]
          /\ session' = [session EXCEPT ![c] = "clean"]
          /\ hc' = [hc EXCEPT !.pc = "put", !.new = c]
          /\ UNCHANGED crashed
     \/ /\ "dial" \in Faults \/ (Startup /\ "startup" \in Faults)
        /\ hc' = [hc EXCEPT !.pc = "iterate"]
        /\ UNCHANGED <<clientVars, crashed>>
     \/ /\ "resolve" \in Faults
        /\ crashed' = "NewClient"
        /\ UNCHANGED <<clientVars, hc>>
  /\ UNCHANGED <<poolVars, acc, connVars, sd>>

\* A refused client is closed here, unlike in recycleClientConnection.
HcPut ==
  /\ Running /\ hc.pc = "put"
  /\ \/ /\ PutRefused
        /\ Close(hc.new)
        /\ hc' = [hc EXCEPT !.pc = "iterate", !.new = Nil]
     \/ /\ ~PutRefused
        /\ hc' = [hc EXCEPT !.pc = "store", !.key = id[hc.new]]
        /\ UNCHANGED clientVars
  /\ UNCHANGED <<poolVars, acc, connVars, sd, crashed>>

HcStore ==
  /\ Running /\ hc.pc = "store"
  /\ Store(hc.key, hc.new)
  /\ hc' = [hc EXCEPT !.pc = "iterate", !.new = Nil, !.key = NoID]
  /\ UNCHANGED <<busy, clientVars, acc, connVars, sd, crashed>>

HealthCheck ==
  \/ HcVisit \/ HcFinish \/ HcRemove \/ HcClose \/ HcNewClient
  \/ HcPut \/ HcStore

-----------------------------------------------------------------------------
(* Shutdown.                                                               *)

ShutdownStart ==
  /\ Running /\ sd.pc \in {"idle", "stopped"} /\ sd.calls < ShutdownCalls
  /\ sd' = [sd EXCEPT !.pc = "available", !.calls = @ + 1, !.cursor = 0]
  /\ UNCHANGED <<poolVars, clientVars, acc, connVars, hc, crashed>>

\* The first ForEach closes the clients that are connected.
ShutdownAvailable ==
  /\ Running /\ sd.pc = "available"
  /\ \E k \in RangeNext(Pooled, sd.cursor) :
       /\ sd' = [sd EXCEPT !.cursor = Rank[k]]
       /\ IF IsConnected(available[k]) THEN Close(available[k])
                                       ELSE UNCHANGED clientVars
  /\ UNCHANGED <<poolVars, acc, connVars, hc, crashed>>

\* AvailableConnections.Clear replaces the map; a running health check goes
\* on over the entries of the old one.
ShutdownClearAvailable ==
  /\ Running /\ sd.pc = "available" /\ RangeNext(Pooled, sd.cursor) = {}
  /\ available' = [k \in Key |-> Nil]
  /\ hc' = IF hc.pc # "idle" /\ hc.live
           THEN [hc EXCEPT !.live = FALSE,
                           !.detached = {available[k] : k \in
                             {j \in Pooled : Rank[j] > hc.cursor}}]
           ELSE hc
  /\ sd' = [sd EXCEPT !.pc = "busy", !.cursor = 0]
  /\ UNCHANGED <<busy, clientVars, acc, connVars, crashed>>

\* The second ForEach closes the backend clients.  Its test for a net.Conn
\* never holds, the keys are *ConnWrapper: incoming connections stay open.
ShutdownBusy ==
  /\ Running /\ sd.pc = "busy"
  /\ \E n \in RangeNext(Busy, sd.cursor) :
       /\ sd' = [sd EXCEPT !.cursor = Rank[n]]
       /\ Close(busy[n])
  /\ UNCHANGED <<poolVars, acc, connVars, hc, crashed>>

ShutdownClearBusy ==
  /\ Running /\ sd.pc = "busy" /\ RangeNext(Busy, sd.cursor) = {}
  /\ busy' = [n \in Conn |-> Nil]
  /\ sd' = [sd EXCEPT !.pc = "stop", !.cursor = 0]
  /\ UNCHANGED <<available, clientVars, acc, connVars, hc, crashed>>

\* scheduler.Stop waits for a running job (external: gocron).
ShutdownStop ==
  /\ Running /\ sd.pc = "stop" /\ hc.pc = "idle"
  /\ sd' = [sd EXCEPT !.pc = "stopped"]
  /\ UNCHANGED <<poolVars, clientVars, acc, connVars, hc, crashed>>

Shutdown ==
  \/ ShutdownAvailable \/ ShutdownClearAvailable
  \/ ShutdownBusy \/ ShutdownClearBusy \/ ShutdownStop

-----------------------------------------------------------------------------
\* The runtime finalises a client nothing refers to: the finalizer of the
\* socket closes it (external: net and the garbage collector).
Finalize(c) ==
  /\ Running /\ Unreferenced(c) /\ IsConnected(c)
  /\ Close(c)
  /\ UNCHANGED <<poolVars, acc, connVars, hc, sd, crashed>>

Connect == ConnectCheck \/ ConnectPop \/ ConnectPut

Next ==
  \/ \E n \in Conn : ConnectPick(n) \/ Disconnect(n)
  \/ Connect
  \/ HcStart \/ HealthCheck
  \/ ShutdownStart \/ Shutdown
  \/ \E c \in Client : Finalize(c)

Spec == Init /\ [][Next]_vars

\* A goroutine that has entered an operation is scheduled until it returns,
\* and the scheduler starts the health check every HealthCheckPeriod.  When
\* clients arrive or leave and whether Shutdown is called is left open.
BackgroundFairness ==
  /\ WF_vars(HealthCheck)
  /\ WF_vars(Shutdown)
  /\ WF_vars(HcStart)

Fairness ==
  /\ WF_vars(Connect)
  /\ \A n \in Conn : WF_vars(pc[n] # "serving" /\ Disconnect(n))
  /\ BackgroundFairness

FairSpec == Spec /\ Fairness

\* A specification without fairness for the connections.
BackgroundSpec == Spec /\ BackgroundFairness

-----------------------------------------------------------------------------
ConnPc == {"new", "connecting", "serving", "recycle", "reconnect", "dial",
           "startup", "put", "store"}

PoolsTyped ==
  /\ available \in [Key -> Client \cup {Nil}]
  /\ busy \in [Conn -> Client \cup {Nil}]

ClientsTyped ==
  /\ id \in [Client -> Key]
  /\ addr \in [Client -> BOOLEAN]
  /\ auth \in [Client -> BOOLEAN]
  /\ session \in [Client -> SessionState]

AcceptTyped ==
  /\ acc \in [pc : {"idle", "check", "pop", "put"}, conn : Conn \cup {NoConn},
              key : Key, client : Client \cup {Nil}]
  /\ acc.pc # "idle" => acc.conn \in Conn

ConnsTyped ==
  /\ pc \in [Conn -> ConnPc]
  /\ ref \in [Conn -> Client \cup {Nil}]
  /\ key \in [Conn -> Key]
  /\ \A n \in Conn : (ref[n] # Nil) <=>
                       pc[n] \in ConnPc \ {"new", "connecting", "serving"}

HealthTyped ==
  /\ hc \in [pc : {"idle", "iterate", "remove", "close", "new", "put", "store"},
             cursor : Nat, detached : SUBSET Client, live : BOOLEAN,
             old : Client \cup {Nil}, new : Client \cup {Nil}, key : Key]
  /\ hc.pc \in {"remove", "close"} => hc.old # Nil
  /\ hc.pc \in {"put", "store"} <=> hc.new # Nil

ShutdownTyped ==
  sd \in [pc : {"idle", "available", "busy", "stop", "stopped"},
          cursor : Nat, calls : 0..ShutdownCalls]

\* The types of the variables, and which program points hold a client.
TypeOK ==
  /\ PoolsTyped
  /\ ClientsTyped
  /\ AcceptTyped
  /\ ConnsTyped
  /\ HealthTyped
  /\ ShutdownTyped
  /\ crashed \in {"no", "Connect", "NewClient", "Reconnect"}

-----------------------------------------------------------------------------
(* Properties.                                                             *)

\* A backend client serves at most one incoming connection: Connect pops it
\* from the available pool before it enters the busy pool, and Disconnect
\* pops it from the busy pool before it goes back, whatever the health check
\* and Shutdown do with stale references meanwhile.
ExclusiveAssignment ==
  /\ \A m, n \in Conn : busy[m] # Nil /\ busy[m] = busy[n] => m = n
  /\ \A n \in Conn, k \in Key : busy[n] # Nil => available[k] # busy[n]

\* A client that can be handed to the next incoming connection carries no
\* session state of an earlier one that waited for its answers:
\* recycleClientConnection resets or reconnects it first, on every path.  Of a
\* connection that did not wait, the reset may leave state behind.
CleanWhenAvailable ==
  \A k \in Key : available[k] # Nil => session[available[k]] # "used"

\* Every open backend socket belongs to a pool or to a running operation:
\* what connHealthCheck says of a client whose Put fails, "we don't want to
\* have orphaned connections".
NoOrphanedConnection ==
  \A c \in Client : IsConnected(c) =>
    \/ \E k \in Key : available[k] = c
    \/ \E n \in Conn : c \in {busy[n], ref[n]}
    \/ c \in {acc.client, hc.old, hc.new}

\* Put never fills the pool beyond its capacity.
WithinCapacity == Size <= Cap

\* Connect returns ErrPoolExhausted when there is no client to assign; it
\* never goes on without one.
ConnectAssignsOrFails == crashed # "Connect"

\* NewClient falls back to the unresolved address when resolution fails.
ResolveFallbackWorks == crashed # "NewClient"

\* A connected client in the pool finished the startup handshake whenever
\* startup parameters are configured.
PreAuthenticated ==
  Startup => \A k \in Key :
    available[k] # Nil /\ IsConnected(available[k]) => auth[available[k]]

\* When Shutdown returns, all connections are closed and the pool is clear.
ShutdownClosesAll ==
  [][ShutdownStop => /\ \A c \in Client : ~IsConnected(c)
                     /\ Pooled = {}]_vars

\* Without health checks, shutdown or failed dials, recycling neither loses
\* nor duplicates capacity: every client the pool was filled with is in a
\* pool or in the hands of a running Connect or Disconnect.
NoClientLost ==
  \A c \in InitialClients :
    \/ \E k \in Key : available[k] = c
    \/ \E n \in Conn : c \in {busy[n], ref[n]}
    \/ acc.client = c

\* A closed incoming connection gives its slot back: Disconnect returns.
DisconnectReturns ==
  \A n \in Conn : pc[n] = "recycle" ~> (pc[n] = "new" \/ ~Running)

\* Shutdown returns although scheduler.Stop waits for the health check,
\* which Shutdown's own Clear may have left iterating over a detached map.
ShutdownReturns == sd.pc = "available" ~> (sd.pc = "stopped" \/ ~Running)

\* A client whose reconnect failed sits in the pool under the empty ID; a
\* later health check or Connect takes it out, unless Shutdown stopped the
\* scheduler.
DeadClientRemoved ==
  available[NoID] # Nil ~> (available[NoID] = Nil \/ ~SchedulerRunning \/ ~Running)

-----------------------------------------------------------------------------
(* The inductive strengthening of ExclusiveAssignment and                  *)
(* CleanWhenAvailable.                                                     *)

\* A client is in one place at a time: one key of the available pool, one
\* connection of the busy pool, or the hands of one goroutine.
Ownership ==
  /\ \A j, k \in Key : available[j] # Nil /\ available[j] = available[k] => j = k
  /\ \A m, n \in Conn : busy[m] # Nil /\ busy[m] = busy[n] => m = n
  /\ \A m, n \in Conn : ref[m] # Nil /\ ref[m] = ref[n] => m = n
  /\ \A k \in Key : available[k] # Nil =>
       /\ \A n \in Conn : available[k] # busy[n] /\ available[k] # ref[n]
       /\ available[k] # acc.client /\ available[k] # hc.new
  /\ \A m, n \in Conn : busy[m] # Nil => busy[m] # ref[n]
  /\ \A n \in Conn : busy[n] # Nil => busy[n] # acc.client /\ busy[n] # hc.new
  /\ \A n \in Conn : ref[n] # Nil => ref[n] # acc.client /\ ref[n] # hc.new
  /\ acc.client # Nil => acc.client # hc.new

\* The accept loop holds a client only between Pop and Put, and the
\* connection it works for has no goroutine of its own yet.
AcceptLoop ==
  /\ acc.client # Nil => acc.pc = "put"
  /\ acc.pc # "idle" => pc[acc.conn] = "connecting"

\* Sessions are clean from the reset or the reconnect on, if nobody left them.
CleanSessions ==
  /\ CleanWhenAvailable
  /\ \A n \in Conn : pc[n] \in {"dial", "startup", "put", "store"} =>
                       session[ref[n]] # "used"
  /\ hc.new # Nil => session[hc.new] # "used"

IInv == TypeOK /\ Ownership /\ AcceptLoop /\ CleanSessions

-----------------------------------------------------------------------------
(* The proxy implements the abstract specification of module Lease.        *)

L == INSTANCE Lease WITH lease <- busy, used <- session

\* Every step of Connect, Disconnect, the health check, Shutdown and the
\* garbage collector, as the server sees it, is a step of Lease or none:
\* a client goes from one incoming connection to the next only through
\* Disconnect, and only reset, or reconnected.
LeaseSpec == L!Spec

\* What the refinement needs besides IInv: the busy pool has entries of
\* serving connections only, and the client in the hands of the accept loop
\* is as clean as when it was taken from the pool.
LeaseInv ==
  /\ \A n \in Conn : busy[n] # Nil => pc[n] = "serving"
  /\ acc.client # Nil => session[acc.client] # "used"

-----------------------------------------------------------------------------
(* The inductive strengthening of NoClientLost.                            *)

\* Nothing but Connect and Disconnect works on the pool, no dial fails, and
\* the pool was made at least as large as the number of clients put into it.
RecyclingOnly ==
  /\ ~HealthChecks /\ ShutdownCalls = 0 /\ "dial" \notin Faults
  /\ IsFiniteSet(InitialClients) /\ Cardinality(InitialClients) <= Cap

\* No client was made after New: the pools and the goroutines hold the
\* initial ones only, and those were given an address.
OnlyInitial ==
  /\ \A c \in Client \ InitialClients :
       /\ ~IsConnected(c) /\ acc.client # c
       /\ \A k \in Key : available[k] # c
       /\ \A n \in Conn : busy[n] # c /\ ref[n] # c
  /\ \A c \in InitialClients : addr[c]

\* Two open sockets have different local addresses.
DistinctIDs == \A c, d \in Client : IsConnected(c) /\ id[c] = id[d] => c = d

\* A client is in the pool under the ID it has.
KeyedByID == \A k \in Key : available[k] # Nil => k # NoID /\ id[available[k]] = k

\* Disconnect puts back a connected client, under the ID it has.
ReturnsConnected ==
  \A n \in Conn :
    /\ pc[n] \in {"startup", "put", "store"} => IsConnected(ref[n])
    /\ pc[n] = "store" => key[n] = id[ref[n]]

\* Then a client in the pool is connected and under its own ID, so are the
\* clients Disconnect is about to put back, and no two share an ID: a Store
\* finds its key free, and the pool a free slot.
RecycleInv ==
  /\ hc = HcIdle /\ sd.pc = "idle"
  /\ OnlyInitial /\ DistinctIDs /\ KeyedByID /\ ReturnsConnected /\ NoClientLost

=============================================================================
