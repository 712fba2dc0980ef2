------------------------------- MODULE Server -------------------------------
(***************************************************************************)
(* The life of one server (network/server.go) in the application           *)
(* (cmd/gatewayd_app.go): Run boots, listens and accepts; a goroutine per  *)
(* incoming connection runs OnTraffic and OnClose; Shutdown and the stop   *)
(* goroutine end it; stopGracefully is called by the signal handler and by *)
(* the goroutine of a Run that failed, and either exits the process.       *)
(*                                                                         *)
(* The server has one proxy.  Its Connect and Disconnect are single steps  *)
(* here (module Proxy has their steps), its Shutdown is two, because       *)
(* connections come and go between them.  OnTraffic (module Traffic) ends  *)
(* when its client leaves or its backend client is closed.                 *)
(***************************************************************************)
EXTENDS Naturals, FiniteSets

CONSTANTS
  Conn,          \* incoming connections
  PoolSize,      \* backend clients of the proxy
  EnableTicker,  \* Options.EnableTicker
  Faults         \* which steps may fail: subset of FaultKinds

FaultKinds == {"listen", "address", "tls", "accept", "proxy", "connect"}

ASSUME ServerAssumption ==
  /\ IsFiniteSet(Conn)
  /\ PoolSize \in Nat
  /\ EnableTicker \in BOOLEAN
  /\ Faults \subseteq FaultKinds

VARIABLES
  run, cur,      \* Server.Run: program counter, the connection it opens
  status,        \* Server.Status
  running,       \* Server.running
  listener,      \* Server.listener: "nil", "open", "closed"
  stopServer,    \* the channel: "open", "closed"
  stopper,       \* the goroutine that waits for stopServer, then OnShutdown
  ticker,        \* the goroutine that calls OnTick
  sd,            \* Server.Shutdown
  pc,            \* the goroutine of each connection
  connections,   \* Server.connections
  mapped,        \* the keys of connectionToProxyMap
  sockets,       \* incoming connections whose socket is open
  avail, busy,   \* the proxy: available clients, connections with a client
  dead,          \* connections whose backend client Shutdown closed
  unserved,      \* connections whose Connect failed, for the properties only
  stop,          \* stopGracefully: who runs it, "none" before
  exited         \* how the process ended: "no", "graceful", "abrupt"

appVars  == <<stop, exited>>
runVars  == <<run, cur>>
flagVars == <<status, running, listener>>
stopVars == <<stopServer, stopper, ticker, sd>>
connVars == <<pc, connections, mapped, sockets>>
poolVars == <<avail, busy, dead, unserved>>
vars == <<run, cur, status, running, listener, stopServer, stopper, ticker, sd,
          pc, connections, mapped, sockets, avail, busy, dead, unserved, stop,
          exited>>

Nobody == "nobody"

Init ==
  /\ run = "boot" /\ cur = Nobody
  /\ status = "Stopped" /\ running = FALSE /\ listener = "nil"
  /\ stopServer = "open" /\ stopper = "none" /\ ticker = "none" /\ sd = "idle"
  /\ pc = [c \in Conn |-> "new"] /\ connections = 0
  /\ mapped = {} /\ sockets = {}
  /\ avail = PoolSize /\ busy = {} /\ dead = {} /\ unserved = {}
  /\ stop = "none" /\ exited = "no"

\* os.Exit ends every goroutine.
Alive == exited = "no"

\* A receive from stopServer succeeds: Shutdown is sending, or it closed it.
Receivable == sd = "send" \/ stopServer = "closed"

\* The send of Shutdown completes when someone receives.
Received == sd' = IF sd = "send" THEN "closing" ELSE sd

-----------------------------------------------------------------------------
(* Server.Run.                                                             *)

RunBoot ==
  /\ Alive /\ run = "boot"
  /\ status' = "Running"
  /\ run' = "listen"
  /\ UNCHANGED <<cur, running, listener, stopVars, connVars, poolVars, appVars>>

RunListen ==
  /\ Alive /\ run = "listen"
  /\ \/ listener' = "open" /\ run' = "address"
     \/ "listen" \in Faults /\ run' = "failed" /\ UNCHANGED listener
  /\ UNCHANGED <<cur, status, running, stopVars, connVars, poolVars, appVars>>

\* The address of the listener is split into host and port, which fails for a
\* Unix socket.  From here on Run closes the listener when it returns.
RunAddress ==
  /\ Alive /\ run = "address"
  /\ \/ run' = "init" /\ UNCHANGED listener
     \/ "address" \in Faults /\ run' = "failed" /\ listener' = "closed"
  /\ UNCHANGED <<cur, status, running, stopVars, connVars, poolVars, appVars>>

\* Mutant of RunInit: the goroutines that receive from stopServer are not
\* started.
InitWithoutStopper ==
  /\ Alive /\ run = "init"
  /\ running' = FALSE
  /\ run' = "start"
  /\ UNCHANGED <<cur, status, listener, stopVars, connVars, poolVars, appVars>>

\* A new running flag, and the two goroutines.
RunInit ==
  /\ Alive /\ run = "init"
  /\ running' = FALSE
  /\ stopper' = "wait"
  /\ ticker' = IF EnableTicker THEN "tick" ELSE "none"
  /\ run' = "start"
  /\ UNCHANGED <<cur, status, listener, stopServer, sd, connVars, poolVars,
                 appVars>>

\* running.Store(true); then the TLS configuration.
RunStart ==
  /\ Alive /\ run = "start"
  /\ running' = TRUE
  /\ \/ run' = "select" /\ UNCHANGED listener
     \/ "tls" \in Faults /\ run' = "failed" /\ listener' = "closed"
  /\ UNCHANGED <<cur, status, stopVars, connVars, poolVars, appVars>>

RunSelect ==
  /\ Alive /\ run = "select"
  /\ \/ /\ Receivable /\ Received
        /\ run' = "returned" /\ listener' = "closed"
     \/ /\ ~Receivable
        /\ run' = "accept"
        /\ UNCHANGED <<sd, listener>>
  /\ UNCHANGED <<cur, status, running, stopServer, stopper, ticker, connVars,
                 poolVars, appVars>>

RunAccept ==
  /\ Alive /\ run = "accept"
  /\ \/ /\ listener = "open"
        /\ \E c \in Conn :
             /\ pc[c] = "new"
             /\ pc' = [pc EXCEPT ![c] = "accepted"]
             /\ cur' = c
             /\ sockets' = sockets \cup {c}
        /\ run' = "open"
        /\ UNCHANGED listener
     \/ /\ listener = "closed" \/ "accept" \in Faults
        /\ run' = IF running THEN "failed" ELSE "returned"
        /\ listener' = "closed"
        /\ UNCHANGED <<pc, cur, sockets>>
  /\ UNCHANGED <<status, running, stopVars, connections, mapped, poolVars,
                 appVars>>

\* OnOpen: a failed NextProxy or an exhausted pool closes the connection, any
\* other error of Connect is only logged.
RunOpen ==
  /\ Alive /\ run = "open"
  /\ \/ /\ avail > 0
        /\ avail' = avail - 1
        /\ busy' = busy \cup {cur}
        /\ mapped' = mapped \cup {cur}
        /\ UNCHANGED <<sockets, unserved>>
     \/ /\ avail = 0 \/ "proxy" \in Faults
        /\ sockets' = sockets \ {cur}
        /\ UNCHANGED <<avail, busy, mapped, unserved>>
     \/ /\ "connect" \in Faults
        /\ unserved' = unserved \cup {cur}
        /\ UNCHANGED <<avail, busy, mapped, sockets>>
  /\ run' = "count"
  /\ UNCHANGED <<cur, flagVars, stopVars, pc, connections, dead, appVars>>

\* Mutant of RunCount: the connection is not counted.
RunUncounted ==
  /\ Alive /\ run = "count"
  /\ UNCHANGED connections
  /\ pc' = [pc EXCEPT ![cur] = "traffic"]
  /\ run' = "select" /\ cur' = Nobody
  /\ UNCHANGED <<flagVars, stopVars, mapped, sockets, poolVars, appVars>>

\* Also for a connection that OnOpen closed.
RunCount ==
  /\ Alive /\ run = "count"
  /\ connections' = connections + 1
  /\ pc' = [pc EXCEPT ![cur] = "traffic"]
  /\ run' = "select" /\ cur' = Nobody
  /\ UNCHANGED <<flagVars, stopVars, mapped, sockets, poolVars, appVars>>

Run ==
  \/ RunBoot \/ RunListen \/ RunAddress \/ RunInit \/ RunStart \/ RunSelect
  \/ RunAccept \/ RunOpen \/ RunCount

-----------------------------------------------------------------------------
(* The goroutine of a connection.                                          *)

\* OnTraffic returns: the client left, there is no backend client, or it was
\* closed.
TrafficEnd(c) ==
  /\ Alive /\ pc[c] = "traffic"
  /\ pc' = [pc EXCEPT ![c] = "ended"]
  /\ UNCHANGED <<runVars, flagVars, stopVars, connections, mapped, sockets,
                 poolVars, appVars>>

Decrement(c) ==
  /\ Alive /\ pc[c] = "ended"
  /\ connections' = connections - 1
  /\ pc' = [pc EXCEPT ![c] = "close"]
  /\ UNCHANGED <<runVars, flagVars, stopVars, mapped, sockets, poolVars, appVars>>

\* OnClose: CountConnections and IsRunning take the lock one after the other.
CloseCount(c) ==
  /\ Alive /\ pc[c] = "close"
  /\ pc' = [pc EXCEPT ![c] = IF connections = 0 THEN "last" ELSE "find"]
  /\ UNCHANGED <<runVars, flagVars, stopVars, connections, mapped, sockets,
                 poolVars, appVars>>

\* The action Shutdown that OnClose returns here is ignored by its caller.
CloseLast(c) ==
  /\ Alive /\ pc[c] = "last"
  /\ pc' = [pc EXCEPT ![c] = IF status = "Running" THEN "find" ELSE "done"]
  /\ UNCHANGED <<runVars, flagVars, stopVars, connections, mapped, sockets,
                 poolVars, appVars>>

\* GetProxyForConnection, then Disconnect, which recycles the client.
CloseDisconnect(c) ==
  /\ Alive /\ pc[c] = "find"
  /\ \/ /\ c \in mapped /\ c \in busy
        /\ busy' = busy \ {c} /\ avail' = avail + 1 /\ dead' = dead \ {c}
        /\ UNCHANGED unserved
        /\ pc' = [pc EXCEPT ![c] = "unmap"]
     \/ /\ ~(c \in mapped /\ c \in busy)
        /\ pc' = [pc EXCEPT ![c] = "done"]
        /\ UNCHANGED poolVars
  /\ UNCHANGED <<runVars, flagVars, stopVars, connections, mapped, sockets,
                 appVars>>

\* Mutant of CloseUnmap: the connection stays in the map.
CloseKeepsMapping(c) ==
  /\ Alive /\ pc[c] = "unmap"
  /\ UNCHANGED mapped
  /\ sockets' = sockets \ {c}
  /\ pc' = [pc EXCEPT ![c] = "done"]
  /\ UNCHANGED <<runVars, flagVars, stopVars, connections, poolVars, appVars>>

\* RemoveConnectionFromMap and conn.Close.
CloseUnmap(c) ==
  /\ Alive /\ pc[c] = "unmap"
  /\ mapped' = mapped \ {c}
  /\ sockets' = sockets \ {c}
  /\ pc' = [pc EXCEPT ![c] = "done"]
  /\ UNCHANGED <<runVars, flagVars, stopVars, connections, poolVars, appVars>>

OnClose(c) ==
  \/ Decrement(c) \/ CloseCount(c) \/ CloseLast(c) \/ CloseDisconnect(c)
  \/ CloseUnmap(c)

-----------------------------------------------------------------------------
(* The proxy's Shutdown, run by Server.Shutdown and by OnShutdown.         *)

\* It closes the backend clients of both pools.  The incoming connections stay
\* open: the key is a ConnWrapper, which is not a net.Conn.
ProxyClose ==
  avail' = 0 /\ dead' = dead \cup busy /\ UNCHANGED <<busy, unserved>>

ProxyClear == busy' = {} /\ UNCHANGED <<avail, dead, unserved>>

(* The stop goroutine: OnShutdown once it has received from stopServer.    *)

StopperReceive ==
  /\ Alive /\ stopper = "wait" /\ Receivable /\ Received
  /\ stopper' = "close"
  /\ UNCHANGED <<runVars, flagVars, stopServer, ticker, connVars, poolVars,
                 appVars>>

StopperShutdown ==
  /\ Alive
  /\ \/ stopper = "close" /\ stopper' = "clear" /\ ProxyClose /\ UNCHANGED status
     \/ stopper = "clear" /\ stopper' = "status" /\ ProxyClear /\ UNCHANGED status
     \/ /\ stopper = "status" /\ stopper' = "done" /\ status' = "Stopped"
        /\ UNCHANGED poolVars
  /\ UNCHANGED <<runVars, running, listener, stopServer, ticker, sd, connVars,
                 appVars>>

\* OnTick changes nothing; between ticks the ticker looks at stopServer.
TickerSelect ==
  /\ Alive /\ ticker = "tick" /\ Receivable /\ Received
  /\ ticker' = "done"
  /\ UNCHANGED <<runVars, flagVars, stopServer, stopper, connVars, poolVars,
                 appVars>>

-----------------------------------------------------------------------------
(* Server.Shutdown, called by stopGracefully.                              *)

ShutdownStatus ==
  /\ Alive /\ sd = "status"
  /\ status' = "Stopped" /\ sd' = "running"
  /\ UNCHANGED <<runVars, running, listener, stopServer, stopper, ticker,
                 connVars, poolVars, appVars>>

ShutdownRunning ==
  /\ Alive /\ sd = "running"
  /\ running' = FALSE /\ sd' = "close"
  /\ UNCHANGED <<runVars, status, listener, stopServer, stopper, ticker,
                 connVars, poolVars, appVars>>

ShutdownProxies ==
  /\ Alive
  /\ \/ sd = "close" /\ sd' = "clear" /\ ProxyClose
     \/ sd = "clear" /\ sd' = "listener" /\ ProxyClear
  /\ UNCHANGED <<runVars, flagVars, stopServer, stopper, ticker, connVars,
                 appVars>>

\* The stopServer of a server that was shut down before is closed already;
\* stopGracefully runs once, so it is open and Shutdown goes on to send.
ShutdownListener ==
  /\ Alive /\ sd = "listener"
  /\ listener' = IF listener = "open" THEN "closed" ELSE listener
  /\ sd' = "send"
  /\ UNCHANGED <<runVars, status, running, stopServer, stopper, ticker,
                 connVars, poolVars, appVars>>

ShutdownClose ==
  /\ Alive /\ sd = "closing"
  /\ stopServer' = "closed" /\ sd' = "done"
  /\ UNCHANGED <<runVars, flagVars, stopper, ticker, connVars, poolVars, appVars>>

Shutdown ==
  \/ ShutdownStatus \/ ShutdownRunning \/ ShutdownProxies \/ ShutdownListener
  \/ ShutdownClose

-----------------------------------------------------------------------------
(* stopGracefully and the exits of the process.                            *)

\* The caller that sets ranStopGracefully stops the server if IsRunning.
StopGracefully(who) ==
  /\ stop = "none" /\ stop' = who
  /\ sd' = IF status = "Running" THEN "status" ELSE "skipped"
  /\ UNCHANGED <<runVars, flagVars, stopServer, stopper, ticker, connVars,
                 poolVars, exited>>

Signal == Alive /\ StopGracefully("signal")

RunFailed == Alive /\ run = "failed" /\ StopGracefully("run")

Stopped == sd \in {"done", "skipped"}

\* Its caller exits, or main does once it has received from stopChan.
Exit ==
  /\ Alive /\ Stopped
  /\ exited' = "graceful"
  /\ UNCHANGED <<runVars, flagVars, stopVars, connVars, poolVars, stop>>

\* For a second caller stopGracefully returns at once, and the caller exits.
ExitSecond(caller) ==
  /\ Alive /\ ~Stopped /\ stop \notin {"none", caller}
  /\ exited' = "abrupt"
  /\ UNCHANGED <<runVars, flagVars, stopVars, connVars, poolVars, stop>>

SignalAgain == ExitSecond("signal")

RunFailedAgain == run = "failed" /\ ExitSecond("run")

Next ==
  \/ Run \/ \E c \in Conn : TrafficEnd(c) \/ OnClose(c)
  \/ StopperReceive \/ StopperShutdown \/ TickerSelect \/ Shutdown
  \/ Signal \/ RunFailed \/ Exit \/ SignalAgain
  \/ RunFailedAgain

Spec == Init /\ [][Next]_vars

\* The goroutines are scheduled.  Nobody has to connect, to leave or to send a
\* signal; a session that has no backend client, or whose client was closed,
\* ends.
Fairness ==
  /\ WF_vars(Run)
  /\ \A c \in Conn : WF_vars(OnClose(c))
  /\ \A c \in Conn : WF_vars(c \notin mapped \ dead /\ TrafficEnd(c))
  /\ WF_vars(StopperReceive \/ StopperShutdown)
  /\ WF_vars(TickerSelect)
  /\ WF_vars(Shutdown)
  /\ WF_vars(RunFailed \/ RunFailedAgain)
  /\ WF_vars(Exit)

FairSpec == Spec /\ Fairness

-----------------------------------------------------------------------------
(* Properties.                                                             *)

\* Every variable has its type.
TypeOK ==
  /\ run \in {"boot", "listen", "address", "init", "start", "select", "accept",
              "open", "count", "returned", "failed"}
  /\ cur \in Conn \cup {Nobody}
  /\ status \in {"Running", "Stopped"} /\ running \in BOOLEAN
  /\ listener \in {"nil", "open", "closed"} /\ stopServer \in {"open", "closed"}
  /\ stopper \in {"none", "wait", "close", "clear", "status", "done"}
  /\ ticker \in {"none", "tick", "done"}
  /\ sd \in {"idle", "skipped", "status", "running", "close", "clear",
             "listener", "send", "closing", "done"}
  /\ pc \in [Conn -> {"new", "accepted", "traffic", "ended", "close", "last",
                      "find", "unmap", "done"}]
  /\ connections \in 0..Cardinality(Conn)
  /\ mapped \subseteq Conn /\ sockets \subseteq Conn
  /\ busy \subseteq Conn /\ dead \subseteq Conn /\ avail \in 0..PoolSize
  /\ unserved \subseteq Conn
  /\ stop \in {"none", "signal", "run"}
  /\ exited \in {"no", "graceful", "abrupt"}

\* While the server runs, a connection whose goroutine has ended holds no
\* backend client, is not in connectionToProxyMap and has its socket closed.
\* Only the socket of a connection whose Connect failed with another error
\* than an exhausted pool stays open.
CleanFinish ==
  status = "Running" =>
    \A c \in Conn :
      pc[c] = "done" => c \notin busy \cup mapped \cup (sockets \ unserved)

\* Whoever clears the pools has seen the status set to stopped before.
StoppedFirst ==
  /\ stop = "none" => sd = "idle"
  /\ sd # "idle" /\ sd # "skipped" => run # "boot"
  /\ sd \in {"running", "close", "clear", "listener", "send", "closing", "done"}
       => status = "Stopped"
  /\ stopServer = "closed" => sd = "done"
  /\ stopper \in {"close", "clear", "status", "done"} => sd \in {"closing", "done"}
  /\ status = "Running" => run # "boot"

\* What a connection holds while the server runs, by the place its goroutine
\* has reached.
Holds(c) ==
  /\ pc[c] = "new" => c \notin busy \cup mapped \cup sockets
  /\ pc[c] = "accepted" /\ run = "open" => c \notin busy \cup mapped
  /\ (pc[c] = "accepted" /\ run # "open")
       \/ pc[c] \in {"traffic", "ended", "close", "last", "find"}
     => (c \in busy <=> c \in mapped) /\ (c \in sockets => c \in mapped \cup unserved)
  /\ pc[c] = "unmap" => c \notin busy
  /\ pc[c] = "done" => c \notin busy \cup mapped \cup (sockets \ unserved)

\* The inductive invariant of the proofs.
LifeInv ==
  /\ StoppedFirst
  /\ pc \in [Conn -> {"new", "accepted", "traffic", "ended", "close", "last",
                      "find", "unmap", "done"}]
  /\ run \in {"open", "count"} => cur \in Conn /\ pc[cur] = "accepted"
  /\ \A c \in Conn : pc[c] = "accepted" => run \in {"open", "count"} /\ c = cur
  /\ status = "Running" \/ run = "boot" => \A c \in Conn : Holds(c)
  /\ run = "boot" => \A c \in Conn : pc[c] = "new"

\* The connections between RunCount and Decrement are the ones that are counted,
\* and a backend client is available, or assigned, or was dropped by Shutdown.
Counted == {c \in Conn : pc[c] \in {"traffic", "ended"}}

CountInv ==
  connections = Cardinality(Counted) /\ avail + Cardinality(busy) <= PoolSize

\* Run returned with an error before it started the goroutine that receives
\* from stopServer.
Deaf == run = "failed" /\ stopper = "none"

\* After stopGracefully was called, at any point of Run, the process exits,
\* whatever the ticker and the connections are doing, unless nobody is there to
\* receive what Shutdown sends.
StopExits == (stop # "none") ~> (exited # "no" \/ Deaf)

\* The same without the exception.
StopAlwaysExits == (stop # "none") ~> (exited # "no")

\* The process exits only when stopGracefully has done its work.
GracefulExit == exited # "abrupt"

\* Once Server.Shutdown and OnShutdown are over and every goroutine of a
\* connection has ended, no incoming connection is left open.
ShutdownClosesIncoming ==
  stopper = "done" /\ sd = "done" /\ run = "returned"
    /\ (\A c \in Conn : pc[c] \in {"new", "done"})
  => sockets = {}

=============================================================================
