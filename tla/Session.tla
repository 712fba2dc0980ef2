------------------------------ MODULE Session ------------------------------
(***************************************************************************)
(* The life of one pre-authenticated backend connection: NewClient,        *)
(* Reconnect and ResetSession (network/client.go), Retry                   *)
(* (network/retry.go), the start-up handshake and DISCARD ALL              *)
(* (network/pg_startup.go), and recycleClientConnection                    *)
(* (network/proxy.go), which makes the connection available to the next    *)
(* incoming connection.                                                    *)
(*                                                                         *)
(* The modules Proxy and Traffic are about who uses a connection and when; *)
(* this one is about what is in its two byte streams meanwhile.  A message *)
(* has a type and the one it is about: an owner, or None for GatewayD.     *)
(* The backend (external) answers the messages it reads in their order.    *)
(* A client is used by one goroutine at a time (ExclusiveAssignment of     *)
(* Proxy) and no deadline is pending when it is recycled (NoStaleDeadline  *)
(* of Traffic).                                                            *)
(***************************************************************************)
EXTENDS Naturals, Sequences, SequencesExt

CONSTANTS
  Owner,      \* incoming connections that use the connection in turn
  Methods,    \* the ways the backend may ask for authentication
  MaxQueries, \* bound on the queries of one owner
  MaxLeft,    \* bound on the messages left behind in a pooled connection
  Retries,    \* Retry.Retries
  Faults,     \* what may go wrong: subset of FaultKinds
  None        \* GatewayD itself; not an owner

\* "other" offers SASL mechanisms without SCRAM-SHA-256.
MethodKinds == {"trust", "cleartext", "md5", "sasl", "other"}

\* "dial": connecting fails; "refuse": the backend answers with an error;
\* "scram": a step of the SCRAM conversation fails; "close": the backend
\* closes the connection.
FaultKinds == {"dial", "refuse", "scram", "close"}

ASSUME SessionAssumption ==
  /\ None \notin Owner
  /\ Methods \subseteq MethodKinds
  /\ MaxQueries \in Nat /\ MaxLeft \in Nat /\ Retries \in Nat
  /\ Faults \subseteq FaultKinds

VARIABLES
  pc,       \* where the goroutine that uses the client is
  fresh,    \* whether NewClient, not Reconnect, makes the connection
  retry,    \* the loop variable of Retry
  conn,     \* whether the client is connected
  ok,       \* whether the call that made it available returned nil
  owner,    \* the incoming connection that uses or used it last
  asked,    \* queries sent by the owner
  up, down, \* messages on their way to the backend and from it
  phase,    \* what the backend waits for; "closed" once it has gone
  tx,       \* whether the backend is in a transaction block
  state,    \* whose session state the backend holds
  left      \* whether an owner of this connection left before its answers

backend == <<phase, tx, state>>
vars == <<pc, fresh, retry, conn, ok, owner, asked, up, down, phase, tx, state,
          left>>

Msg(type, by) == [type |-> type, by |-> by]

Own(type) == Msg(type, None)

\* What is written to a connection that the backend has closed is lost.
Write(msgs) == up' = IF phase = "closed" THEN up ELSE up \o msgs

Init ==
  /\ pc = "dial" /\ fresh = TRUE /\ retry = 0
  /\ conn = FALSE /\ ok = FALSE
  /\ owner = None /\ asked = 0
  /\ up = <<>> /\ down = <<>>
  /\ phase = "closed" /\ tx = FALSE /\ state = None
  /\ left = FALSE

-----------------------------------------------------------------------------
(* Making the connection.                                                  *)

\* net.Dial succeeds: the deadlines are set, the ID is taken from the local
\* address, and pgStartup sends the StartupMessage.
DialSucceeds ==
  /\ pc = "dial"
  /\ pc' = "startup" /\ conn' = TRUE /\ retry' = 0
  /\ up' = <<Own("Startup")>> /\ down' = <<>>
  /\ phase' = "startup" /\ tx' = FALSE /\ state' = None
  /\ left' = FALSE
  /\ UNCHANGED <<fresh, ok, owner, asked>>

\* Mutant of DialFails: Retry does not give up.
DialForever ==
  /\ pc = "dial" /\ "dial" \in Faults
  /\ retry' = IF retry < Retries THEN retry + 1 ELSE 0
  /\ UNCHANGED <<pc, fresh, conn, ok, owner, asked, up, down, backend, left>>

\* Mutant of DialFails: the last retry is counted once more.
DialOnceMore ==
  /\ pc = "dial" /\ "dial" \in Faults
  /\ \/ retry <= Retries /\ retry' = retry + 1 /\ UNCHANGED <<pc, ok>>
     \/ /\ retry > Retries /\ retry' = 0
        /\ pc' = IF fresh THEN "nil" ELSE "pooled"
        /\ ok' = FALSE
  /\ UNCHANGED <<fresh, conn, owner, asked, up, down, backend, left>>

\* Retry sleeps and tries again.  After the last retry NewClient returns nil;
\* recycleClientConnection logs the error of Reconnect and pools the client.
DialFails ==
  /\ pc = "dial" /\ "dial" \in Faults
  /\ \/ retry < Retries /\ retry' = retry + 1 /\ UNCHANGED <<pc, ok>>
     \/ /\ retry = Retries /\ retry' = 0
        /\ pc' = IF fresh THEN "nil" ELSE "pooled"
        /\ ok' = FALSE
  /\ UNCHANGED <<fresh, conn, owner, asked, up, down, backend, left>>

\* pgStartup returns an error, and what its Frontend has read ahead is lost.
\* NewClient closes the connection; Reconnect leaves it open and the client
\* connected, and it is pooled.
StartupFails ==
  /\ pc' = IF fresh THEN "nil" ELSE "pooled"
  /\ conn' = ~fresh
  /\ ok' = FALSE
  /\ phase' = IF fresh THEN "closed" ELSE phase
  /\ up' = IF fresh THEN <<>> ELSE up
  /\ down' \in Suffixes(down)
  /\ UNCHANGED <<fresh, retry, owner, asked, tx, state, left>>

\* What pgStartup and pgHandleSCRAM answer to a message, and where they go on.
Reply(at, type) ==
  CASE at = "startup" /\ type \in {"cleartext", "md5"} -> <<"startup", <<Own("Password")>>>>
    [] at = "startup" /\ type = "sasl"  -> <<"continue", <<Own("SASLInitial")>>>>
    [] at = "startup" /\ type = "Ready" -> <<"pooled", <<>>>>
    [] at = "continue" /\ type = "SASLContinue" -> <<"final", <<Own("SASLResponse")>>>>
    [] at = "final" /\ type = "SASLFinal" -> <<"startup", <<>>>>
    [] \/ at = "startup" /\ type \in {"other", "Error"}
       \/ at = "continue" /\ type # "SASLContinue"
       \/ at = "final" /\ type # "SASLFinal" -> <<"failed", <<>>>>
    [] OTHER -> <<"startup", <<>>>>

\* Mutant of StartupReceive: authenticated is taken for ready.
StartupAtOk ==
  /\ pc \in {"startup", "continue", "final"} /\ down # <<>>
  /\ LET r == IF Head(down).type = "Ok" THEN <<"pooled", <<>>>>
              ELSE Reply(pc, Head(down).type)
     IN  \/ /\ r[1] # "failed"
            /\ pc' = r[1] /\ ok' = (r[1] = "pooled")
            /\ Write(r[2]) /\ down' = Tail(down)
            /\ UNCHANGED <<fresh, retry, conn, owner, asked, backend, left>>
         \/ r[1] = "failed" /\ StartupFails

\* One iteration of the loop in pgStartup, or one Receive of pgHandleSCRAM.
StartupReceive ==
  /\ pc \in {"startup", "continue", "final"} /\ down # <<>>
  /\ LET r == Reply(pc, Head(down).type)
     IN  \/ /\ r[1] # "failed"
            /\ pc' = r[1] /\ ok' = (r[1] = "pooled")
            /\ Write(r[2]) /\ down' = Tail(down)
            /\ UNCHANGED <<fresh, retry, conn, owner, asked, backend, left>>
         \/ r[1] = "failed" /\ StartupFails

\* Receive fails, or a step of the SCRAM conversation does.
StartupError ==
  /\ \/ pc \in {"startup", "continue", "final"} /\ phase = "closed"
     \/ pc \in {"continue", "final"} /\ down # <<>> /\ "scram" \in Faults
  /\ StartupFails

Handshake == StartupReceive \/ StartupError

-----------------------------------------------------------------------------
(* Using and recycling the connection.                                     *)

\* Connect assigns the client, connected or not.
Connect(n) ==
  /\ pc = "pooled" /\ n # owner /\ Len(up) + Len(down) <= MaxLeft
  /\ pc' = "owned" /\ owner' = n /\ asked' = 0
  /\ UNCHANGED <<fresh, retry, conn, ok, up, down, backend, left>>

\* The health check replaces a client that is not connected.
HealthCheck ==
  /\ pc = "pooled" /\ ~conn
  /\ pc' = "dial" /\ fresh' = TRUE
  /\ UNCHANGED <<retry, conn, ok, owner, asked, up, down, backend, left>>

\* A query of the owner is relayed, and a message of the backend.
Relay ==
  /\ pc = "owned" /\ conn
  /\ \/ /\ asked < MaxQueries
        /\ asked' = asked + 1
        /\ Write(<<Msg("Query", owner)>>)
        /\ UNCHANGED down
     \/ /\ down # <<>>
        /\ down' = Tail(down)
        /\ UNCHANGED <<asked, up>>
  /\ UNCHANGED <<pc, fresh, retry, conn, ok, owner, backend, left>>

\* Reconnect closes the connection, if there is one, and dials again.
Reconnect ==
  /\ pc' = "dial" /\ fresh' = FALSE /\ conn' = FALSE
  /\ up' = <<>> /\ down' = <<>>
  /\ phase' = "closed"
  /\ UNCHANGED <<retry, ok, owner, asked, tx, state>>

\* recycleClientConnection: a client that is connected sends DISCARD ALL.
Disconnect ==
  /\ pc = "owned"
  /\ \/ ~conn /\ Reconnect /\ left' = left
     \/ /\ conn /\ pc' = "reset"
        /\ Write(<<Own("Discard")>>)
        /\ left' = (left \/ up # <<>> \/ down # <<>>)
        /\ UNCHANGED <<fresh, retry, conn, ok, owner, asked, down, backend>>

\* Mutant of ResetReceive: an error is skipped like an unexpected message.
ResetSkipsErrors ==
  /\ pc = "reset" /\ down # <<>>
  /\ \/ /\ Head(down).type = "Ready"
        /\ pc' = "pooled" /\ ok' = TRUE /\ down' \in Suffixes(Tail(down))
     \/ /\ Head(down).type # "Ready"
        /\ down' = Tail(down) /\ UNCHANGED <<pc, ok>>
  /\ UNCHANGED <<fresh, retry, conn, owner, asked, up, backend, left>>

\* One iteration of the loop in pgResetSession.  It returns with the first
\* ReadyForQuery; what its Frontend has read ahead is lost with it.  An error
\* makes recycleClientConnection reconnect.
ResetReceive ==
  /\ pc = "reset" /\ down # <<>>
  /\ \/ /\ Head(down).type = "Ready"
        /\ pc' = "pooled" /\ ok' = TRUE /\ down' \in Suffixes(Tail(down))
        /\ UNCHANGED <<fresh, retry, conn, owner, asked, up, backend, left>>
     \/ /\ Head(down).type = "Error"
        /\ Reconnect /\ left' = left
     \/ /\ Head(down).type \notin {"Ready", "Error"}
        /\ down' = Tail(down)
        /\ UNCHANGED <<pc, fresh, retry, conn, ok, owner, asked, up, backend, left>>

\* Sending DISCARD ALL or receiving fails.
ResetError ==
  /\ pc = "reset" /\ phase = "closed"
  /\ Reconnect /\ left' = left

ResetSession == ResetReceive \/ ResetError

-----------------------------------------------------------------------------
(* The backend (external).                                                 *)

Answer(types, by) ==
  /\ up' = Tail(up)
  /\ down' = down \o [i \in 1..Len(types) |-> Msg(types[i], by)]

\* It asks for authentication, and lets GatewayD in or refuses.
Authenticate ==
  /\ up # <<>> /\ phase \notin {"ready", "closed"}
  /\ \/ /\ phase = "startup" /\ Head(up).type = "Startup"
        /\ \E m \in Methods \ {"trust"} :
             /\ Answer(<<m>>, None)
             /\ phase' = IF m \in {"cleartext", "md5"} THEN "password" ELSE "initial"
     \/ /\ phase = "startup" /\ Head(up).type = "Startup" /\ "trust" \in Methods
        /\ Answer(<<"Ok", "Ready">>, None) /\ phase' = "ready"
     \/ /\ phase = "password" /\ Head(up).type = "Password"
        /\ Answer(<<"Ok", "Ready">>, None) /\ phase' = "ready"
     \/ /\ phase = "initial" /\ Head(up).type = "SASLInitial"
        /\ Answer(<<"SASLContinue">>, None) /\ phase' = "response"
     \/ /\ phase = "response" /\ Head(up).type = "SASLResponse"
        /\ Answer(<<"SASLFinal", "Ok", "Ready">>, None) /\ phase' = "ready"
     \/ /\ Head(up).by # None \/ Head(up).type = "Discard" \/ "refuse" \in Faults
        /\ up' = <<>> /\ down' = Append(down, Msg("Error", Head(up).by))
        /\ phase' = "closed"
  /\ UNCHANGED <<pc, fresh, retry, conn, ok, owner, asked, tx, state, left>>

\* A query changes the state of the session and may end in a transaction; an
\* error has its ReadyForQuery too.  DISCARD ALL clears the state, but is an
\* error in a transaction.
Execute ==
  /\ up # <<>> /\ phase = "ready"
  /\ \/ /\ Head(up).type = "Query"
        /\ \E type \in {"Complete", "Error"} : Answer(<<type, "Ready">>, Head(up).by)
        /\ tx' \in BOOLEAN
        /\ state' = Head(up).by
     \/ /\ Head(up).type = "Discard" /\ ~tx
        /\ Answer(<<"Complete", "Ready">>, None)
        /\ state' = None /\ tx' = FALSE
     \/ /\ Head(up).type = "Discard" /\ tx
        /\ Answer(<<"Error", "Ready">>, None)
        /\ UNCHANGED <<tx, state>>
  /\ UNCHANGED <<pc, fresh, retry, conn, ok, owner, asked, phase, left>>

BackendCloses ==
  /\ "close" \in Faults /\ phase # "closed"
  /\ phase' = "closed" /\ up' = <<>>
  /\ UNCHANGED <<pc, fresh, retry, conn, ok, owner, asked, down, tx, state, left>>

Next ==
  \/ DialSucceeds \/ DialFails \/ Handshake
  \/ HealthCheck \/ Relay \/ Disconnect \/ ResetSession
  \/ \E n \in Owner : Connect(n)
  \/ Authenticate \/ Execute \/ BackendCloses

Spec == Init /\ [][Next]_vars

\* The goroutine runs and the backend answers what it has read.  The second is
\* an assumption about the backend: Reconnect and ResetSession set no deadline,
\* NewClient sets one only if ReceiveDeadline is configured, so that a silent
\* backend blocks them.
Fairness ==
  /\ WF_vars(DialSucceeds \/ DialFails \/ Handshake \/ ResetSession)
  /\ WF_vars(Authenticate \/ Execute)

FairSpec == Spec /\ Fairness

-----------------------------------------------------------------------------
(* Properties.                                                             *)

Types ==
  {"Startup", "Password", "SASLInitial", "SASLResponse", "Query", "Discard",
   "SASLContinue", "SASLFinal", "Ok", "Ready", "Error", "Complete"} \cup Methods

Message == [type : Types, by : Owner \cup {None}]

\* The types of the variables; a client that is not connected has no stream.
TypeOK ==
  /\ pc \in {"dial", "startup", "continue", "final", "pooled", "owned", "reset", "nil"}
  /\ fresh \in BOOLEAN /\ conn \in BOOLEAN /\ ok \in BOOLEAN /\ left \in BOOLEAN
  /\ retry \in 0..Retries /\ asked \in 0..MaxQueries
  /\ owner \in Owner \cup {None} /\ state \in Owner \cup {None} /\ tx \in BOOLEAN
  /\ up \in Seq(Message) /\ down \in Seq(Message)
  /\ phase \in {"startup", "password", "initial", "response", "ready", "closed"}
  /\ ~conn => phase = "closed" /\ up = <<>>

\* On a connection that an error-free pgStartup or pgResetSession made available
\* the backend waits for a query, outside a transaction and with no state of an
\* earlier owner, unless an owner left before its answers had arrived.
PooledIdle ==
  pc = "pooled" /\ ok /\ ~left /\ phase # "closed" =>
    phase = "ready" /\ ~tx /\ state = None

\* An owner of such a connection is sent the answers to its own queries and
\* nothing else, and the backend is sent nothing but its queries.
NoCrossTalk ==
  pc = "owned" /\ ok /\ ~left =>
    \A m \in ToSet(up) \cup ToSet(down) : m.by = owner

-----------------------------------------------------------------------------
(* The inductive strengthening of PooledIdle and NoCrossTalk.              *)

\* Nothing is on its way to a backend that has gone.
NothingToClosed == phase = "closed" => up = <<>>

\* The messages are about GatewayD, and a ReadyForQuery is the last of them.
EndsReady(msgs) ==
  \A i \in 1..Len(msgs) :
    msgs[i].by = None /\ (msgs[i].type = "Ready" => i = Len(msgs))

\* During the handshake each side waits for the other: one message is on its
\* way, except for those that end with the ReadyForQuery.
HandshakeInv ==
  pc \in {"startup", "continue", "final"} =>
    /\ conn /\ ~left /\ ~tx /\ state = None
    /\ EndsReady(up) /\ EndsReady(down)
    /\ \A i \in 1..Len(up) : up[i].type \notin {"Query", "Discard"}
    /\ up # <<>> => Len(up) = 1 /\ down = <<>> /\ phase # "ready"
    /\ phase = "ready" =>
         \A i \in 1..Len(down) : down[i].type \in {"SASLFinal", "Ok", "Ready"}
    /\ phase \notin {"ready", "closed"} =>
         /\ Len(down) <= 1
         /\ \A i \in 1..Len(down) : down[i].type # "Ready"

\* A connection whose last call succeeded waits in the pool with both streams
\* empty.
PooledInv ==
  pc = "pooled" /\ ok /\ ~left =>
    /\ up = <<>> /\ down = <<>>
    /\ phase = "closed" \/ (phase = "ready" /\ ~tx /\ state = None)

\* Its owner has queries and their answers on the way, the backend is past the
\* handshake.
OwnedInv ==
  pc = "owned" /\ ok /\ ~left =>
    /\ phase \in {"ready", "closed"}
    /\ \A i \in 1..Len(up) : up[i].by = owner /\ up[i].type = "Query"
    /\ \A i \in 1..Len(down) : down[i].by = owner

\* DISCARD ALL is on its way, or its answer is: it ends with ReadyForQuery and
\* starts with an error, unless the session is clean.
ResetInv ==
  pc = "reset" =>
    /\ conn
    /\ ~left =>
         /\ EndsReady(down)
         /\ up # <<>> => up = <<Own("Discard")>> /\ down = <<>>
         /\ up = <<>> /\ phase # "closed" =>
              /\ phase = "ready" /\ down # <<>> /\ down[Len(down)].type = "Ready"
              /\ down[1].type # "Error" => ~tx /\ state = None

\* The inductive invariant of the proofs.
SessionInv ==
  TypeOK /\ NothingToClosed /\ HandshakeInv /\ PooledInv /\ OwnedInv /\ ResetInv

-----------------------------------------------------------------------------
\* NewClient, Reconnect and ResetSession return, however often the backend
\* refuses, closes the connection or cannot be reached.
HandshakeReturns ==
  pc \in {"dial", "startup", "continue", "final", "reset"} ~> pc \in {"pooled", "nil"}

\* "On success the connection is back in ReadyForQuery/idle state and can be
\* reused": the next owner is sent the answers to its own queries alone.
ResetMakesReusable ==
  pc = "owned" /\ ok => \A m \in ToSet(down) : m.by = owner

=============================================================================
