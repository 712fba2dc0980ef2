------------------------------- MODULE Lease -------------------------------
(***************************************************************************)
(* What a proxy promises the server, without pools, keys, health checks or *)
(* shutdown: backend clients are leased to incoming connections, one       *)
(* client for a connection and one connection for a client, and a client   *)
(* whose session carries the state of a connection is leased to no other,  *)
(* unless that connection left before its queries were answered.           *)
(***************************************************************************)
CONSTANTS
  Conn,   \* incoming connections
  Client, \* backend clients
  Nil     \* no client

VARIABLES
  lease, \* per connection: the client it has
  used   \* per client: what its session carries of its connections

vars == <<lease, used>>

\* "left": a connection ended before its answers, and nothing is promised of
\* the session until it is closed or found clean.
SessionState == {"clean", "used", "left"}

Init ==
  /\ lease = [n \in Conn |-> Nil]
  /\ used = [c \in Client |-> "clean"]

\* A connection without a client gets one that nobody has and that has no
\* state of another.  The session is used from then on, unless the client is
\* closed already.
Grant(n, c) ==
  /\ lease[n] = Nil
  /\ \A m \in Conn : lease[m] # c
  /\ used[c] # "used"
  /\ lease' = [lease EXCEPT ![n] = c]
  /\ \E u \in SessionState : used' = [used EXCEPT ![c] = u]

\* The connection ends, perhaps before its answers.  Its client keeps the
\* state of the session.
Release(n) ==
  /\ lease' = [lease EXCEPT ![n] = Nil]
  /\ \/ UNCHANGED used
     \/ lease[n] # Nil /\ used' = [used EXCEPT ![lease[n]] = "left"]

\* All leases end at once.
ReleaseAll ==
  /\ lease' = [n \in Conn |-> Nil]
  /\ UNCHANGED used

\* The session of a client is reset or ends, leased or not.
Clean(c) ==
  /\ used' = [used EXCEPT ![c] = "clean"]
  /\ UNCHANGED lease

Next ==
  \/ \E n \in Conn, c \in Client : Grant(n, c)
  \/ \E n \in Conn : Release(n)
  \/ ReleaseAll
  \/ \E c \in Client : Clean(c)

Spec == Init /\ [][Next]_vars

=============================================================================
