------------------------------ MODULE Traffic ------------------------------
(***************************************************************************)
(* OnTraffic for one incoming connection (network/server.go) and the calls *)
(* it makes: PassThroughToServer, PassThroughToClient (network/proxy.go),  *)
(* Send and Receive (network/client.go) and the request stack              *)
(* (network/stack.go).                                                     *)
(*                                                                         *)
(* Two goroutines relay the traffic, one per direction.  Each interrupts   *)
(* the other when it exits by expiring the read deadline the other one     *)
(* blocks on; OnTraffic waits for both and then clears the deadline of the *)
(* backend socket.  The client, the backend, a proxy Shutdown and a health *)
(* check that still refers to this backend client act at any time.         *)
(*                                                                         *)
(* A socket buffer is a sequence of units.  A message is one or more       *)
(* units, and a Read returns some of the units that have arrived, at most  *)
(* Chunk (ReceiveChunkSize bytes), so that a message may be split between  *)
(* reads and may fill a read exactly.  Writes do not block.                *)
(***************************************************************************)
EXTENDS Naturals, Sequences, FiniteSets

CONSTANTS
  MaxRequest,  \* requests the client may send
  Chunk,       \* ReceiveChunkSize, in units
  ReqSizes,    \* the sizes of requests, in units
  RespSizes,   \* the sizes of responses, in units
  Pipelining,  \* TRUE iff the client sends without waiting for the answer
  Hooks,       \* what the OnTrafficFromClient hook may ask for
  Faults,      \* what the environment may do: subset of FaultKinds
  StackBound   \* bound on the modelled length of the stack

FaultKinds == {"backend", "shutdown", "health"}

\* "ssl" lets the client ask for TLS first, "answer" and "terminate" are the
\* two outcomes of the terminate action, with and without a response.
HookKinds == {"ssl", "answer", "terminate"}

ASSUME TrafficAssumption ==
  /\ MaxRequest \in Nat
  /\ Chunk \in Nat \ {0}
  /\ ReqSizes \subseteq Nat \ {0}
  /\ RespSizes \subseteq Nat \ {0}
  /\ Pipelining \in BOOLEAN
  /\ Hooks \subseteq HookKinds
  /\ Faults \subseteq FaultKinds
  /\ StackBound \in Nat \ {0}

VARIABLES
  main,          \* OnTraffic: "wait", "clear", "closed"; "panic": no process
  c2s, s2c,      \* program counters of the two goroutines
  inbuf, outbuf, \* what the current receive of each has read so far
  front, eof,    \* the socket to the client: unread units, closed by it
  frontExpired,  \* whether the read deadline of that socket has passed
  sent, got,     \* requests the client sent, units written to it
  toBackend,     \* units the backend has not read yet
  back, alive,   \* the socket to the backend: unread units, still open there
  backExpired,   \* whether the read deadline of that socket has passed
  connected,     \* client.IsConnected of the backend client
  busy,          \* whether busyConnections has the connection
  stack,         \* the requests on the stack, each a set of request numbers
  hooked         \* the request and response last shown to the hooks

c2sVars  == <<c2s, inbuf>>
s2cVars  == <<s2c, outbuf, hooked>>
userVars == <<front, eof, sent>>
backVars == <<toBackend, back, alive>>
poolVars == <<connected, busy>>
vars == <<main, c2s, s2c, inbuf, outbuf, front, eof, frontExpired, sent, got,
          toBackend, back, alive, backExpired, connected, busy, stack, hooked>>

\* A panic in any goroutine ends the process.
Running == main # "panic"

Request == 1..MaxRequest

Unit == [of : Request, seq : Nat, last : BOOLEAN]

Units(r, n) == [k \in 1..n |-> [of |-> r, seq |-> k, last |-> k = n]]

\* The messages a buffer holds some of, and where one of them ends.
In(buf) == {buf[k].of : k \in DOMAIN buf}

Ends(buf) == {k \in DOMAIN buf : buf[k].last}

\* The client may start with an SSLRequest; its other requests are queries.
IsSSLRequest(buf) == "ssl" \in Hooks /\ In(buf) = {1}

\* One response, to the last request that ends in the buffer, is written to the
\* client without the backend; half a request has none.
Answer(buf) ==
  \/ Ends(buf) = {} /\ UNCHANGED got
  \/ \E k \in Ends(buf) :
       (\A j \in Ends(buf) : j <= k) /\ got' = got \o Units(buf[k].of, 1)

\* The client has received the end of the response to r.
Answered(r) == \E k \in Ends(got) : got[k].of = r

Init ==
  /\ main = "wait" /\ c2s = "loop" /\ s2c = "loop"
  /\ inbuf = <<>> /\ outbuf = <<>> /\ hooked = [req |-> {}, resp |-> {}]
  /\ front = <<>> /\ eof = FALSE /\ frontExpired = FALSE
  /\ sent = 0 /\ got = <<>>
  /\ toBackend = <<>> /\ back = <<>> /\ alive = TRUE /\ backExpired = FALSE
  /\ connected = TRUE /\ stack = <<>>
  /\ busy \in BOOLEAN \* FALSE: OnOpen failed, and the loop went on

-----------------------------------------------------------------------------
(* The request stack.                                                      *)

Push(r) == IF Len(stack) < StackBound THEN Append(stack, r) ELSE stack

PopLast(s) == IF s = <<>> THEN s ELSE SubSeq(s, 1, Len(s) - 1)

UpdateLast(r) == IF stack = <<>> THEN stack ELSE [stack EXCEPT ![Len(stack)] = r]

\* Mutant of Last: no check for an empty stack.
LastNil == IF stack = <<>> THEN {0} ELSE stack[Len(stack)]

Last == IF stack = <<>> THEN {} ELSE stack[Len(stack)]

(* Reading from a socket: one Read returns the first k units.             *)

Readable(buf) == 1..(IF Len(buf) <= Chunk THEN Len(buf) ELSE Chunk)

Taken(buf, k) == SubSeq(buf, 1, k)

Rest(buf, k) == SubSeq(buf, k + 1, Len(buf))

\* A Read that fills the chunk is followed by another one.
ReadAgain(k) == k = Chunk

-----------------------------------------------------------------------------
(* The goroutine from the client to the server: PassThroughToServer.       *)

C2sCheck ==
  /\ Running /\ c2s = "loop"
  /\ c2s' = IF busy /\ connected THEN "read" ELSE "exit"
  /\ UNCHANGED <<main, inbuf, s2cVars, userVars, frontExpired, got, backVars,
                 backExpired, poolVars, stack>>

\* receiveTrafficFromClient.  Only io.EOF ends PassThroughToServer: after any
\* other error it goes on with what it has read.
C2sRead ==
  /\ Running /\ c2s = "read"
  /\ \/ /\ frontExpired
        /\ c2s' = "push"
        /\ UNCHANGED <<inbuf, front>>
     \/ /\ ~frontExpired /\ front # <<>>
        /\ \E k \in Readable(front) :
             /\ inbuf' = inbuf \o Taken(front, k)
             /\ front' = Rest(front, k)
             /\ c2s' = IF ReadAgain(k) THEN "read" ELSE "push"
     \/ /\ ~frontExpired /\ front = <<>> /\ eof
        /\ c2s' = "exit"
        /\ UNCHANGED <<inbuf, front>>
  /\ UNCHANGED <<main, s2cVars, eof, sent, frontExpired, got, backVars,
                 backExpired, poolVars, stack>>

\* The hooks have run.  An SSLRequest is answered here, with or without a TLS
\* handshake; any other request is pushed before the verdict is looked at.
C2sPush ==
  /\ Running /\ c2s = "push"
  /\ \/ /\ IsSSLRequest(inbuf)
        /\ c2s' = "loop" /\ inbuf' = <<>>
        /\ Answer(inbuf)
        /\ UNCHANGED stack
     \/ /\ ~IsSSLRequest(inbuf)
        /\ c2s' \in {"send"} \cup (Hooks \ {"ssl"})
        /\ stack' = Push(In(inbuf))
        /\ UNCHANGED <<inbuf, got>>
  /\ UNCHANGED <<main, s2cVars, userVars, frontExpired, backVars, backExpired,
                 poolVars>>

\* Mutant of C2sAnswer: the request stays on the stack.
AnswerWithoutPop ==
  /\ Running /\ c2s = "answer"
  /\ UNCHANGED stack
  /\ inbuf' = <<>>
  /\ \/ c2s' = "loop" /\ Answer(inbuf)
     \/ eof /\ c2s' = "exit" /\ UNCHANGED got
  /\ UNCHANGED <<main, s2cVars, userVars, frontExpired, backVars, backExpired,
                 poolVars>>

\* The terminate action returned a response: it is sent to the client, and
\* unless that fails the loop goes on.
C2sAnswer ==
  /\ Running /\ c2s = "answer"
  /\ stack' = PopLast(stack)
  /\ inbuf' = <<>>
  /\ \/ c2s' = "loop" /\ Answer(inbuf)
     \/ eof /\ c2s' = "exit" /\ UNCHANGED got
  /\ UNCHANGED <<main, s2cVars, userVars, frontExpired, backVars, backExpired,
                 poolVars>>

\* Mutant of C2sSend: the request is written a second time.
SendTwice ==
  /\ Running /\ c2s = "send"
  /\ stack' = UpdateLast(In(inbuf))
  /\ toBackend' = IF connected /\ alive THEN toBackend \o inbuf \o inbuf ELSE toBackend
  /\ inbuf' = <<>>
  /\ c2s' = "loop"
  /\ UNCHANGED <<main, s2cVars, userVars, frontExpired, got, back, alive,
                 backExpired, poolVars>>

\* sendTrafficToServer ignores an empty request; its error goes to the hooks
\* only.
C2sSend ==
  /\ Running /\ c2s = "send"
  /\ stack' = UpdateLast(In(inbuf))
  /\ toBackend' = IF connected /\ alive THEN toBackend \o inbuf ELSE toBackend
  /\ inbuf' = <<>>
  /\ c2s' = "loop"
  /\ UNCHANGED <<main, s2cVars, userVars, frontExpired, got, back, alive,
                 backExpired, poolVars>>

\* Mutant of C2sExit: the other goroutine is not interrupted.
ExitWithoutExpire ==
  /\ Running /\ c2s \in {"terminate", "exit"}
  /\ c2s' = "done"
  /\ inbuf' = <<>>
  /\ UNCHANGED <<main, s2cVars, userVars, frontExpired, got, backVars,
                 backExpired, poolVars, stack>>

\* ErrHookTerminatedConnection, or the end of the loop:
\* ExpireBackendReadDeadline looks at cl.conn without the client's lock ...
C2sExit ==
  /\ Running /\ c2s \in {"terminate", "exit"}
  /\ c2s' = IF busy /\ connected THEN "expire" ELSE "done"
  /\ inbuf' = <<>>
  /\ UNCHANGED <<main, s2cVars, userVars, frontExpired, got, backVars,
                 backExpired, poolVars, stack>>

\* ... and then uses it; Close may have set it to nil since.
C2sExpire ==
  /\ Running /\ c2s = "expire"
  /\ c2s' = "done"
  /\ backExpired' = (backExpired \/ connected)
  /\ main' = IF connected THEN main ELSE "panic"
  /\ UNCHANGED <<inbuf, s2cVars, userVars, frontExpired, got, backVars,
                 poolVars, stack>>

C2s == C2sCheck \/ C2sRead \/ C2sPush \/ C2sAnswer \/ C2sSend \/ C2sExit
       \/ C2sExpire

-----------------------------------------------------------------------------
(* The goroutine from the server to the client: PassThroughToClient.       *)

S2cCheck ==
  /\ Running /\ s2c = "loop"
  /\ s2c' = IF busy /\ connected THEN "receive" ELSE "exit"
  /\ UNCHANGED <<main, c2sVars, outbuf, hooked, userVars, frontExpired, got,
                 backVars, backExpired, poolVars, stack>>

\* Mutant of S2cReceive: a short read does not end the loop.
ReceiveForever ==
  /\ Running /\ s2c = "receive"
  /\ \/ /\ backExpired \/ ~connected \/ (back = <<>> /\ ~alive)
        /\ s2c' = "exit" /\ outbuf' = <<>>
        /\ stack' = PopLast(stack)
        /\ UNCHANGED back
     \/ /\ ~backExpired /\ connected /\ back # <<>>
        /\ \E k \in Readable(back) :
             /\ outbuf' = outbuf \o Taken(back, k)
             /\ back' = Rest(back, k)
             /\ s2c' = "receive"
        /\ UNCHANGED stack
  /\ UNCHANGED <<main, c2sVars, hooked, userVars, frontExpired, got, toBackend,
                 alive, backExpired, poolVars>>

\* Mutant of S2cReceive: a chunk replaces the ones before it.
ReceiveLastChunk ==
  /\ Running /\ s2c = "receive"
  /\ \/ /\ backExpired \/ ~connected \/ (back = <<>> /\ ~alive)
        /\ s2c' = "exit" /\ outbuf' = <<>>
        /\ stack' = PopLast(stack)
        /\ UNCHANGED back
     \/ /\ ~backExpired /\ connected /\ back # <<>>
        /\ \E k \in Readable(back) :
             /\ outbuf' = Taken(back, k)
             /\ back' = Rest(back, k)
             /\ s2c' = IF ReadAgain(k) THEN "receive" ELSE "deliver"
        /\ UNCHANGED stack
  /\ UNCHANGED <<main, c2sVars, hooked, userVars, frontExpired, got, toBackend,
                 alive, backExpired, poolVars>>

\* Receive.  On an error the request is popped and what was read is dropped.
S2cReceive ==
  /\ Running /\ s2c = "receive"
  /\ \/ /\ backExpired \/ ~connected \/ (back = <<>> /\ ~alive)
        /\ s2c' = "exit" /\ outbuf' = <<>>
        /\ stack' = PopLast(stack)
        /\ UNCHANGED back
     \/ /\ ~backExpired /\ connected /\ back # <<>>
        /\ \E k \in Readable(back) :
             /\ outbuf' = outbuf \o Taken(back, k)
             /\ back' = Rest(back, k)
             /\ s2c' = IF ReadAgain(k) THEN "receive" ELSE "deliver"
        /\ UNCHANGED stack
  /\ UNCHANGED <<main, c2sVars, hooked, userVars, frontExpired, got, toBackend,
                 alive, backExpired, poolVars>>

\* The hooks see the response with the request popped from the stack; then
\* the response is written to the client, which may be gone.
S2cDeliver ==
  /\ Running /\ s2c = "deliver"
  /\ hooked' = [req |-> Last, resp |-> In(outbuf)]
  /\ stack' = PopLast(stack)
  /\ outbuf' = <<>>
  /\ \/ s2c' = "loop" /\ got' = got \o outbuf
     \/ eof /\ s2c' = "exit" /\ UNCHANGED got
  /\ UNCHANGED <<main, c2sVars, userVars, frontExpired, backVars, backExpired,
                 poolVars>>

\* Mutant of S2cExit: the other goroutine is not interrupted.
ExitSilently ==
  /\ Running /\ s2c = "exit"
  /\ UNCHANGED frontExpired
  /\ s2c' = "done"
  /\ UNCHANGED <<main, c2sVars, outbuf, hooked, userVars, got, backVars,
                 backExpired, poolVars, stack>>

S2cExit ==
  /\ Running /\ s2c = "exit"
  /\ frontExpired' = TRUE
  /\ s2c' = "done"
  /\ UNCHANGED <<main, c2sVars, outbuf, hooked, userVars, got, backVars,
                 backExpired, poolVars, stack>>

S2c == S2cCheck \/ S2cReceive \/ S2cDeliver \/ S2cExit

-----------------------------------------------------------------------------
\* Mutant of Wait: only the goroutine from the server is waited for.
WaitForOne ==
  /\ main = "wait" /\ s2c = "done"
  /\ main' = IF busy /\ connected THEN "clear" ELSE "closed"
  /\ stack' = IF busy /\ connected THEN stack ELSE <<>>
  /\ UNCHANGED <<c2sVars, s2cVars, userVars, frontExpired, got, backVars,
                 backExpired, poolVars>>

\* OnTraffic after trafficWaitGroup.Wait.  ClearBackendDeadline looks at
\* cl.conn ...
Wait ==
  /\ main = "wait" /\ c2s = "done" /\ s2c = "done"
  /\ main' = IF busy /\ connected THEN "clear" ELSE "closed"
  /\ stack' = IF busy /\ connected THEN stack ELSE <<>>
  /\ UNCHANGED <<c2sVars, s2cVars, userVars, frontExpired, got, backVars,
                 backExpired, poolVars>>

\* ... and uses it; then stack.Clear.
ClearDeadline ==
  /\ main = "clear"
  /\ main' = IF connected THEN "closed" ELSE "panic"
  /\ backExpired' = (backExpired /\ ~connected)
  /\ stack' = <<>>
  /\ UNCHANGED <<c2sVars, s2cVars, userVars, frontExpired, got, backVars,
                 poolVars>>

(* The environment.                                                        *)

\* A client that does not pipeline waits for the answer to its last request.
ClientSend ==
  /\ Running /\ ~eof /\ sent < MaxRequest
  /\ Pipelining \/ sent = 0 \/ Answered(sent)
  /\ \E n \in (IF sent = 0 /\ "ssl" \in Hooks THEN {1} ELSE ReqSizes) :
       front' = front \o Units(sent + 1, n)
  /\ sent' = sent + 1
  /\ UNCHANGED <<main, c2sVars, s2cVars, eof, frontExpired, got, backVars,
                 backExpired, poolVars, stack>>

ClientClose ==
  /\ Running /\ ~eof /\ eof' = TRUE
  /\ UNCHANGED <<main, c2sVars, s2cVars, front, sent, frontExpired, got,
                 backVars, backExpired, poolVars, stack>>

\* The backend answers the oldest request in full.
BackendReply ==
  /\ Running /\ alive
  /\ \E k \in DOMAIN toBackend, n \in RespSizes :
       /\ toBackend[k].last
       /\ \A j \in 1..(k - 1) : ~toBackend[j].last
       /\ back' = back \o Units(toBackend[k].of, n)
       /\ toBackend' = SubSeq(toBackend, k + 1, Len(toBackend))
  /\ UNCHANGED <<main, c2sVars, s2cVars, userVars, frontExpired, got, alive,
                 backExpired, poolVars, stack>>

BackendClose ==
  /\ Running /\ "backend" \in Faults /\ alive /\ alive' = FALSE
  /\ UNCHANGED <<main, c2sVars, s2cVars, userVars, frontExpired, got, toBackend,
                 back, backExpired, poolVars, stack>>

\* A health check that visited the backend client before Connect took it, or
\* Shutdown's loop over the busy connections, closes the backend client.
CloseBackendClient ==
  /\ Running /\ Faults \cap {"shutdown", "health"} # {} /\ main # "closed"
  /\ connected /\ connected' = FALSE
  /\ UNCHANGED <<main, c2sVars, s2cVars, userVars, frontExpired, got, backVars,
                 backExpired, busy, stack>>

\* Shutdown then clears the busy connections, with the client of this one
\* closed or not: Connect may have stored it behind the loop.
ClearBusy ==
  /\ Running /\ "shutdown" \in Faults /\ main # "closed"
  /\ busy /\ busy' = FALSE
  /\ UNCHANGED <<main, c2sVars, s2cVars, userVars, frontExpired, got, backVars,
                 backExpired, connected, stack>>

Env ==
  \/ ClientSend \/ ClientClose \/ BackendReply \/ BackendClose
  \/ CloseBackendClient \/ ClearBusy

Next == C2s \/ S2c \/ Wait \/ ClearDeadline \/ Env

Spec == Init /\ [][Next]_vars

\* The goroutines are scheduled and the backend answers; the client and the
\* faults are free.
Fairness ==
  /\ WF_vars(C2s)
  /\ WF_vars(S2c)
  /\ WF_vars(Wait \/ ClearDeadline)
  /\ WF_vars(BackendReply)

FairSpec == Spec /\ Fairness

-----------------------------------------------------------------------------
(* Properties.                                                             *)

\* Every variable has its type.
TypeOK ==
  /\ main \in {"wait", "clear", "closed", "panic"}
  /\ c2s \in {"loop", "read", "push", "send", "exit", "expire", "done"}
             \cup (Hooks \ {"ssl"})
  /\ s2c \in {"loop", "receive", "deliver", "exit", "done"}
  /\ inbuf \in Seq(Unit) /\ outbuf \in Seq(Unit) /\ got \in Seq(Unit)
  /\ front \in Seq(Unit) /\ back \in Seq(Unit) /\ toBackend \in Seq(Unit)
  /\ eof \in BOOLEAN /\ frontExpired \in BOOLEAN /\ backExpired \in BOOLEAN
  /\ alive \in BOOLEAN /\ connected \in BOOLEAN /\ busy \in BOOLEAN
  /\ sent \in 0..MaxRequest
  /\ stack \in Seq(SUBSET Request)
  /\ hooked \in [req : SUBSET Request, resp : SUBSET Request]

\* When OnTraffic has returned, neither goroutine can touch the backend socket
\* and, if Disconnect finds the client and it is connected, its read deadline
\* is not the expired one, so that the session reset does not fail on it.
NoStaleDeadline ==
  main = "closed" =>
    /\ c2s = "done" /\ s2c = "done"
    /\ ~(busy /\ connected /\ backExpired)

\* OnTraffic goes on only when both goroutines have ended.
ReturnsLast == main \in {"clear", "closed"} => c2s = "done" /\ s2c = "done"

\* The inductive invariant of the proofs.
DeadlineInv == ReturnsLast /\ NoStaleDeadline

\* The units of the responses 1, 2, ..., each complete but perhaps the last.
InOrder(units) ==
  \A k \in DOMAIN units :
    IF k = 1 \/ units[k - 1].last
      THEN /\ units[k].seq = 1
           /\ units[k].of = 1 + (IF k = 1 THEN 0 ELSE units[k - 1].of)
      ELSE /\ units[k].seq = units[k - 1].seq + 1
           /\ units[k].of = units[k - 1].of

\* The client receives the units of the answers to its requests in order,
\* with none missing, repeated or taken from another answer.
RelayedInOrder == InOrder(got)

\* The request PassThroughToClient shows the hooks beside a response is the
\* one the response answers, or no request.
Pairing == hooked.req \subseteq hooked.resp

-----------------------------------------------------------------------------
(* The inductive strengthening of RelayedInOrder and Pairing.              *)

\* What PassThroughToClient relays comes from the backend in this order; when
\* it has ended, what has arrived is all there will be from it.
Relaying == s2c \in {"loop", "receive", "deliver"}

Responses == IF Relaying THEN got \o outbuf \o back ELSE got

\* What PassThroughToServer relays, from the oldest unit on.
Requests == toBackend \o inbuf \o front

Forwarding == connected /\ alive /\ c2s \in {"loop", "read", "push", "answer", "send"}

Sorted(units) ==
  \A i, k \in DOMAIN units : i < k =>
    units[i].of <= units[k].of /\ (units[i].last => units[i].of < units[k].of)

\* No response so far is to m or to a later request.
Fresh(m) == \A k \in DOMAIN Responses : Responses[k].of < m

\* A request that can still be answered comes after all that were, and while
\* neither direction has ended none is missing in between.
OrderInv ==
  /\ InOrder(Responses) /\ Sorted(Responses) /\ Sorted(Requests)
  /\ \A k \in DOMAIN Responses : Responses[k].of <= sent
  /\ \A k \in DOMAIN Requests :
       Requests[k].of <= sent /\ (Requests[k].last => Fresh(Requests[k].of))
  /\ ~Pipelining /\ sent > 1 => Answered(sent - 1)
  /\ Relaying =>
       /\ Responses # <<>> => Responses[Len(Responses)].last
       /\ \A k \in DOMAIN toBackend, m \in Request :
            m < toBackend[k].of /\ Fresh(m) =>
              \E j \in 1..(k - 1) : toBackend[j].last /\ toBackend[j].of = m
       /\ Forwarding =>
            \A m \in 1..sent : Fresh(m) =>
              \E j \in Ends(Requests) : Requests[j].of = m

\* The stack holds the request that waits for its response, from the push on.
StackInv ==
  Relaying =>
    /\ ~frontExpired
    /\ \A k \in DOMAIN Requests : Requests[k].last
    /\ c2s = "loop" => inbuf = <<>>
    /\ c2s \in {"push", "answer", "send"} => inbuf # <<>>
    /\ s2c = "deliver" => outbuf # <<>>
    /\ stack \in {<<>>, <<{sent}>>}
    /\ \/ sent = 0 \/ Answered(sent) \/ front # <<>>
       \/ inbuf # <<>> /\ c2s \in {"read", "push"}
       => stack = <<>>

\* busyConnections has no entry for the connection although its client is
\* open: Connect failed, or Clear took the entry of a client that Shutdown did
\* not close.  ExpireBackendReadDeadline finds nothing to interrupt.
Unlisted == ~busy /\ connected /\ ~backExpired

\* When the goroutine from the client ends, the other one ends too, unless the
\* entry was lost before it could be interrupted.
C2sStopsS2c ==
  (c2s = "done") ~> (s2c = "done" \/ Unlisted \/ main = "panic")

\* The same without the exception.
ExitInterrupts == (c2s = "done") ~> (s2c = "done" \/ main = "panic")

\* When the goroutine from the server ends, the other one ends too.
S2cStopsC2s == (s2c = "done") ~> (c2s = "done" \/ main = "panic")

\* Once the backend client is closed, as by the proxy's Shutdown, OnTraffic
\* returns.
ShutdownUnblocks == ~connected ~> main \in {"closed", "panic"}

\* All that has arrived fills a number of chunks exactly, so that Receive waits
\* for more.
HeldBack == s2c = "receive" /\ back = <<>> /\ Len(outbuf) % Chunk = 0

\* What Receive has read is passed on to the client or dropped with an error;
\* it is held back only where it ends with a full chunk.
ResponseDelivered ==
  (outbuf # <<>>) ~> (outbuf = <<>> \/ HeldBack \/ main = "panic")

\* The same without the exception.
NothingHeldBack == (outbuf # <<>>) ~> (outbuf = <<>> \/ main = "panic")

\* ClearBackendDeadline copes with a backend client closed at the same time.
ClearSurvivesClose == [][main = "clear" => main' # "panic"]_vars

=============================================================================
