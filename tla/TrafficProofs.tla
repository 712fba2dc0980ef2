--------------------------- MODULE TrafficProofs ---------------------------
(***************************************************************************)
(* What OnTraffic promises for every number and size of messages, every    *)
(* chunk size and every choice of hooks and faults.  It leaves no expired  *)
(* deadline on a backend client that is recycled; the responses reach the  *)
(* client in order; and a response is shown to the hooks with its own      *)
(* request.                                                                *)
(*                                                                         *)
(* The last two rest on OrderInv, an invariant of the two streams that run *)
(* through the goroutines in opposite directions.  TrafficStreams has the  *)
(* lemmas about the streams, this module the steps that move them.         *)
(***************************************************************************)
EXTENDS TrafficStreams

\* A leaf is left to Zenon unless it names SMT, which arithmetic needs; the
\* numbers are time limits in seconds.
USE ZenonT(60)

\* Init establishes the inductive invariant.
LEMMA InitDeadline == Init => DeadlineInv
  BY DEF Init, DeadlineInv, ReturnsLast, NoStaleDeadline

\* Every step of the goroutines, of OnTraffic and of the environment
\* preserves the inductive invariant.
LEMMA StepDeadline == DeadlineInv /\ [Next]_vars => DeadlineInv'
<1> SUFFICES ASSUME DeadlineInv, [Next]_vars PROVE DeadlineInv'
  OBVIOUS
<1> USE DEF DeadlineInv, ReturnsLast, NoStaleDeadline
<1>1. CASE C2sCheck BY <1>1 DEF C2sCheck, s2cVars, poolVars
<1>2. CASE C2sRead BY <1>2 DEF C2sRead, s2cVars, poolVars
<1>3. CASE C2sPush
  <2>1. c2s' # "expire" /\ c2s = "push"
    BY <1>3, TrafficAssumption DEF C2sPush, HookKinds
  <2> QED BY <1>3, <2>1 DEF C2sPush, s2cVars, poolVars
<1>4. CASE C2sAnswer BY <1>4 DEF C2sAnswer, s2cVars, poolVars
<1>5. CASE C2sSend BY <1>5 DEF C2sSend, s2cVars, poolVars
<1>6. CASE C2sExit BY <1>6 DEF C2sExit, s2cVars, poolVars
<1>7. CASE C2sExpire BY <1>7 DEF C2sExpire, s2cVars, poolVars
<1>8. CASE S2cCheck BY <1>8 DEF S2cCheck, c2sVars, poolVars
<1>9. CASE S2cReceive BY <1>9 DEF S2cReceive, c2sVars, poolVars
<1>10. CASE S2cDeliver BY <1>10 DEF S2cDeliver, c2sVars, poolVars
<1>11. CASE S2cExit BY <1>11 DEF S2cExit, c2sVars, poolVars
<1>12. CASE Wait BY <1>12 DEF Wait, c2sVars, s2cVars, poolVars
<1>13. CASE ClearDeadline
  BY <1>13 DEF ClearDeadline, c2sVars, s2cVars, poolVars
<1>14. CASE ClientSend BY <1>14 DEF ClientSend, c2sVars, s2cVars, poolVars
<1>15. CASE ClientClose BY <1>15 DEF ClientClose, c2sVars, s2cVars, poolVars
<1>16. CASE BackendReply BY <1>16 DEF BackendReply, c2sVars, s2cVars, poolVars
<1>17. CASE BackendClose BY <1>17 DEF BackendClose, c2sVars, s2cVars, poolVars
<1>18. CASE CloseBackendClient
  BY <1>18 DEF CloseBackendClient, c2sVars, s2cVars
<1>19. CASE ClearBusy BY <1>19 DEF ClearBusy, c2sVars, s2cVars
<1>20. CASE UNCHANGED vars BY <1>20 DEF vars
<1> QED
  BY <1>1, <1>2, <1>3, <1>4, <1>5, <1>6, <1>7, <1>8, <1>9, <1>10, <1>11,
     <1>12, <1>13, <1>14, <1>15, <1>16, <1>17, <1>18, <1>19, <1>20
  DEF Next, C2s, S2c, Env

\* When OnTraffic has returned, both goroutines have ended and a backend client
\* that Disconnect finds connected has no expired read deadline.
THEOREM DeadlineCleared == Spec => []NoStaleDeadline
<1>1. DeadlineInv => NoStaleDeadline BY DEF DeadlineInv
<1> QED BY InitDeadline, StepDeadline, <1>1, PTL DEF Spec

-----------------------------------------------------------------------------
(* Types.                                                                  *)

\* The operations on the stack.
LEMMA StackType ==
  ASSUME stack \in Seq(SUBSET Request), NEW r \in SUBSET Request
  PROVE  /\ Push(r) \in Seq(SUBSET Request) /\ UpdateLast(r) \in Seq(SUBSET Request)
         /\ PopLast(stack) \in Seq(SUBSET Request) /\ Last \in SUBSET Request
<1>1. Push(r) \in Seq(SUBSET Request) BY AppendProperties DEF Push
<1>2. stack # <<>> => Len(stack) \in 1..Len(stack) BY SMTT(30), EmptySeq
<1>3. UpdateLast(r) \in Seq(SUBSET Request) BY <1>2, ExceptSeq DEF UpdateLast
<1>4. PopLast(stack) \in Seq(SUBSET Request)
  <2>1. \A i \in 1..(Len(stack) - 1) : stack[i] \in SUBSET Request BY SMTT(30), ElementOfSeq, LenProperties
  <2>2. 1 \in Int /\ Len(stack) - 1 \in Int BY SMTT(30), LenProperties
  <2> QED BY <2>1, <2>2, SubSeqProperties DEF PopLast
<1>5. Last \in SUBSET Request BY <1>2, ElementOfSeq DEF Last
<1> QED BY <1>1, <1>3, <1>4, <1>5

\* An answer of GatewayD's own is a response of one unit.
LEMMA AnswerType ==
  ASSUME got \in Seq(Unit), NEW s \in Seq(Unit), Answer(s)
  PROVE  got' \in Seq(Unit)
<1>1. ASSUME NEW k \in Ends(s), got' = got \o Units(s[k].of, 1) PROVE got' \in Seq(Unit)
  <2>1. Units(s[k].of, 1) \in Seq(Unit) BY SMTT(30), InType, UnitsType
  <2> QED BY <1>1, <2>1, CatType
<1> QED BY <1>1 DEF Answer

\* Every step of the goroutine from the client keeps the types.
LEMMA StepTypedC2s == TypeOK /\ C2s => TypeOK'
<1> SUFFICES ASSUME TypeOK, C2s PROVE TypeOK' OBVIOUS
<1> USE DEF TypeOK
<1>0. <<>> \in Seq(Unit) /\ In(inbuf) \in SUBSET Request BY SMTT(30), InType
<1>1. CASE C2sCheck
  BY SMTT(30), <1>1 DEF C2sCheck, s2cVars, userVars, backVars, poolVars
<1>2. CASE C2sRead
  <2>1. inbuf' \in Seq(Unit) /\ front' \in Seq(Unit)
    <3>1. ASSUME NEW k \in Readable(front), inbuf' = inbuf \o Taken(front, k), front' = Rest(front, k)
          PROVE  inbuf' \in Seq(Unit) /\ front' \in Seq(Unit)
      BY <3>1, ReadType, CatType
    <3> QED BY <1>2, <3>1 DEF C2sRead
  <2>2. c2s' \in {"read", "push", "exit"} BY <1>2 DEF C2sRead
  <2> QED BY SMTT(30), <1>2, <2>1, <2>2 DEF C2sRead, s2cVars, backVars, poolVars
<1>3. CASE C2sPush
  <2>1. got' \in Seq(Unit) BY <1>3, AnswerType DEF C2sPush
  <2>2. stack' \in Seq(SUBSET Request) BY <1>0, <1>3, StackType DEF C2sPush
  <2>3. c2s' \in {"loop", "send"} \cup (Hooks \ {"ssl"}) BY <1>3 DEF C2sPush
  <2>4. inbuf' \in Seq(Unit) BY <1>0, <1>3 DEF C2sPush
  <2>5. UNCHANGED <<main, s2c, outbuf, hooked, front, eof, sent, frontExpired, toBackend,
                    back, alive, backExpired, connected, busy>>
    BY <1>3 DEF C2sPush, s2cVars, userVars, backVars, poolVars
  <2> QED BY SMTT(30), <2>1, <2>2, <2>3, <2>4, <2>5
<1>4. CASE C2sAnswer
  <2>1. got' \in Seq(Unit) BY <1>4, AnswerType DEF C2sAnswer
  <2>2. stack' \in Seq(SUBSET Request) BY <1>0, <1>4, StackType DEF C2sAnswer
  <2> QED BY SMTT(30), <1>0, <1>4, <2>1, <2>2 DEF C2sAnswer, s2cVars, userVars, backVars, poolVars
<1>5. CASE C2sSend
  <2>1. toBackend' \in Seq(Unit) BY <1>5, CatType DEF C2sSend
  <2>2. stack' \in Seq(SUBSET Request) BY <1>0, <1>5, StackType DEF C2sSend
  <2> QED BY SMTT(30), <1>0, <1>5, <2>1, <2>2 DEF C2sSend, s2cVars, userVars, backVars, poolVars
<1>6. CASE C2sExit
  BY SMTT(30), <1>0, <1>6 DEF C2sExit, s2cVars, userVars, backVars, poolVars
<1>7. CASE C2sExpire
  BY <1>7 DEF C2sExpire, s2cVars, userVars, backVars, poolVars
<1> QED BY <1>1, <1>2, <1>3, <1>4, <1>5, <1>6, <1>7 DEF C2s

\* Every step of the goroutine from the server keeps the types.
LEMMA StepTypedS2c == TypeOK /\ S2c => TypeOK'
<1> SUFFICES ASSUME TypeOK, S2c PROVE TypeOK' OBVIOUS
<1> USE DEF TypeOK
<1>0. <<>> \in Seq(Unit) /\ In(outbuf) \in SUBSET Request BY SMTT(30), InType
<1>a. PopLast(stack) \in Seq(SUBSET Request) /\ Last \in SUBSET Request
  BY <1>0, StackType
<1>1. CASE S2cCheck
  BY SMTT(30), <1>1 DEF S2cCheck, c2sVars, userVars, backVars, poolVars
<1>2. CASE S2cReceive
  <2>1. outbuf' \in Seq(Unit) /\ back' \in Seq(Unit)
    <3>1. ASSUME NEW k \in Readable(back), outbuf' = outbuf \o Taken(back, k), back' = Rest(back, k)
          PROVE  outbuf' \in Seq(Unit) /\ back' \in Seq(Unit)
      BY <3>1, ReadType, CatType
    <3> QED BY <1>0, <1>2, <3>1 DEF S2cReceive
  <2>2. s2c' \in {"receive", "deliver", "exit"} /\ stack' \in Seq(SUBSET Request)
    BY <1>2, <1>a DEF S2cReceive
  <2> QED BY SMTT(30), <1>2, <2>1, <2>2 DEF S2cReceive, c2sVars, userVars, poolVars
<1>3. CASE S2cDeliver
  <2>1. got' \in Seq(Unit) BY <1>3, CatType DEF S2cDeliver
  <2>2. hooked' \in [req : SUBSET Request, resp : SUBSET Request]
    BY <1>0, <1>3, <1>a DEF S2cDeliver
  <2>3. stack' \in Seq(SUBSET Request) BY <1>3, <1>a DEF S2cDeliver
  <2> QED BY SMTT(30), <1>0, <1>3, <2>1, <2>2, <2>3 DEF S2cDeliver, c2sVars, userVars, backVars, poolVars
<1>4. CASE S2cExit
  BY SMTT(30), <1>4 DEF S2cExit, c2sVars, userVars, backVars, poolVars
<1> QED BY <1>1, <1>2, <1>3, <1>4 DEF S2c

\* Every step keeps the types.
LEMMA StepTyped == TypeOK /\ [Next]_vars => TypeOK'
<1> SUFFICES ASSUME TypeOK, [Next]_vars PROVE TypeOK' OBVIOUS
<1>0. <<>> \in Seq(SUBSET Request) BY SMTT(30)
<1>1. CASE C2s \/ S2c BY <1>1, StepTypedC2s, StepTypedS2c
<1>2. CASE Wait \/ ClearDeadline
  <2>1. /\ stack' \in Seq(SUBSET Request) /\ main' \in {"clear", "closed", "panic"}
        /\ backExpired' \in BOOLEAN
    BY <1>0, <1>2 DEF TypeOK, Wait, ClearDeadline
  <2> QED BY SMTT(30), <1>2, <2>1
        DEF TypeOK, Wait, ClearDeadline, c2sVars, s2cVars, userVars, backVars, poolVars
<1>3. CASE ClientSend
  <2>1. PICK n \in (IF sent = 0 /\ "ssl" \in Hooks THEN {1} ELSE ReqSizes) :
          front' = front \o Units(sent + 1, n)
    BY <1>3 DEF ClientSend
  <2>2. n \in Nat /\ sent + 1 \in Request /\ sent' \in 0..MaxRequest
    BY SMTT(30), <1>3, TrafficAssumption DEF TypeOK, ClientSend, Request
  <2>3. front' \in Seq(Unit) BY <2>1, <2>2, UnitsType, CatType DEF TypeOK
  <2> QED BY SMTT(30), <1>3, <2>2, <2>3 DEF TypeOK, ClientSend, c2sVars, s2cVars, backVars, poolVars
<1>4. CASE BackendReply
  <2>1. PICK k \in DOMAIN toBackend, n \in RespSizes :
          /\ back' = back \o Units(toBackend[k].of, n)
          /\ toBackend' = SubSeq(toBackend, k + 1, Len(toBackend))
    BY <1>4 DEF BackendReply
  <2>2. k \in 1..Len(toBackend) /\ Len(toBackend) \in Nat /\ n \in Nat
    BY LenProperties, TrafficAssumption DEF TypeOK
  <2>3. toBackend[k].of \in Request
    <3>1. toBackend[k] \in Unit BY <2>2, ElementOfSeq DEF TypeOK
    <3> QED BY <3>1 DEF Unit
  <2>4. back' \in Seq(Unit) BY <2>1, <2>2, <2>3, UnitsType, CatType DEF TypeOK
  <2>5. toBackend' \in Seq(Unit)
    <3>1. \A i \in (k + 1)..Len(toBackend) : toBackend[i] \in Unit
      BY SMTT(30), <2>2, ElementOfSeq DEF TypeOK
    <3> QED BY SMTT(30), <2>1, <2>2, <3>1, SubSeqProperties
  <2> QED BY SMTT(30), <1>4, <2>4, <2>5 DEF TypeOK, BackendReply, c2sVars, s2cVars, userVars, poolVars
<1>5. CASE ClientClose \/ BackendClose \/ CloseBackendClient \/ ClearBusy
  <2>1. /\ eof' \in BOOLEAN /\ alive' \in BOOLEAN /\ connected' \in BOOLEAN /\ busy' \in BOOLEAN
        /\ UNCHANGED <<main, c2sVars, s2cVars, front, sent, frontExpired, got, toBackend,
                       back, backExpired, stack>>
    BY <1>5 DEF TypeOK, ClientClose, BackendClose, CloseBackendClient, ClearBusy,
                userVars, backVars, poolVars
  <2> QED BY <2>1 DEF TypeOK, c2sVars, s2cVars
<1>6. CASE UNCHANGED vars BY SMTT(30), <1>6 DEF TypeOK, vars
<1> QED BY <1>1, <1>2, <1>3, <1>4, <1>5, <1>6 DEF Next, Env

\* The sockets, the buffers and the stack keep their types, for every size of
\* messages and chunks, every hook and every fault.
THEOREM TrafficTyped == Spec => []TypeOK
<1>1. Init => TypeOK
  <2>1. <<>> \in Seq(Unit) /\ <<>> \in Seq(SUBSET Request) /\ 0 \in 0..MaxRequest
    BY SMTT(30), TrafficAssumption
  <2>2. [req |-> {}, resp |-> {}] \in [req : SUBSET Request, resp : SUBSET Request]
    OBVIOUS
  <2> QED BY <2>1, <2>2 DEF Init, TypeOK
<1> QED BY <1>1, StepTyped, PTL DEF Spec

-----------------------------------------------------------------------------
(* Every step keeps the invariant of the relay.                            *)

Waits == ~Pipelining /\ sent > 1 => Answered(sent - 1)

\* OrderInv after a step, in the terms of OrderParts.
LEMMA OrderPartsNext ==
  OrderInv' <=>
    /\ Base(Responses', Requests', sent')
    /\ Waits'
    /\ Relaying' => Complete(Responses') /\ Chain(Responses', toBackend')
                    /\ (Forwarding' => Whole(Responses', Requests', sent'))
  BY DEF OrderInv, Base, Complete, Chain, Whole, Fresh, Above, Waits

\* The streams are sequences of units; what is on its way comes after what the
\* client has.
LEMMA Streams ==
  ASSUME TypeOK
  PROVE  /\ Responses \in Seq(Unit) /\ Requests \in Seq(Unit)
         /\ got \in Seq(Unit) /\ outbuf \o back \in Seq(Unit)
         /\ Relaying => Responses = got \o (outbuf \o back)
         /\ ~Relaying => Responses = got
<1>1. /\ got \in Seq(Unit) /\ outbuf \in Seq(Unit) /\ back \in Seq(Unit)
      /\ toBackend \in Seq(Unit) /\ inbuf \in Seq(Unit) /\ front \in Seq(Unit)
  BY DEF TypeOK
<1>2. outbuf \o back \in Seq(Unit) /\ got \o outbuf \o back \in Seq(Unit)
      /\ toBackend \o inbuf \o front \in Seq(Unit)
  BY <1>1, CatType
<1>3. (got \o outbuf) \o back = got \o (outbuf \o back)
  <2>1. got \in Seq(Unit) BY <1>1
  <2>2. outbuf \in Seq(Unit) BY <1>1
  <2>3. back \in Seq(Unit) BY <1>1
  <2> QED BY <2>1, <2>2, <2>3, Assoc
<1> QED BY <1>1, <1>2, <1>3 DEF Responses, Requests

\* An answer the client has, it keeps.
LEMMA AnsweredKept ==
  ASSUME got \in Seq(Unit), NEW x \in Seq(Unit), got' = got \o x, NEW m
  PROVE  Answered(m) => Answered(m)'
<1>1. /\ got' \in Seq(Unit) /\ Len(got') = Len(got) + Len(x)
      /\ \A i \in 1..(Len(got) + Len(x)) :
           got'[i] = IF i <= Len(got) THEN got[i] ELSE x[i - Len(got)]
  BY Cat
<1>2. Len(got) \in Nat /\ Len(x) \in Nat /\ DOMAIN got = 1..Len(got)
      /\ DOMAIN got' = 1..(Len(got) + Len(x))
  BY <1>1, LenProperties
<1>3. \A i \in DOMAIN got : i \in DOMAIN got' /\ got'[i] = got[i] BY SMTT(30), <1>1, <1>2
<1> QED BY <1>3 DEF Answered, Ends

\* A step that leaves the streams as they are.
LEMMA Quiet ==
  ASSUME OrderInv, Responses' = Responses, Requests' = Requests, toBackend' = toBackend,
         sent' = sent, Waits => Waits', Relaying' => Relaying, Forwarding' => Forwarding
  PROVE  OrderInv'
  BY OrderParts, OrderPartsNext DEF Waits

\* PassThroughToServer answers what it has read, or drops it when no request
\* ends in it.
LEMMA OwnAnswerStep ==
  ASSUME TypeOK, OrderInv, Answer(inbuf), inbuf' = <<>>,
         UNCHANGED <<toBackend, front, outbuf, back, s2c, sent>>, Forwarding' => Forwarding,
         (\A k \in Ends(inbuf) : inbuf[k].of = 1) \/ ~Pipelining
  PROVE  OrderInv'
<1>1. /\ got \in Seq(Unit) /\ outbuf \in Seq(Unit) /\ back \in Seq(Unit)
      /\ toBackend \in Seq(Unit) /\ inbuf \in Seq(Unit) /\ front \in Seq(Unit)
      /\ sent \in Nat
  BY SMTT(30), TrafficAssumption DEF TypeOK
<1>2. /\ Responses \in Seq(Unit) /\ Requests \in Seq(Unit) /\ outbuf \o back \in Seq(Unit)
      /\ Relaying => Responses = got \o (outbuf \o back)
      /\ ~Relaying => Responses = got
  BY Streams
<1>3. /\ Base(Responses, Requests, sent) /\ Waits
      /\ Relaying => Complete(Responses) /\ Chain(Responses, toBackend)
                     /\ (Forwarding => Whole(Responses, Requests, sent))
  BY OrderParts DEF Waits
<1>4. /\ Requests = toBackend \o inbuf \o front /\ Requests' = toBackend \o <<>> \o front
      /\ Relaying' <=> Relaying
  BY DEF Requests, Relaying
<1>5. CASE Ends(inbuf) = {} /\ UNCHANGED got
  <2>1. Responses' = Responses BY <1>4, <1>5 DEF Responses
  <2>2. Waits' BY <1>3, <1>5 DEF Waits, Answered
  <2>3. Requests' \in Seq(Unit) /\ Sub(Requests', Requests)
    <3>1. <<>> \in Seq(Unit) BY EmptySeq
    <3>2. toBackend \o <<>> \o front \in Seq(Unit) BY <1>1, <3>1, CatType
    <3> QED BY <1>1, <1>4, <3>2, DropMiddle
  <2>4. Base(Responses, Requests', sent) BY <1>2, <1>3, <2>3, BaseSub
  <2>5. Whole(Responses, Requests, sent) => Whole(Responses, Requests', sent)
    BY <1>1, <1>4, <1>5, DropNoEnd
  <2> QED BY <1>3, <1>4, <2>1, <2>2, <2>4, <2>5, OrderPartsNext
<1>6. ASSUME NEW k \in Ends(inbuf), \A j \in Ends(inbuf) : j <= k,
             got' = got \o Units(inbuf[k].of, 1)
      PROVE  OrderInv'
  <2>0. PICK r : r = inbuf[k].of OBVIOUS
  <2>1. r \in Request /\ r \in Nat /\ r >= 1 /\ r <= sent /\ Above(r, Responses)
    <3>1. IsCat3(Requests, toBackend, inbuf, front) BY <1>1, <1>4, Cat3Parts
    <3>2. k \in 1..Len(inbuf) /\ inbuf[k].last BY <3>1 DEF Ends, IsCat3
    <3>3. Len(toBackend) + k \in DOMAIN Requests /\ Requests[Len(toBackend) + k] = inbuf[k]
      <4>1. Requests[Len(toBackend) + k] = inbuf[k] BY <3>1, <3>2 DEF IsCat3
      <4>2. Len(toBackend) + k \in DOMAIN Requests BY SMTT(30), <3>1, <3>2 DEF IsCat3
      <4> QED BY <4>1, <4>2
    <3>4. r \in Request /\ r \in Nat /\ r >= 1 BY <1>2, <2>0, <3>3, OfNat
    <3> QED BY <1>3, <2>0, <3>2, <3>3, <3>4 DEF Base
  <2>2. PICK x \in Seq(Unit) : /\ Responses = got \o x
                               /\ Relaying => x = outbuf \o back
    <3>1. CASE Relaying BY <1>2, <3>1
    <3>2. CASE ~Relaying
      <4>1. <<>> \in Seq(Unit) /\ got \o <<>> = got BY <1>1, EmptySeq, ConcatEmptySeq
      <4> QED BY <1>2, <3>2, <4>1
    <3> QED BY <3>1, <3>2
  <2>3. Due(got, r)
    <3>1. CASE r = 1 BY <3>1 DEF Due
    <3>2. CASE r # 1
      <4>1. ~Pipelining /\ sent > 1 BY SMTT(30), <1>1, <2>0, <2>1, <3>2
      <4>2. PICK i \in Ends(got) : got[i].of = sent - 1 BY <1>3, <4>1 DEF Waits, Answered
      <4>3. i \in DOMAIN got /\ got[i].last BY <4>2 DEF Ends
      <4>4. i \in DOMAIN Responses /\ Responses[i] = got[i]
        <5>1. /\ Len(Responses) = Len(got) + Len(x)
              /\ \A j \in 1..(Len(got) + Len(x)) :
                   Responses[j] = IF j <= Len(got) THEN got[j] ELSE x[j - Len(got)]
          BY <1>1, <2>2, Cat
        <5>2. /\ Len(got) \in Nat /\ Len(x) \in Nat /\ DOMAIN got = 1..Len(got)
              /\ DOMAIN Responses = 1..Len(Responses)
          BY <1>1, <1>2, LenProperties
        <5> QED BY SMTT(30), <4>3, <5>1, <5>2
      <4>5. sent - 1 < r BY <2>1, <4>2, <4>4 DEF Above
      <4>6. r - 1 = sent - 1 BY SMTT(30), <1>1, <2>1, <4>5
      <4> QED BY <4>2, <4>3, <4>6 DEF Due
    <3> QED BY <3>1, <3>2
  <2>4. x = <<>> /\ NextOf(got, r)
    <3>1. Sorted(got \o x) /\ Above(r, got \o x) BY <1>3, <2>1, <2>2 DEF Base
    <3> QED BY <1>1, <2>1, <2>3, <3>1, DueNext
  <2>5. Responses = got
    <3>1. got \o <<>> = got BY <1>1, ConcatEmptySeq
    <3> QED BY <2>2, <2>4, <3>1
  <2>6. got' \in Seq(Unit) /\ Units(r, 1) \in Seq(Unit)
    <3>1. Units(r, 1) \in Seq(Unit) BY <2>1, UnitsType
    <3> QED BY <1>1, <1>6, <2>0, <3>1, CatType
  <2>7. Responses' = got \o Units(r, 1)
    <3>1. CASE Relaying
      <4>1. got' \o <<>> = got' BY <2>6, ConcatEmptySeq
      <4>2. (got' \o outbuf) \o back = got' \o (outbuf \o back)
        <5>1. got' \in Seq(Unit) BY <2>6
        <5>2. outbuf \in Seq(Unit) BY <1>1
        <5>3. back \in Seq(Unit) BY <1>1
        <5> QED BY <5>1, <5>2, <5>3, Assoc
      <4>3. Responses' = (got' \o outbuf) \o back BY <1>4, <3>1 DEF Responses
      <4>4. outbuf \o back = <<>> BY <2>2, <2>4, <3>1
      <4> QED BY <1>6, <2>0, <4>1, <4>2, <4>3, <4>4
    <3>2. CASE ~Relaying BY <1>4, <1>6, <2>0, <3>2 DEF Responses
    <3> QED BY <3>1, <3>2
  <2>8. Waits'
    <3>1. Answered(sent - 1) => Answered(sent - 1)'
      BY <1>1, <1>6, <2>0, <2>6, AnsweredKept
    <3> QED BY <1>3, <3>1 DEF Waits, Answered
  <2>9. /\ Base(got \o Units(r, 1), Requests', sent) /\ Complete(got \o Units(r, 1))
        /\ Chain(got \o Units(r, 1), toBackend)
        /\ Whole(got, Requests, sent) => Whole(got \o Units(r, 1), Requests', sent)
    <3>1. NextOf(got, inbuf[k].of) /\ Base(got, toBackend \o inbuf \o front, sent)
      BY <1>3, <1>4, <2>0, <2>4, <2>5
    <3> QED BY <1>1, <1>4, <1>6, <2>0, <3>1, OwnAnswer
  <2> QED BY <1>3, <1>4, <2>5, <2>7, <2>8, <2>9, OrderPartsNext
<1> QED BY <1>5, <1>6 DEF Answer

\* What is read but not passed on is dropped, and nothing is forwarded after.
LEMMA DropStep ==
  ASSUME TypeOK, OrderInv, inbuf' = <<>>, ~Forwarding',
         UNCHANGED <<toBackend, front, outbuf, back, s2c, sent, got>>
  PROVE  OrderInv'
<1>1. /\ toBackend \in Seq(Unit) /\ inbuf \in Seq(Unit) /\ front \in Seq(Unit)
      /\ Responses \in Seq(Unit) /\ Requests \in Seq(Unit)
  BY Streams DEF TypeOK
<1>2. Requests = toBackend \o inbuf \o front /\ Requests' = toBackend \o <<>> \o front
  BY DEF Requests
<1>3. Requests' \in Seq(Unit) /\ Sub(Requests', Requests)
  <2>1. <<>> \in Seq(Unit) BY EmptySeq
  <2>2. toBackend \o <<>> \o front \in Seq(Unit) BY <1>1, <2>1, CatType
  <2> QED BY <1>1, <1>2, <2>2, DropMiddle
<1>4. /\ Base(Responses, Requests, sent) /\ Waits
      /\ Relaying => Complete(Responses) /\ Chain(Responses, toBackend)
  BY OrderParts DEF Waits
<1>5. Base(Responses, Requests', sent) BY <1>1, <1>3, <1>4, BaseSub
<1>6. Responses' = Responses /\ Relaying' = Relaying BY DEF Responses, Relaying
<1>7. Waits' BY <1>4 DEF Waits, Answered
<1> QED BY <1>4, <1>5, <1>6, <1>7, OrderPartsNext

\* Every step of the goroutine from the client.
LEMMA StepOrderC2s ==
  ASSUME ~Pipelining \/ "answer" \notin Hooks, TypeOK, OrderInv, C2s
  PROVE  OrderInv'
<1>0. /\ got \in Seq(Unit) /\ outbuf \in Seq(Unit) /\ back \in Seq(Unit)
      /\ toBackend \in Seq(Unit) /\ inbuf \in Seq(Unit) /\ front \in Seq(Unit)
      /\ sent \in Nat
  BY SMTT(30), TrafficAssumption DEF TypeOK
<1>a. ASSUME UNCHANGED <<outbuf, back, s2c, sent, got>>
      PROVE  Responses' = Responses /\ (Waits => Waits') /\ (Relaying' => Relaying)
  BY <1>a DEF Responses, Relaying, Waits, Answered
<1>1. CASE C2sCheck
  <2>1. /\ UNCHANGED <<outbuf, back, s2c, sent, got>> /\ Requests' = Requests
        /\ toBackend' = toBackend /\ (Forwarding' => Forwarding)
    BY <1>1 DEF C2sCheck, s2cVars, userVars, backVars, poolVars, Requests, Forwarding
  <2> QED BY <1>a, <2>1, Quiet
<1>2. CASE C2sRead
  <2>1. /\ UNCHANGED <<outbuf, back, s2c, sent, got>>
        /\ toBackend' = toBackend /\ (Forwarding' => Forwarding)
    BY <1>2 DEF C2sRead, s2cVars, backVars, poolVars, Forwarding
  <2>2. Requests' = Requests
    <3>1. CASE UNCHANGED <<inbuf, front>> BY <2>1, <3>1 DEF Requests
    <3>2. ASSUME NEW k \in Readable(front),
                 inbuf' = inbuf \o Taken(front, k), front' = Rest(front, k)
          PROVE  Requests' = Requests
      <4>1. toBackend \o (inbuf \o Taken(front, k)) \o Rest(front, k)
              = toBackend \o inbuf \o front
        <5>1. toBackend \in Seq(Unit) BY <1>0
        <5>2. inbuf \in Seq(Unit) BY <1>0
        <5>3. front \in Seq(Unit) BY <1>0
        <5> QED BY <5>1, <5>2, <5>3, MovedRead
      <4> QED BY <2>1, <3>2, <4>1 DEF Requests
    <3> QED BY <1>2, <3>1, <3>2 DEF C2sRead
  <2> QED BY <1>a, <2>1, <2>2, Quiet
<1>3. CASE C2sPush
  <2>1. UNCHANGED <<outbuf, back, s2c, sent, toBackend, front, connected, alive>>
    BY <1>3 DEF C2sPush, s2cVars, userVars, backVars, poolVars
  <2>2. Forwarding' => Forwarding BY <1>3, <2>1 DEF C2sPush, Forwarding
  <2>3. CASE IsSSLRequest(inbuf)
    <3>1. Answer(inbuf) /\ inbuf' = <<>> BY <1>3, <2>3 DEF C2sPush
    <3>2. \A k \in Ends(inbuf) : inbuf[k].of = 1 BY <2>3 DEF IsSSLRequest, In, Ends
    <3> QED BY <2>1, <2>2, <3>1, <3>2, OwnAnswerStep
  <2>4. CASE ~IsSSLRequest(inbuf)
    <3>1. UNCHANGED <<inbuf, got>> BY <1>3, <2>4 DEF C2sPush
    <3>2. Requests' = Requests BY <2>1, <3>1 DEF Requests
    <3> QED BY <1>a, <2>1, <2>2, <3>1, <3>2, Quiet
  <2> QED BY <2>3, <2>4
<1>4. CASE C2sAnswer
  <2>1. UNCHANGED <<outbuf, back, s2c, sent, toBackend, front, connected, alive>> /\ inbuf' = <<>>
    BY <1>4 DEF C2sAnswer, s2cVars, userVars, backVars, poolVars
  <2>2. ~Pipelining
    <3>1. c2s = "answer" BY <1>4 DEF C2sAnswer
    <3> QED BY <3>1 DEF TypeOK
  <2>3. CASE c2s' = "loop" /\ Answer(inbuf)
    <3>1. Forwarding' => Forwarding BY <1>4, <2>1 DEF C2sAnswer, Forwarding
    <3> QED BY <2>1, <2>2, <2>3, <3>1, OwnAnswerStep
  <2>4. CASE c2s' = "exit" /\ UNCHANGED got
    <3>1. ~Forwarding' BY <2>4 DEF Forwarding
    <3> QED BY <2>1, <2>4, <3>1, DropStep
  <2> QED BY <1>4, <2>3, <2>4 DEF C2sAnswer
<1>5. CASE C2sSend
  <2>1. UNCHANGED <<outbuf, back, s2c, sent, got, front, connected, alive>> /\ inbuf' = <<>>
        /\ c2s = "send"
    BY <1>5 DEF C2sSend, s2cVars, userVars, poolVars
  <2>2. CASE ~(connected /\ alive)
    <3>1. toBackend' = toBackend BY <1>5, <2>2 DEF C2sSend
    <3>2. ~Forwarding' BY <2>1, <2>2 DEF Forwarding
    <3> QED BY <2>1, <3>1, <3>2, DropStep
  <2>3. CASE connected /\ alive
    <3>1. toBackend' = toBackend \o inbuf BY <1>5, <2>3 DEF C2sSend
    <3>2. Forwarding BY <2>1, <2>3 DEF Forwarding
    <3>3. Requests' = Requests
      <4>1. (toBackend \o inbuf) \o <<>> \o front = toBackend \o inbuf \o front BY SMTT(30), <1>0, MovedAll
      <4> QED BY <2>1, <3>1, <4>1 DEF Requests
    <3>4. Responses' = Responses /\ (Waits => Waits') /\ Relaying' = Relaying
      BY <1>a, <2>1 DEF Relaying
    <3>5. /\ Base(Responses, Requests, sent) /\ Waits
          /\ Relaying => Complete(Responses) /\ Chain(Responses, toBackend)
                         /\ Whole(Responses, Requests, sent)
      BY <3>2, OrderParts DEF Waits
    <3>6. Relaying => Chain(Responses, toBackend')
      <4>1. Responses \in Seq(Unit) BY Streams
      <4> QED BY <1>0, <3>1, <3>5, <4>1, Forwarded DEF Requests
    <3> QED BY <2>1, <3>3, <3>4, <3>5, <3>6, OrderPartsNext
  <2> QED BY <2>2, <2>3
<1>6. CASE C2sExit
  <2>1. UNCHANGED <<toBackend, front, outbuf, back, s2c, sent, got>> /\ inbuf' = <<>>
    BY <1>6 DEF C2sExit, s2cVars, userVars, backVars
  <2>2. ~Forwarding' BY <1>6 DEF C2sExit, Forwarding
  <2> QED BY <2>1, <2>2, DropStep
<1>7. CASE C2sExpire
  <2>1. /\ UNCHANGED <<outbuf, back, s2c, sent, got>> /\ Requests' = Requests
        /\ toBackend' = toBackend /\ (Forwarding' => Forwarding)
    BY <1>7 DEF C2sExpire, s2cVars, userVars, backVars, poolVars, Requests, Forwarding
  <2> QED BY <1>a, <2>1, Quiet
<1> QED BY <1>1, <1>2, <1>3, <1>4, <1>5, <1>6, <1>7 DEF C2s

\* PassThroughToClient ends: what the client has is all there will be.
LEMMA StopStep ==
  ASSUME TypeOK, OrderInv, s2c' = "exit",
         UNCHANGED <<toBackend, inbuf, front, sent, got>>
  PROVE  OrderInv'
<1>1. /\ Responses \in Seq(Unit) /\ Requests \in Seq(Unit)
      /\ got \in Seq(Unit) /\ outbuf \o back \in Seq(Unit)
      /\ Relaying => Responses = got \o (outbuf \o back)
      /\ ~Relaying => Responses = got
  BY Streams
<1>2. Base(Responses, Requests, sent) /\ Waits BY OrderParts DEF Waits
<1>3. Base(got, Requests, sent) BY <1>1, <1>2, BasePrefix
<1>4. Responses' = got /\ Requests' = Requests /\ ~Relaying' BY DEF Responses, Requests, Relaying
<1>5. Waits' BY <1>2 DEF Waits, Answered
<1> QED BY <1>3, <1>4, <1>5, OrderPartsNext

\* Every step of the goroutine from the server and of OnTraffic.
LEMMA StepOrderS2c ==
  ASSUME TypeOK, OrderInv, S2c \/ Wait \/ ClearDeadline
  PROVE  OrderInv'
<1>0. /\ got \in Seq(Unit) /\ outbuf \in Seq(Unit) /\ back \in Seq(Unit) BY DEF TypeOK
<1>a. ASSUME UNCHANGED <<toBackend, inbuf, front, sent, c2s, connected, alive>>
      PROVE  Requests' = Requests /\ toBackend' = toBackend /\ sent' = sent
             /\ (Forwarding' => Forwarding)
  BY <1>a DEF Requests, Forwarding
<1>b. ASSUME UNCHANGED <<sent, got>> PROVE Waits => Waits'
  BY <1>b DEF Waits, Answered
<1>1. CASE S2cCheck
  <2>1. UNCHANGED <<toBackend, inbuf, front, sent, c2s, connected, alive, got, outbuf, back>>
    BY <1>1 DEF S2cCheck, c2sVars, userVars, backVars, poolVars
  <2>2. CASE s2c' = "receive"
    <3>1. Responses' = Responses /\ (Relaying' => Relaying)
      BY <1>1, <2>1, <2>2 DEF S2cCheck, Responses, Relaying
    <3> QED BY <1>a, <1>b, <2>1, <3>1, Quiet
  <2>3. CASE s2c' = "exit" BY <2>1, <2>3, StopStep
  <2> QED BY <1>1, <2>2, <2>3 DEF S2cCheck
<1>2. CASE S2cReceive
  <2>1. UNCHANGED <<toBackend, inbuf, front, sent, c2s, connected, alive, got>> /\ s2c = "receive"
    BY <1>2 DEF S2cReceive, c2sVars, userVars, poolVars
  <2>2. CASE s2c' = "exit" BY <2>1, <2>2, StopStep
  <2>3. ASSUME NEW k \in Readable(back), outbuf' = outbuf \o Taken(back, k),
               back' = Rest(back, k), s2c' \in {"receive", "deliver"}
        PROVE  OrderInv'
    <3>1. got \o (outbuf \o Taken(back, k)) \o Rest(back, k) = got \o outbuf \o back
      <4>1. got \in Seq(Unit) BY <1>0
      <4>2. outbuf \in Seq(Unit) BY <1>0
      <4>3. back \in Seq(Unit) BY <1>0
      <4>4. \A c \in Seq(Unit) : \A j \in Readable(c) :
              got \o (outbuf \o Taken(c, j)) \o Rest(c, j) = got \o outbuf \o c
        BY <4>1, <4>2, MovedRead
      <4> QED BY <4>3, <4>4
    <3>2. Relaying /\ Relaying' BY <2>1, <2>3 DEF Relaying
    <3>3. Responses' = Responses BY <2>1, <2>3, <3>1, <3>2 DEF Responses
    <3> QED BY <1>a, <1>b, <2>1, <3>2, <3>3, Quiet
  <2> QED BY <1>2, <2>2, <2>3 DEF S2cReceive
<1>3. CASE S2cDeliver
  <2>1. /\ UNCHANGED <<toBackend, inbuf, front, sent, c2s, connected, alive, back>>
        /\ s2c = "deliver" /\ outbuf' = <<>>
    BY <1>3 DEF S2cDeliver, c2sVars, userVars, backVars, poolVars
  <2>2. CASE s2c' = "exit" /\ UNCHANGED got BY <2>1, <2>2, StopStep
  <2>3. CASE s2c' = "loop" /\ got' = got \o outbuf
    <3>1. (got \o outbuf) \o <<>> \o back = got \o outbuf \o back
      <4>1. got \in Seq(Unit) BY <1>0
      <4>2. outbuf \in Seq(Unit) BY <1>0
      <4>3. back \in Seq(Unit) BY <1>0
      <4> QED BY <4>1, <4>2, <4>3, MovedAll
    <3>2. Relaying /\ Relaying' BY <2>1, <2>3 DEF Relaying
    <3>3. Responses' = Responses BY <2>1, <2>3, <3>1, <3>2 DEF Responses
    <3>4. Waits => Waits'
      <4>1. Answered(sent - 1) => Answered(sent - 1)' BY <1>0, <2>1, <2>3, AnsweredKept
      <4> QED BY <2>1, <4>1 DEF Waits, Answered
    <3> QED BY <1>a, <2>1, <3>2, <3>3, <3>4, Quiet
  <2> QED BY <1>3, <2>2, <2>3 DEF S2cDeliver
<1>4. CASE S2cExit
  <2>1. UNCHANGED <<toBackend, inbuf, front, sent, c2s, connected, alive, got, outbuf, back>>
    BY <1>4 DEF S2cExit, c2sVars, userVars, backVars, poolVars
  <2>2. Responses' = Responses /\ (Relaying' => Relaying)
    BY <1>4, <2>1 DEF S2cExit, Responses, Relaying
  <2> QED BY <1>a, <1>b, <2>1, <2>2, Quiet
<1>5. CASE Wait \/ ClearDeadline
  <2>1. UNCHANGED <<toBackend, inbuf, front, sent, c2s, connected, alive, got, outbuf, back, s2c>>
    BY <1>5 DEF Wait, ClearDeadline, c2sVars, s2cVars, userVars, backVars, poolVars
  <2>2. Responses' = Responses /\ (Relaying' => Relaying) BY <2>1 DEF Responses, Relaying
  <2> QED BY <1>a, <1>b, <2>1, <2>2, Quiet
<1> QED BY <1>1, <1>2, <1>3, <1>4, <1>5 DEF S2c

\* Every step of the environment.
LEMMA StepOrderEnv ==
  ASSUME TypeOK, OrderInv, Env
  PROVE  OrderInv'
<1>0. /\ got \in Seq(Unit) /\ outbuf \in Seq(Unit) /\ back \in Seq(Unit)
      /\ toBackend \in Seq(Unit) /\ inbuf \in Seq(Unit) /\ front \in Seq(Unit)
      /\ sent \in Nat
  BY SMTT(30), TrafficAssumption DEF TypeOK
<1>a. ASSUME UNCHANGED <<toBackend, inbuf, front, sent, got, outbuf, back, s2c>>
      PROVE  /\ Requests' = Requests /\ Responses' = Responses /\ (Waits => Waits')
             /\ toBackend' = toBackend /\ sent' = sent /\ (Relaying' => Relaying)
  BY <1>a DEF Requests, Responses, Waits, Answered, Relaying
<1>1. CASE ClientSend
  <2>1. UNCHANGED <<toBackend, inbuf, got, outbuf, back, s2c, c2s, connected, alive>>
        /\ sent' = sent + 1
    BY <1>1 DEF ClientSend, c2sVars, s2cVars, backVars, poolVars
  <2>2. PICK z \in Nat \ {0} : front' = front \o Units(sent + 1, z)
    <3>1. PICK z \in (IF sent = 0 /\ "ssl" \in Hooks THEN {1} ELSE ReqSizes) :
            front' = front \o Units(sent + 1, z)
      BY <1>1 DEF ClientSend
    <3>2. z \in Nat \ {0} BY SMTT(30), TrafficAssumption
    <3> QED BY <3>1, <3>2
  <2>3. sent + 1 \in Request BY SMTT(30), <1>0, <1>1, TrafficAssumption DEF ClientSend, Request
  <2>4. Requests' = Requests \o Units(sent + 1, z)
    <3>1. Units(sent + 1, z) \in Seq(Unit) BY <2>2, <2>3, UnitsType
    <3>2. toBackend \in Seq(Unit) BY <1>0
    <3>3. inbuf \in Seq(Unit) BY <1>0
    <3>4. front \in Seq(Unit) BY <1>0
    <3>5. toBackend \o inbuf \o (front \o Units(sent + 1, z))
            = (toBackend \o inbuf \o front) \o Units(sent + 1, z)
      BY SMTT(30), <3>1, <3>2, <3>3, <3>4, MovedTail
    <3> QED BY <2>1, <2>2, <3>5 DEF Requests
  <2>5. /\ Base(Responses, Requests, sent) /\ Waits
        /\ Relaying => Complete(Responses) /\ Chain(Responses, toBackend)
                       /\ (Forwarding => Whole(Responses, Requests, sent))
    BY OrderParts DEF Waits
  <2>6. /\ Base(Responses, Requests', sent + 1)
        /\ Whole(Responses, Requests, sent) => Whole(Responses, Requests', sent + 1)
    <3>1. Responses \in Seq(Unit) /\ Requests \in Seq(Unit) BY Streams
    <3> QED BY <1>0, <2>2, <2>3, <2>4, <2>5, <3>1, BaseClient
  <2>7. Responses' = Responses /\ Relaying' = Relaying /\ Forwarding' = Forwarding
    BY <2>1 DEF Responses, Relaying, Forwarding
  <2>8. Waits'
    <3>1. Pipelining \/ sent = 0 \/ Answered(sent) BY <1>1 DEF ClientSend
    <3>2. sent' - 1 = sent /\ got' = got BY SMTT(30), <1>0, <2>1
    <3> QED BY SMTT(30), <2>1, <3>1, <3>2 DEF Waits, Answered
  <2> QED BY <2>1, <2>5, <2>6, <2>7, <2>8, OrderPartsNext
<1>2. CASE ClientClose
  <2>1. UNCHANGED <<toBackend, inbuf, front, sent, got, outbuf, back, s2c, c2s, connected, alive>>
    BY <1>2 DEF ClientClose, c2sVars, s2cVars, backVars, poolVars
  <2>2. Forwarding' => Forwarding BY <2>1 DEF Forwarding
  <2> QED BY <1>a, <2>1, <2>2, Quiet
<1>3. CASE BackendReply
  <2>1. UNCHANGED <<inbuf, front, sent, got, outbuf, s2c, c2s, connected, alive>>
    BY <1>3 DEF BackendReply, c2sVars, s2cVars, userVars, poolVars
  <2>2. PICK k \in DOMAIN toBackend, z \in RespSizes :
          /\ toBackend[k].last /\ \A j \in 1..(k - 1) : ~toBackend[j].last
          /\ back' = back \o Units(toBackend[k].of, z)
          /\ toBackend' = SubSeq(toBackend, k + 1, Len(toBackend))
    BY <1>3 DEF BackendReply
  <2>3. z \in Nat \ {0} BY TrafficAssumption
  <2>4. toBackend[k].of \in Request BY <1>0, OfNat
  <2>5. Units(toBackend[k].of, z) \in Seq(Unit) BY <2>3, <2>4, UnitsType
  <2>6. /\ Base(Responses, Requests, sent) /\ Waits
        /\ Relaying => Complete(Responses) /\ Chain(Responses, toBackend)
                       /\ (Forwarding => Whole(Responses, Requests, sent))
    BY OrderParts DEF Waits
  <2>7. /\ Requests' = SubSeq(toBackend, k + 1, Len(toBackend)) \o inbuf \o front
        /\ Requests = toBackend \o inbuf \o front /\ Relaying' = Relaying
        /\ Forwarding' = Forwarding
    BY <2>1, <2>2 DEF Requests, Relaying, Forwarding
  <2>8. Responses \in Seq(Unit) /\ Requests \in Seq(Unit) BY Streams
  <2>9. Waits' BY <2>1, <2>6 DEF Waits, Answered
  <2>10. CASE Relaying
    <3>1. Responses' = Responses \o Units(toBackend[k].of, z)
      <4>1. got \in Seq(Unit) BY <1>0
      <4>2. outbuf \in Seq(Unit) BY <1>0
      <4>3. back \in Seq(Unit) BY <1>0
      <4>4. got \o outbuf \o (back \o Units(toBackend[k].of, z))
              = (got \o outbuf \o back) \o Units(toBackend[k].of, z)
        BY SMTT(30), <2>5, <4>1, <4>2, <4>3, MovedTail
      <4> QED BY <2>1, <2>2, <2>7, <2>10, <4>4 DEF Responses
    <3>2. /\ Base(Responses', Requests', sent) /\ Complete(Responses')
          /\ Chain(Responses', toBackend')
          /\ Whole(Responses, Requests, sent) => Whole(Responses', Requests', sent)
      <4>1. Base(Responses, toBackend \o inbuf \o front, sent)
            /\ Complete(Responses) /\ Chain(Responses, toBackend)
        BY <2>6, <2>7, <2>10
      <4> QED BY <1>0, <2>2, <2>3, <2>7, <2>8, <3>1, <4>1, Reply
    <3> QED BY <2>1, <2>6, <2>7, <2>9, <2>10, <3>2, OrderPartsNext
  <2>11. CASE ~Relaying
    <3>1. Responses' = Responses BY <2>1, <2>7, <2>11 DEF Responses
    <3>2. Requests' \in Seq(Unit) /\ Sub(Requests', Requests)
      <4>1. k \in 1..Len(toBackend) BY <1>0, LenProperties
      <4>2. Dropped(Requests', Requests, SubSeq(toBackend, k + 1, Len(toBackend)), toBackend, k)
        BY <1>0, <2>7, <4>1, DropFirstParts
      <4> QED BY <4>2 DEF Dropped
    <3>3. Base(Responses, Requests', sent) BY <2>6, <2>8, <3>2, BaseSub
    <3> QED BY <2>1, <2>7, <2>9, <2>11, <3>1, <3>3, OrderPartsNext
  <2> QED BY <2>10, <2>11
<1>4. CASE BackendClose \/ CloseBackendClient \/ ClearBusy
  <2>1. UNCHANGED <<toBackend, inbuf, front, sent, got, outbuf, back, s2c>>
    BY <1>4 DEF BackendClose, CloseBackendClient, ClearBusy, c2sVars, s2cVars, userVars,
                backVars, poolVars
  <2>2. Forwarding' => Forwarding
    BY <1>4 DEF BackendClose, CloseBackendClient, ClearBusy, c2sVars, backVars, poolVars, Forwarding
  <2> QED BY <1>a, <2>1, <2>2, Quiet
<1> QED BY <1>1, <1>2, <1>3, <1>4 DEF Env

\* Init establishes the invariant of the relay.
LEMMA InitOrder == Init => OrderInv
<1> SUFFICES ASSUME Init PROVE OrderInv OBVIOUS
<1>1. <<>> \o <<>> \o <<>> = <<>> BY SMTT(30)
<1>2. Responses = <<>> /\ Requests = <<>> /\ toBackend = <<>> /\ sent = 0
  BY <1>1 DEF Init, Responses, Requests
<1> QED BY SMTT(30), <1>2 DEF OrderInv, InOrder, Sorted

\* While the client waits for each answer, or the hooks do not answer in place
\* of the backend, requests and responses stay in order on their way through
\* both goroutines.
THEOREM RelayInvariant ==
  ASSUME ~Pipelining \/ "answer" \notin Hooks
  PROVE  Spec => []OrderInv
<1>1. TypeOK /\ OrderInv /\ [Next]_vars => OrderInv'
  <2> SUFFICES ASSUME TypeOK, OrderInv, [Next]_vars PROVE OrderInv' OBVIOUS
  <2>1. CASE C2s BY <2>1, StepOrderC2s
  <2>2. CASE S2c \/ Wait \/ ClearDeadline BY <2>2, StepOrderS2c
  <2>3. CASE Env BY <2>3, StepOrderEnv
  <2>4. CASE UNCHANGED vars
    BY <2>4, Quiet DEF vars, Responses, Requests, Waits, Answered, Relaying, Forwarding
  <2> QED BY <2>1, <2>2, <2>3, <2>4 DEF Next
<1> QED BY TrafficTyped, InitOrder, <1>1, PTL DEF Spec

\* The client gets the units of the responses to its requests in order, none
\* missing, repeated or mixed, for every size of message and chunk and every
\* interleaving of the goroutines with a client, a backend and a Shutdown, if
\* the client does not pipeline or no hook answers in place of the backend.
THEOREM ResponsesInOrder ==
  ASSUME ~Pipelining \/ "answer" \notin Hooks
  PROVE  Spec => []RelayedInOrder
<1>1. TypeOK /\ OrderInv => RelayedInOrder
  <2> SUFFICES ASSUME TypeOK, OrderInv PROVE RelayedInOrder OBVIOUS
  <2>1. /\ Responses \in Seq(Unit) /\ Requests \in Seq(Unit)
        /\ got \in Seq(Unit) /\ outbuf \o back \in Seq(Unit)
        /\ Relaying => Responses = got \o (outbuf \o back)
        /\ ~Relaying => Responses = got
    BY Streams
  <2>2. Base(Responses, Requests, sent) BY OrderParts
  <2>3. Base(got, Requests, sent) BY <2>1, <2>2, BasePrefix
  <2> QED BY <2>3 DEF Base, RelayedInOrder
<1> QED BY TrafficTyped, RelayInvariant, <1>1, PTL

-----------------------------------------------------------------------------
(* Requests and responses shown together to the hooks.                     *)

\* P has no unit that Q does not have.
Within(P, Q) == \A i \in DOMAIN P : \E k \in DOMAIN Q : P[i] = Q[k]

\* A stream without its middle part has no other units.
LEMMA WithinMiddle ==
  ASSUME NEW a \in Seq(Unit), NEW b \in Seq(Unit), NEW c \in Seq(Unit)
  PROVE  Within(a \o <<>> \o c, a \o b \o c)
<1>0. PICK P, Q, e : P = a \o e \o c /\ e = <<>> /\ Q = a \o b \o c OBVIOUS
<1>1. e \in Seq(Unit) /\ Len(e) = 0 BY <1>0, EmptySeq
<1>2. IsCat3(Q, a, b, c) /\ IsCat3(P, a, e, c) BY <1>0, <1>1, Cat3Parts
<1>3. ASSUME NEW i \in DOMAIN P PROVE \E k \in DOMAIN Q : P[i] = Q[k]
  <2>1. CASE i \in 1..Len(a)
    <3>1. P[i] = a[i] /\ Q[i] = a[i] BY <1>2, <2>1 DEF IsCat3
    <3>2. i \in DOMAIN Q BY SMTT(30), <1>2, <2>1 DEF IsCat3
    <3> QED BY <3>1, <3>2
  <2>2. CASE i \notin 1..Len(a)
    <3>1. PICK j : j = i - Len(a) OBVIOUS
    <3>2. j \in 1..Len(c) /\ i = Len(a) + Len(e) + j BY SMTT(30), <1>1, <1>2, <2>2, <3>1 DEF IsCat3
    <3>3. P[Len(a) + Len(e) + j] = c[j] /\ Q[Len(a) + Len(b) + j] = c[j]
      BY <1>2, <3>2 DEF IsCat3
    <3>4. Len(a) + Len(b) + j \in DOMAIN Q BY SMTT(30), <1>2, <3>2 DEF IsCat3
    <3> QED BY <3>2, <3>3, <3>4
  <2> QED BY <2>1, <2>2
<1>4. Within(P, Q) BY <1>3 DEF Within
<1> QED BY <1>0, <1>4

\* Only the client adds requests.
LEMMA StepRequests ==
  ASSUME TypeOK, C2s \/ S2c \/ Wait \/ ClearDeadline \/ (Env /\ ~ClientSend)
  PROVE  Within(Requests', Requests)
<1>0. toBackend \in Seq(Unit) /\ inbuf \in Seq(Unit) /\ front \in Seq(Unit) BY DEF TypeOK
<1>a. ASSUME Requests' = Requests PROVE Within(Requests', Requests) BY <1>a DEF Within
<1>b. ASSUME UNCHANGED <<toBackend, inbuf, front>> PROVE Within(Requests', Requests)
  BY <1>a, <1>b DEF Requests
<1>c. ASSUME UNCHANGED <<toBackend, front>>, inbuf' = <<>> PROVE Within(Requests', Requests)
  BY <1>0, <1>c, WithinMiddle DEF Requests
<1>1. CASE C2sCheck BY <1>1, <1>b DEF C2sCheck, userVars, backVars
<1>2. CASE C2sRead
  <2>1. toBackend' = toBackend BY <1>2 DEF C2sRead, backVars
  <2>2. CASE UNCHANGED <<inbuf, front>> BY <1>b, <2>1, <2>2
  <2>3. ASSUME NEW k \in Readable(front),
               inbuf' = inbuf \o Taken(front, k), front' = Rest(front, k)
        PROVE  Requests' = Requests
    <3>1. toBackend \in Seq(Unit) BY <1>0
    <3>2. inbuf \in Seq(Unit) BY <1>0
    <3>3. front \in Seq(Unit) BY <1>0
    <3>4. \A c \in Seq(Unit) : \A j \in Readable(c) :
            toBackend \o (inbuf \o Taken(c, j)) \o Rest(c, j) = toBackend \o inbuf \o c
      BY <3>1, <3>2, MovedRead
    <3>5. toBackend \o (inbuf \o Taken(front, k)) \o Rest(front, k) = toBackend \o inbuf \o front
      BY <3>3, <3>4
    <3> QED BY <2>1, <2>3, <3>5 DEF Requests
  <2> QED BY <1>2, <1>a, <2>2, <2>3 DEF C2sRead
<1>3. CASE C2sPush
  <2>1. UNCHANGED <<toBackend, front>> BY <1>3 DEF C2sPush, userVars, backVars
  <2>2. inbuf' = <<>> \/ inbuf' = inbuf BY <1>3 DEF C2sPush
  <2> QED BY <1>b, <1>c, <2>1, <2>2
<1>4. CASE C2sAnswer BY <1>4, <1>c DEF C2sAnswer, userVars, backVars
<1>5. CASE C2sSend
  <2>1. front' = front /\ inbuf' = <<>> BY <1>5 DEF C2sSend, userVars
  <2>2. CASE toBackend' = toBackend BY <1>c, <2>1, <2>2
  <2>3. CASE toBackend' = toBackend \o inbuf
    <3>1. (toBackend \o inbuf) \o <<>> \o front = toBackend \o inbuf \o front BY <1>0, MovedAll
    <3> QED BY <1>a, <2>1, <2>3, <3>1 DEF Requests
  <2> QED BY <1>5, <2>2, <2>3 DEF C2sSend
<1>6. CASE C2sExit BY <1>6, <1>c DEF C2sExit, userVars, backVars
<1>7. CASE C2sExpire BY <1>7, <1>b DEF C2sExpire, userVars, backVars
<1>8. CASE S2c
  BY <1>8, <1>b DEF S2c, S2cCheck, S2cReceive, S2cDeliver, S2cExit, c2sVars, userVars, backVars
<1>9. CASE Wait \/ ClearDeadline
  BY <1>9, <1>b DEF Wait, ClearDeadline, c2sVars, userVars, backVars
<1>10. CASE BackendReply
  <2>1. UNCHANGED <<inbuf, front>> BY <1>10 DEF BackendReply, c2sVars, userVars
  <2>2. PICK k \in DOMAIN toBackend : toBackend' = SubSeq(toBackend, k + 1, Len(toBackend))
    BY <1>10 DEF BackendReply
  <2>3. k \in 1..Len(toBackend) BY <1>0, LenProperties
  <2>4. Dropped(Requests', Requests, toBackend', toBackend, k)
    BY <1>0, <2>1, <2>2, <2>3, DropFirstParts DEF Requests
  <2> QED BY SMTT(30), <2>4 DEF Dropped, Within
<1>11. CASE ClientClose \/ BackendClose \/ CloseBackendClient \/ ClearBusy
  BY <1>11, <1>b DEF ClientClose, BackendClose, CloseBackendClient, ClearBusy, c2sVars, userVars,
                     backVars
<1> QED BY <1>1, <1>2, <1>3, <1>4, <1>5, <1>6, <1>7, <1>8, <1>9, <1>10, <1>11 DEF C2s, Env

\* While a client that waits for its answers has a request on its way, that is
\* its last one; what is read from the backend answers it.
LEMMA Single ==
  ASSUME ~Pipelining, TypeOK, OrderInv, StackInv, Relaying
  PROVE  /\ \A k \in DOMAIN Requests : Requests[k].of = sent
         /\ Len(Requests) <= 1
         /\ Requests # <<>> => ~Answered(sent) /\ sent # 0
         /\ ~Answered(sent) => \A k \in DOMAIN outbuf : outbuf[k].of = sent
<1>0. /\ got \in Seq(Unit) /\ outbuf \in Seq(Unit) /\ back \in Seq(Unit) /\ sent \in Nat
  BY SMTT(30), TrafficAssumption DEF TypeOK
<1>1. Base(Responses, Requests, sent) /\ Waits BY OrderParts DEF Waits
<1>2. Responses \in Seq(Unit) /\ Requests \in Seq(Unit) BY Streams
<1>3. IsCat3(Responses, got, outbuf, back) BY <1>0, Cat3Parts DEF Responses
<1>4. \A i \in DOMAIN got : i \in DOMAIN Responses /\ Responses[i] = got[i]
  BY SMTT(30), <1>3 DEF IsCat3
<1>5. \A k \in DOMAIN Requests : /\ Requests[k].last /\ Above(Requests[k].of, Responses)
                                 /\ Requests[k].of \in Nat /\ Requests[k].of >= 1
                                 /\ Requests[k].of <= sent
  BY <1>1, <1>2, OfNat DEF StackInv, Base
<1>6. ASSUME sent > 1 PROVE \E i \in DOMAIN got : got[i].last /\ got[i].of = sent - 1
  BY <1>1, <1>6 DEF Waits, Answered, Ends
<1>7. ASSUME NEW k \in DOMAIN Requests PROVE Requests[k].of = sent
  <2>1. CASE sent > 1
    <3>1. PICK i \in DOMAIN got : got[i].of = sent - 1 BY <1>6, <2>1
    <3>2. sent - 1 < Requests[k].of BY <1>4, <1>5, <3>1 DEF Above
    <3> QED BY SMTT(30), <1>0, <1>5, <3>2
  <2>2. CASE ~(sent > 1) BY SMTT(30), <1>0, <1>5, <2>2
  <2> QED BY <2>1, <2>2
<1>8. Len(Requests) \in Nat /\ DOMAIN Requests = 1..Len(Requests) BY <1>2, LenProperties
<1>9. Len(Requests) <= 1
  <2>1. SUFFICES ASSUME ~(Len(Requests) <= 1) PROVE FALSE OBVIOUS
  <2>2. 1 \in DOMAIN Requests /\ 2 \in DOMAIN Requests BY SMTT(30), <1>8, <2>1
  <2>3. Sorted(Requests) BY <1>1 DEF Base
  <2>4. 1 < 2 BY SMTT(30)
  <2>5. Requests[1].of < Requests[2].of
    BY <1>5, <2>2, <2>3, <2>4 DEF Sorted
  <2> QED BY SMTT(30), <1>0, <1>7, <2>2, <2>5
<1>10. ASSUME Requests # <<>> PROVE ~Answered(sent) /\ sent # 0
  <2>1. 1 \in DOMAIN Requests BY SMTT(30), <1>2, <1>8, <1>10, EmptySeq
  <2>2. Requests[1].of = sent /\ sent # 0 BY SMTT(30), <1>5, <1>7, <2>1
  <2>3. Above(sent, Responses) BY <1>5, <2>1, <2>2
  <2>4. \A i \in DOMAIN got : got[i].of # sent BY SMTT(30), <1>0, <1>4, <2>3 DEF Above
  <2> QED BY <2>2, <2>4 DEF Answered, Ends
<1>11. ASSUME ~Answered(sent), NEW k \in DOMAIN outbuf PROVE outbuf[k].of = sent
  <2>1. PICK x : x = Len(got) + k OBVIOUS
  <2>2. k \in 1..Len(outbuf) BY <1>3 DEF IsCat3
  <2>3. x \in DOMAIN Responses /\ Responses[x] = outbuf[k]
    <3>1. Responses[Len(got) + k] = outbuf[k] BY <1>3, <2>2 DEF IsCat3
    <3>2. x \in DOMAIN Responses BY SMTT(30), <1>3, <2>1, <2>2 DEF IsCat3
    <3> QED BY <2>1, <3>1, <3>2
  <2>4. outbuf[k].of \in Nat /\ outbuf[k].of >= 1 /\ outbuf[k].of <= sent
    BY <1>0, <1>1, <2>3, OfNat DEF Base
  <2>5. CASE sent > 1
    <3>1. PICK i \in DOMAIN got : got[i].last /\ got[i].of = sent - 1 BY <1>6, <2>5
    <3>2. i < x BY SMTT(30), <1>3, <2>1, <2>2 DEF IsCat3
    <3>3. sent - 1 < outbuf[k].of BY <1>1, <1>4, <2>3, <3>1, <3>2 DEF Base, Sorted
    <3> QED BY SMTT(30), <1>0, <2>4, <3>3
  <2>6. CASE ~(sent > 1) BY SMTT(30), <1>0, <2>4, <2>6
  <2> QED BY <2>5, <2>6
<1> QED BY <1>7, <1>9, <1>10, <1>11

\* The stack of at most one request.
LEMMA ShortStack ==
  ASSUME NEW n, NEW r, stack \in {<<>>, <<n>>}
  PROVE  /\ PopLast(stack) = <<>>
         /\ stack = <<>> => Push(r) = <<r>> /\ UpdateLast(r) = <<>> /\ Last = {}
         /\ stack # <<>> => UpdateLast(r) = <<r>> /\ Last = n
<1>1. PopLast(stack) = <<>>
  <2>1. CASE stack = <<>> BY <2>1 DEF PopLast
  <2>2. CASE stack = <<n>>
    <3>1. stack # <<>> /\ Len(stack) - 1 = 0 BY SMTT(30), <2>2
    <3>2. SubSeq(stack, 1, 0) = <<>> BY SMTT(30), SubSeqEmpty
    <3> QED BY <3>1, <3>2 DEF PopLast
  <2> QED BY <2>1, <2>2
<1>2. ASSUME stack = <<>> PROVE Push(r) = <<r>> /\ UpdateLast(r) = <<>> /\ Last = {}
  <2>1. Len(stack) < StackBound BY SMTT(30), <1>2, TrafficAssumption
  <2>2. Append(<<>>, r) = <<r>> BY SMTT(30)
  <2> QED BY <1>2, <2>1, <2>2 DEF Push, UpdateLast, Last
<1>3. ASSUME stack # <<>> PROVE UpdateLast(r) = <<r>> /\ Last = n
  <2>1. stack = <<n>> /\ Len(stack) = 1 BY <1>3
  <2>2. [<<n>> EXCEPT ![1] = r] = <<r>> BY SMTT(30)
  <2> QED BY <1>3, <2>1, <2>2 DEF UpdateLast, Last
<1> QED BY <1>1, <1>2, <1>3

\* What PassThroughToServer has read is the last request.
LEMMA ReadSingle ==
  ASSUME ~Pipelining, TypeOK, OrderInv, StackInv, Relaying, inbuf # <<>>
  PROVE  In(inbuf) = {sent} /\ front = <<>> /\ ~Answered(sent) /\ sent # 0
<1>0. toBackend \in Seq(Unit) /\ inbuf \in Seq(Unit) /\ front \in Seq(Unit) BY DEF TypeOK
<1>1. IsCat3(Requests, toBackend, inbuf, front) BY <1>0, Cat3Parts DEF Requests
<1>2. /\ \A k \in DOMAIN Requests : Requests[k].of = sent
      /\ Len(Requests) <= 1 /\ (Requests # <<>> => ~Answered(sent) /\ sent # 0)
  BY Single
<1>3. Len(inbuf) \in Nat \ {0} BY <1>0, EmptySeq
<1>4. Len(front) = 0 BY SMTT(30), <1>1, <1>2, <1>3 DEF IsCat3
<1>5. Len(Requests) # 0 BY SMTT(30), <1>1, <1>3 DEF IsCat3
<1>6. \A k \in DOMAIN inbuf : inbuf[k].of = sent
  <2>1. ASSUME NEW k \in DOMAIN inbuf PROVE inbuf[k].of = sent
    <3>1. k \in 1..Len(inbuf) BY <1>1 DEF IsCat3
    <3>2. Requests[Len(toBackend) + k] = inbuf[k] BY <1>1, <3>1 DEF IsCat3
    <3>3. Len(toBackend) + k \in DOMAIN Requests BY SMTT(30), <1>1, <3>1 DEF IsCat3
    <3> QED BY <1>2, <3>2, <3>3
  <2> QED BY <2>1
<1>7. 1 \in DOMAIN inbuf BY SMTT(30), <1>1, <1>3 DEF IsCat3
<1>8. In(inbuf) = {sent} BY <1>6, <1>7 DEF In
<1>9. front = <<>> BY <1>0, <1>4, EmptySeq
<1>10. Requests # <<>> BY SMTT(30), <1>5
<1> QED BY <1>2, <1>8, <1>9, <1>10

\* A unit that is read is no longer nothing.
LEMMA ReadSome ==
  ASSUME NEW b \in Seq(Unit), NEW c \in Seq(Unit), NEW k \in Readable(c)
  PROVE  b \o Taken(c, k) # <<>>
<1>1. Taken(c, k) \in Seq(Unit) /\ Len(Taken(c, k)) = k /\ k \in 1..Len(c) BY ReadType
<1>2. PICK x : x = Taken(c, k) OBVIOUS
<1>3. x \in Seq(Unit) /\ Len(x) = k BY <1>1, <1>2
<1>4. Len(b \o x) = Len(b) + Len(x) BY <1>3, Cat
<1>5. Len(b) \in Nat /\ k \in Nat \ {0} BY SMTT(30), <1>1, LenProperties
<1>6. Len(b \o x) # 0 BY SMTT(30), <1>3, <1>4, <1>5
<1>7. b \o x # <<>> BY SMTT(30), <1>6
<1> QED BY <1>2, <1>7

\* Every step keeps the stack as StackInv says.
LEMMA StepStack ==
  ASSUME ~Pipelining, ReqSizes = {1}, TypeOK, OrderInv, StackInv, [Next]_vars
  PROVE  StackInv'
<1> SUFFICES ASSUME Relaying'
             PROVE  /\ ~frontExpired'
                    /\ \A k \in DOMAIN Requests' : Requests'[k].last
                    /\ c2s' = "loop" => inbuf' = <<>>
                    /\ c2s' \in {"push", "answer", "send"} => inbuf' # <<>>
                    /\ s2c' = "deliver" => outbuf' # <<>>
                    /\ stack' \in {<<>>, <<{sent'}>>}
                    /\ \/ sent' = 0 \/ Answered(sent)' \/ front' # <<>>
                       \/ inbuf' # <<>> /\ c2s' \in {"read", "push"}
                       => stack' = <<>>
  BY DEF StackInv
<1>a. Relaying /\ frontExpired' = frontExpired
  BY DEF Next, C2s, S2c, Env, C2sCheck, C2sRead, C2sPush, C2sAnswer, C2sSend, C2sExit, C2sExpire,
         S2cCheck, S2cReceive, S2cDeliver, S2cExit, Wait, ClearDeadline, ClientSend, ClientClose,
         BackendReply, BackendClose, CloseBackendClient, ClearBusy, vars, s2cVars, Relaying
<1>b. /\ ~frontExpired /\ \A k \in DOMAIN Requests : Requests[k].last
      /\ c2s = "loop" => inbuf = <<>>
      /\ c2s \in {"push", "answer", "send"} => inbuf # <<>>
      /\ s2c = "deliver" => outbuf # <<>>
      /\ stack \in {<<>>, <<{sent}>>}
      /\ \/ sent = 0 \/ Answered(sent) \/ front # <<>>
         \/ inbuf # <<>> /\ c2s \in {"read", "push"}
         => stack = <<>>
  BY <1>a DEF StackInv
<1>c. ASSUME ~ClientSend PROVE \A k \in DOMAIN Requests' : Requests'[k].last
  <2>1. CASE UNCHANGED vars BY <1>b, <2>1 DEF vars, Requests
  <2>2. CASE Next
    <3>1. Within(Requests', Requests) BY <1>c, <2>2, StepRequests DEF Next
    <3> QED BY <1>b, <3>1 DEF Within
  <2> QED BY <2>1, <2>2
<1>d. ASSUME UNCHANGED got, UNCHANGED sent PROVE Answered(sent)' <=> Answered(sent)
  BY <1>d DEF Answered, Ends
<1>e. /\ PopLast(stack) = <<>>
      /\ \A r : stack = <<>> => Push(r) = <<r>> /\ UpdateLast(r) = <<>>
      /\ \A r : stack # <<>> => UpdateLast(r) = <<r>>
  <2>1. ASSUME NEW r
        PROVE  /\ PopLast(stack) = <<>>
               /\ stack = <<>> => Push(r) = <<r>> /\ UpdateLast(r) = <<>>
               /\ stack # <<>> => UpdateLast(r) = <<r>>
    <3>1. stack \in {<<>>, <<{sent}>>} BY <1>b
    <3> QED BY ONLY <3>1, ShortStack
  <2> QED BY <2>1
<1>g. sent' = sent => ~ClientSend BY SMTT(30) DEF ClientSend, TypeOK
<1>f. inbuf # <<>> => In(inbuf) = {sent} /\ front = <<>> /\ ~Answered(sent) /\ sent # 0
  BY <1>a, ReadSingle
<1>1. CASE C2sCheck
  <2>1. /\ UNCHANGED <<inbuf, s2c, outbuf, sent, got, stack, front>> /\ c2s = "loop"
        /\ c2s' \in {"read", "exit"} /\ ~ClientSend
    BY <1>1 DEF C2sCheck, s2cVars, userVars, ClientSend, c2sVars
  <2> QED BY <1>a, <1>b, <1>c, <1>d, <2>1
<1>2. CASE C2sRead
  <2>1. UNCHANGED <<s2c, outbuf, sent, got, stack>> /\ c2s = "read" /\ ~ClientSend
    BY <1>2, <1>g DEF C2sRead, s2cVars
  <2>2. CASE c2s' = "exit" /\ UNCHANGED <<inbuf, front>> BY <1>a, <1>b, <1>c, <1>d, <2>1, <2>2
  <2>3. ASSUME front # <<>>, c2s' \in {"read", "push"},
               \E k \in Readable(front) : inbuf' = inbuf \o Taken(front, k)
        PROVE  inbuf' # <<>> /\ stack = <<>>
    BY <1>b, <2>3, ReadSome DEF TypeOK
  <2> QED BY SMTT(30), <1>2, <1>a, <1>b, <1>c, <2>1, <2>2, <2>3 DEF C2sRead
<1>3. CASE C2sPush
  <2>1. UNCHANGED <<s2c, outbuf, sent, front>> /\ c2s = "push" /\ inbuf # <<>> /\ ~ClientSend
    BY <1>3, <1>b, <1>g DEF C2sPush, s2cVars, userVars
  <2>2. stack = <<>> BY <1>b, <2>1
  <2>3. CASE IsSSLRequest(inbuf)
    <3>1. c2s' = "loop" /\ inbuf' = <<>> /\ stack' = stack BY <1>3, <2>3 DEF C2sPush
    <3> QED BY <1>a, <1>b, <1>c, <2>1, <2>2, <3>1
  <2>4. CASE ~IsSSLRequest(inbuf)
    <3>1. /\ c2s' \notin {"loop", "read", "push"} /\ UNCHANGED <<inbuf, got>>
          /\ stack' = Push(In(inbuf))
      BY <1>3, <2>4, TrafficAssumption DEF C2sPush, HookKinds
    <3>2. stack' = <<{sent}>> BY <1>e, <1>f, <2>1, <2>2, <3>1
    <3> QED BY <1>a, <1>b, <1>c, <1>d, <1>f, <2>1, <3>1, <3>2
  <2> QED BY <2>3, <2>4
<1>4. CASE C2sAnswer
  <2>1. UNCHANGED <<s2c, outbuf>> /\ inbuf' = <<>> /\ stack' = <<>> /\ ~ClientSend
        /\ c2s' \in {"loop", "exit"}
    BY <1>4, <1>e DEF C2sAnswer, s2cVars, ClientSend, c2sVars
  <2> QED BY <1>a, <1>b, <1>c, <2>1
<1>5. CASE C2sSend
  <2>1. UNCHANGED <<s2c, outbuf, sent, front, got>> /\ inbuf' = <<>> /\ c2s' = "loop"
        /\ ~ClientSend /\ stack' = UpdateLast(In(inbuf)) /\ inbuf # <<>>
    BY <1>5, <1>b DEF C2sSend, s2cVars, userVars, ClientSend, c2sVars
  <2>2. stack = <<>> => stack' = <<>> BY <1>e, <2>1
  <2>3. stack' \in {<<>>, <<{sent}>>} BY <1>e, <1>f, <2>1
  <2> QED BY <1>a, <1>b, <1>c, <1>d, <2>1, <2>2, <2>3
<1>6. CASE C2sExit \/ C2sExpire
  <2>1. UNCHANGED <<s2c, outbuf, sent, front, got, stack>> /\ c2s' \in {"expire", "done"}
        /\ ~ClientSend
    BY <1>6 DEF C2sExit, C2sExpire, s2cVars, userVars, ClientSend, c2sVars
  <2> QED BY <1>a, <1>b, <1>c, <1>d, <2>1
<1>7. CASE S2cCheck
  <2>1. UNCHANGED <<c2s, inbuf, outbuf, sent, front, got, stack>> /\ s2c' # "deliver"
        /\ ~ClientSend
    BY <1>7 DEF S2cCheck, c2sVars, userVars, ClientSend, s2cVars
  <2> QED BY <1>a, <1>b, <1>c, <1>d, <2>1
<1>8. CASE S2cReceive
  <2>1. UNCHANGED <<c2s, inbuf, sent, front, got>> /\ ~ClientSend
    BY <1>8, <1>g DEF S2cReceive, c2sVars, userVars
  <2>2. s2c' # "exit" BY DEF Relaying
  <2>3. stack' = stack /\ \E k \in Readable(back) : outbuf' = outbuf \o Taken(back, k)
    BY <1>8, <2>2 DEF S2cReceive
  <2>4. outbuf' # <<>> BY <2>3, ReadSome DEF TypeOK
  <2> QED BY <1>a, <1>b, <1>c, <1>d, <2>1, <2>3, <2>4
<1>9. CASE S2cDeliver
  <2>1. UNCHANGED <<c2s, inbuf>> /\ stack' = <<>> /\ s2c' # "deliver" /\ ~ClientSend
    BY <1>9, <1>e DEF S2cDeliver, c2sVars, ClientSend, s2cVars
  <2> QED BY <1>a, <1>b, <1>c, <2>1
<1>10. CASE S2cExit \/ Wait
  BY <1>10, <1>a DEF S2cExit, Wait, Relaying
<1>11. CASE ClearDeadline
  <2>1. UNCHANGED <<c2s, inbuf, s2c, outbuf>> /\ stack' = <<>> /\ ~ClientSend
    BY <1>11 DEF ClearDeadline, c2sVars, s2cVars, userVars, ClientSend
  <2> QED BY <1>a, <1>b, <1>c, <2>1
<1>12. CASE ClientSend
  <2>1. UNCHANGED <<c2s, inbuf, s2c, outbuf, stack, toBackend>>
    BY <1>12 DEF ClientSend, c2sVars, s2cVars, backVars
  <2>2. stack = <<>> BY <1>12, <1>b DEF ClientSend
  <2>3. front' = front \o Units(sent + 1, 1) BY <1>12 DEF ClientSend
  <2>4. sent + 1 \in Request BY SMTT(30), <1>12, TrafficAssumption DEF ClientSend, Request, TypeOK
  <2>5. \A k \in DOMAIN Requests' : Requests'[k].last
    <3>0. toBackend \in Seq(Unit) /\ inbuf \in Seq(Unit) /\ front \in Seq(Unit)
          /\ Requests \in Seq(Unit) /\ 1 \in Nat \ {0}
      BY SMTT(30), Streams DEF TypeOK
    <3>1. Units(sent + 1, 1) \in Seq(Unit) BY <2>4, UnitsType
    <3>2. toBackend \in Seq(Unit) BY <3>0
    <3>3. inbuf \in Seq(Unit) BY <3>0
    <3>4. front \in Seq(Unit) BY <3>0
    <3>5. toBackend \o inbuf \o (front \o Units(sent + 1, 1))
            = (toBackend \o inbuf \o front) \o Units(sent + 1, 1)
      BY SMTT(30), <3>1, <3>2, <3>3, <3>4, MovedTail
    <3>6. Requests' = Requests \o Units(sent + 1, 1) BY <2>1, <2>3, <3>5 DEF Requests
    <3>7. Extends(Requests', Requests, sent + 1, 1) BY <2>4, <3>0, <3>6, Extended
    <3>8. /\ DOMAIN Requests' = 1..(Len(Requests) + 1) /\ DOMAIN Requests = 1..Len(Requests)
          /\ \A i \in 1..Len(Requests) : Requests'[i] = Requests[i]
          /\ Requests'[Len(Requests) + 1].last /\ Len(Requests) \in Nat
      BY <3>7 DEF Extends
    <3> QED BY SMTT(30), <1>b, <3>8
  <2> QED BY <1>a, <1>b, <2>1, <2>2, <2>5
<1>13. CASE ClientClose \/ BackendReply \/ BackendClose \/ CloseBackendClient \/ ClearBusy
  <2>1. UNCHANGED <<c2s, inbuf, s2c, outbuf, stack, sent, front, got>>
    BY <1>13 DEF ClientClose, BackendReply, BackendClose, CloseBackendClient, ClearBusy, c2sVars,
                 s2cVars, userVars
  <2>2. ~ClientSend BY SMTT(30), <2>1 DEF ClientSend, TypeOK
  <2> QED BY <1>a, <1>b, <1>c, <1>d, <2>1, <2>2
<1>14. CASE UNCHANGED vars
  <2>1. UNCHANGED <<c2s, inbuf, s2c, outbuf, stack, sent, front, got>> BY <1>14 DEF vars
  <2>2. ~ClientSend BY SMTT(30), <2>1 DEF ClientSend, TypeOK
  <2> QED BY <1>a, <1>b, <1>c, <1>d, <2>1, <2>2
<1> QED
  BY <1>1, <1>2, <1>3, <1>4, <1>5, <1>6, <1>7, <1>8, <1>9, <1>10, <1>11, <1>12, <1>13, <1>14
  DEF Next, C2s, S2c, Env

\* Init establishes the invariant of the stack.
LEMMA InitStack == Init => StackInv
<1> SUFFICES ASSUME Init PROVE StackInv OBVIOUS
<1>1. <<>> \o <<>> \o <<>> = <<>> BY SMTT(30)
<1>2. Requests = <<>> BY <1>1 DEF Init, Requests
<1> QED BY SMTT(30), <1>2 DEF Init, StackInv

\* The request shown to the OnTrafficFromServer hook beside a response is the
\* one the response answers, if the client waits for each answer and the reads
\* do not split a request: the stack then holds one request at most.
THEOREM ResponsesPaired ==
  ASSUME ~Pipelining, ReqSizes = {1}
  PROVE  Spec => []Pairing
<1>1. TypeOK /\ OrderInv /\ StackInv /\ [Next]_vars => StackInv' BY StepStack
<1>2. TypeOK /\ OrderInv /\ StackInv /\ Pairing /\ [Next]_vars => Pairing'
  <2> SUFFICES ASSUME TypeOK, OrderInv, StackInv, Pairing, [Next]_vars PROVE Pairing' OBVIOUS
  <2>1. CASE hooked' = hooked BY <2>1 DEF Pairing
  <2>2. CASE S2cDeliver
    <3>1. Relaying /\ hooked' = [req |-> Last, resp |-> In(outbuf)] /\ s2c = "deliver"
      BY <2>2 DEF S2cDeliver, Relaying
    <3>2. stack \in {<<>>, <<{sent}>>} /\ outbuf # <<>> /\ (stack # <<>> => ~Answered(sent))
      BY <3>1 DEF StackInv
    <3>3. Last \subseteq In(outbuf)
      <4>1. CASE stack = <<>> BY <4>1 DEF Last
      <4>2. CASE stack # <<>>
        <5>1. Last = {sent} BY <3>2, <4>2, ShortStack
        <5>2. \A k \in DOMAIN outbuf : outbuf[k].of = sent BY <3>1, <3>2, <4>2, Single
        <5>3. 1 \in DOMAIN outbuf BY SMTT(30), <3>2, EmptySeq, LenProperties DEF TypeOK
        <5> QED BY <5>1, <5>2, <5>3 DEF In
      <4> QED BY <4>1, <4>2
    <3> QED BY <3>1, <3>3 DEF Pairing
  <2>3. hooked' = hooked \/ S2cDeliver
    BY DEF Next, C2s, S2c, Env, C2sCheck, C2sRead, C2sPush, C2sAnswer, C2sSend, C2sExit, C2sExpire,
           S2cCheck, S2cReceive, S2cExit, Wait, ClearDeadline, ClientSend, ClientClose,
           BackendReply, BackendClose, CloseBackendClient, ClearBusy, vars, s2cVars
  <2> QED BY <2>1, <2>2, <2>3
<1>3. Init => Pairing BY SMTT(30) DEF Init, Pairing
<1> QED BY TrafficTyped, RelayInvariant, InitStack, <1>1, <1>2, <1>3, PTL DEF Spec

=============================================================================
