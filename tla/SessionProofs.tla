--------------------------- MODULE SessionProofs ---------------------------
(***************************************************************************)
(* A connection that the handshake or the reset made available is idle and *)
(* clean, and its owner sees the answers to its own queries only, for any  *)
(* number of owners, queries and retries, every authentication method and  *)
(* every fault.                                                            *)
(***************************************************************************)
EXTENDS Session, TLAPS

\* A leaf is left to Zenon unless it names SMT, which arithmetic needs; the
\* numbers are time limits in seconds.
USE ZenonT(60)

\* What a message of GatewayD's, or about an owner, is.
LEMMA MsgType ==
  ASSUME NEW type \in Types, NEW by \in Owner \cup {None}
  PROVE  /\ Msg(type, by) \in Message
         /\ Msg(type, by).type = type /\ Msg(type, by).by = by
  BY DEF Msg, Message

\* What is left of a stream when its first message has been read.
LEMMA ReadFirst ==
  ASSUME NEW s \in Seq(Message), s # <<>>
  PROVE  /\ Tail(s) \in Seq(Message) /\ Len(Tail(s)) = Len(s) - 1
         /\ Len(s) \in Nat \ {0}
         /\ \A i \in 1..(Len(s) - 1) : Tail(s)[i] = s[i + 1]
         /\ Head(s) = s[1] /\ s[1] \in Message
         /\ Len(s) = 1 => Tail(s) = <<>>
<1>1. Len(s) \in Nat \ {0} BY SMTT(30)
<1>2. Tail(s) \in Seq(Message) /\ Len(Tail(s)) = Len(s) - 1 BY SMTT(30)
<1>3. \A i \in 1..(Len(s) - 1) : Tail(s)[i] = s[i + 1] BY SMTT(30)
<1>4. Head(s) = s[1] /\ s[1] \in Message BY SMTT(30), <1>1
<1>5. Len(s) = 1 => Tail(s) = <<>>
  <2>1. \A t \in Seq(Message) : Len(t) = 0 => t = <<>> BY SMTT(30)
  <2>2. Len(s) = 1 => Len(Tail(s)) = 0 BY SMTT(30), <1>2
  <2> QED BY <1>2, <2>1, <2>2
<1> QED BY <1>1, <1>2, <1>3, <1>4, <1>5

\* What is left when the reader drops what it has read ahead.
LEMMA ReadAhead ==
  ASSUME NEW s \in Seq(Message), NEW t \in Suffixes(s)
  PROVE  t \in Seq(Message) /\ (s = <<>> => t = <<>>)
<1>1. CASE t = <<>> BY SMTT(30), <1>1
<1>2. ASSUME NEW l \in 1..Len(s), t = SubSeq(s, l, Len(s)) PROVE t \in Seq(Message) /\ s # <<>>
  BY SMTT(30), <1>2
<1> QED BY <1>1, <1>2 DEF Suffixes

\* A stream to which messages are written.
LEMMA Written ==
  ASSUME NEW s \in Seq(Message), NEW t \in Seq(Message)
  PROVE  /\ s \o t \in Seq(Message)
         /\ Len(s \o t) = Len(s) + Len(t)
         /\ \A i \in 1..Len(s \o t) :
              \/ i \in 1..Len(s) /\ (s \o t)[i] = s[i]
              \/ i - Len(s) \in 1..Len(t) /\ (s \o t)[i] = t[i - Len(s)]
         /\ s = <<>> => s \o t = t
         /\ t = <<>> => s \o t = s
  BY SMTT(30)

\* A stream to which one message is written.
LEMMA WrittenOne ==
  ASSUME NEW s \in Seq(Message), NEW m \in Message
  PROVE  /\ s \o <<m>> \in Seq(Message)
         /\ Len(s) \in Nat /\ Len(s \o <<m>>) = Len(s) + 1
         /\ \A i \in 1..(Len(s) + 1) :
              (s \o <<m>>)[i] = IF i <= Len(s) THEN s[i] ELSE m
  BY SMTT(30)

\* The messages of an answer.
LEMMA Answered ==
  ASSUME NEW types \in Seq(Types), NEW by \in Owner \cup {None}
  PROVE  LET msgs == [i \in 1..Len(types) |-> Msg(types[i], by)]
         IN  /\ msgs \in Seq(Message) /\ Len(msgs) = Len(types)
             /\ \A i \in 1..Len(types) : msgs[i].type = types[i] /\ msgs[i].by = by
<1> DEFINE msgs == [i \in 1..Len(types) |-> Msg(types[i], by)]
<1>1. \A i \in 1..Len(types) : msgs[i] \in Message /\ msgs[i].type = types[i] /\ msgs[i].by = by
  BY SMTT(30), MsgType
<1>2. Len(types) \in Nat BY SMTT(30)
<1>3. msgs \in Seq(Message) /\ Len(msgs) = Len(types) BY SMTT(30), <1>1, <1>2
<1> QED BY <1>1, <1>3

\* What pgStartup and pgHandleSCRAM do with a message: they go on, make the
\* connection available with ReadyForQuery, or fail; an answer is one message.
LEMMA ReplyCases ==
  ASSUME NEW at \in {"startup", "continue", "final"}, NEW type
  PROVE  LET r == Reply(at, type)
         IN  /\ r[1] \in {"startup", "continue", "final", "pooled", "failed"}
             /\ r[1] = "pooled" => type = "Ready"
             /\ r[1] \in {"startup", "continue", "final"} => type # "Ready"
             /\ \/ r[2] = <<>>
                \/ \E t \in {"Password", "SASLInitial", "SASLResponse"} :
                     /\ r[1] \in {"startup", "continue", "final"}
                     /\ type \in {"cleartext", "md5", "sasl", "SASLContinue"}
                     /\ r[2] = <<Own(t)>>
  BY DEF Reply

\* A connection with one message of GatewayD's on its way.
LEMMA OwnMsg ==
  ASSUME NEW t \in Types
  PROVE  /\ <<Own(t)>> \in Seq(Message) /\ Len(<<Own(t)>>) = 1
         /\ <<Own(t)>>[1].type = t /\ <<Own(t)>>[1].by = None
         /\ EndsReady(<<Own(t)>>)
<1>1. Own(t) \in Message /\ Own(t).type = t /\ Own(t).by = None
  BY MsgType DEF Own
<1> QED BY SMTT(30), <1>1 DEF EndsReady

\* The proof's view of Init.
LEMMA InitSession == Init => SessionInv
<1> SUFFICES ASSUME Init PROVE SessionInv OBVIOUS
<1>1. 0 \in 0..Retries /\ 0 \in 0..MaxQueries /\ <<>> \in Seq(Message)
  BY SMTT(30), SessionAssumption
<1>2. TypeOK BY <1>1 DEF Init, TypeOK
<1>3. NothingToClosed /\ HandshakeInv /\ PooledInv /\ OwnedInv /\ ResetInv
  BY DEF Init, NothingToClosed, HandshakeInv, PooledInv, OwnedInv, ResetInv
<1> QED BY <1>2, <1>3 DEF SessionInv

\* A failed start-up leaves nothing that is taken for a good connection.
LEMMA StartupFailsStep == SessionInv /\ StartupFails => SessionInv'
<1> SUFFICES ASSUME SessionInv, StartupFails PROVE SessionInv' OBVIOUS
<1>1. down' \in Seq(Message) BY ReadAhead DEF SessionInv, TypeOK, StartupFails
<1>2. <<>> \in Seq(Message) BY SMTT(30)
<1>3. TypeOK' /\ NothingToClosed'
  <2>1. CASE fresh BY <1>1, <1>2, <2>1 DEF SessionInv, TypeOK, NothingToClosed, StartupFails
  <2>2. CASE ~fresh BY <1>1, <2>2 DEF SessionInv, TypeOK, NothingToClosed, StartupFails
  <2> QED BY <2>1, <2>2
<1>4. pc' \in {"nil", "pooled"} /\ ok' = FALSE BY DEF StartupFails
<1> QED BY <1>3, <1>4 DEF SessionInv, HandshakeInv, PooledInv, OwnedInv, ResetInv

\* Closing the connection and dialling again starts from nothing.
LEMMA ReconnectStep == SessionInv /\ Reconnect /\ left' = left => SessionInv'
<1> SUFFICES ASSUME SessionInv, Reconnect, left' = left PROVE SessionInv' OBVIOUS
<1>1. <<>> \in Seq(Message) BY SMTT(30)
<1>2. TypeOK' BY <1>1 DEF SessionInv, TypeOK, Reconnect
<1> QED BY <1>2
  DEF SessionInv, Reconnect, NothingToClosed, HandshakeInv, PooledInv, OwnedInv, ResetInv

\* A message read during the handshake: what is left is the rest of a handshake
\* or, with ReadyForQuery, an idle connection.
LEMMA StartupReceiveStep == SessionInv /\ StartupReceive => SessionInv'
<1> SUFFICES ASSUME SessionInv, StartupReceive PROVE SessionInv' OBVIOUS
<1> DEFINE r == Reply(pc, Head(down).type)
<1>1. CASE r[1] = "failed" /\ StartupFails BY <1>1, StartupFailsStep
<1>2. CASE /\ r[1] # "failed"
           /\ pc' = r[1] /\ ok' = (r[1] = "pooled")
           /\ Write(r[2]) /\ down' = Tail(down)
           /\ UNCHANGED <<fresh, retry, conn, owner, asked, backend, left>>
  <2>0. pc \in {"startup", "continue", "final"} /\ down # <<>>
    BY DEF StartupReceive
  <2>1. /\ TypeOK /\ NothingToClosed /\ up = <<>>
        /\ conn /\ ~left /\ ~tx /\ state = None
        /\ EndsReady(down)
        /\ phase = "ready" =>
             \A i \in 1..Len(down) : down[i].type \in {"SASLFinal", "Ok", "Ready"}
        /\ phase \notin {"ready", "closed"} =>
             /\ Len(down) <= 1
             /\ \A i \in 1..Len(down) : down[i].type # "Ready"
    BY <2>0 DEF SessionInv, HandshakeInv
  <2>2. down \in Seq(Message) BY <2>1 DEF TypeOK
  <2> DEFINE type == down[1].type
  <2>3. /\ down' \in Seq(Message) /\ Len(down') = Len(down) - 1
        /\ Len(down) \in Nat \ {0}
        /\ \A i \in 1..(Len(down) - 1) : down'[i] = down[i + 1]
        /\ Len(down) = 1 => down' = <<>>
        /\ r = Reply(pc, type)
    BY <1>2, <2>0, <2>2, ReadFirst
  <2>4. /\ r[1] \in {"startup", "continue", "final", "pooled", "failed"}
        /\ r[1] = "pooled" => type = "Ready"
        /\ r[1] \in {"startup", "continue", "final"} => type # "Ready"
        /\ \/ r[2] = <<>>
           \/ \E t \in {"Password", "SASLInitial", "SASLResponse"} :
                /\ r[1] \in {"startup", "continue", "final"}
                /\ type \in {"cleartext", "md5", "sasl", "SASLContinue"}
                /\ r[2] = <<Own(t)>>
    BY SMTT(30), <2>0, <2>3, ReplyCases
  <2>5. EndsReady(down') BY SMTT(30), <2>1, <2>3 DEF EndsReady
  <2>6. UNCHANGED <<fresh, retry, conn, owner, asked, phase, tx, state, left>>
    BY <1>2 DEF backend
  <2>7. pc' = r[1] /\ ok' = (r[1] = "pooled") /\ ok' \in BOOLEAN BY <1>2
  <2>8. CASE r[2] = <<>>
    <3>1. up' = <<>> BY SMTT(30), <1>2, <2>1, <2>8 DEF Write
    <3>2. TypeOK' /\ NothingToClosed'
      BY SMTT(30), <1>2, <2>1, <2>3, <2>4, <2>6, <2>7, <3>1 DEF TypeOK, NothingToClosed
    <3>3. HandshakeInv'
      BY SMTT(30), <2>1, <2>3, <2>5, <2>6, <3>1 DEF HandshakeInv, EndsReady
    <3>4. PooledInv'
      <4>1. SUFFICES ASSUME r[1] = "pooled" PROVE PooledInv'
        BY <2>7 DEF PooledInv
      <4>2. type = "Ready" BY <2>4, <4>1
      <4>3. Len(down) = 1 BY SMTT(30), <2>1, <2>3, <4>2 DEF EndsReady
      <4>4. phase \in {"ready", "closed"} BY SMTT(30), <2>1, <4>2, <4>3
      <4> QED BY <2>1, <2>3, <2>6, <3>1, <4>3, <4>4 DEF PooledInv
    <3>5. pc' \notin {"owned", "reset"} BY <2>4, <2>7
    <3> QED BY <3>2, <3>3, <3>4, <3>5 DEF SessionInv, OwnedInv, ResetInv
  <2>9. CASE \E t \in {"Password", "SASLInitial", "SASLResponse"} :
                /\ r[1] \in {"startup", "continue", "final"}
                /\ type \in {"cleartext", "md5", "sasl", "SASLContinue"}
                /\ r[2] = <<Own(t)>>
    <3>1. PICK t \in {"Password", "SASLInitial", "SASLResponse"} :
                /\ r[1] \in {"startup", "continue", "final"}
                /\ type \in {"cleartext", "md5", "sasl", "SASLContinue"}
                /\ r[2] = <<Own(t)>>
      BY <2>9
    <3>2. phase # "ready" BY SMTT(30), <2>1, <2>3, <3>1
    <3>3. t \in Types BY DEF Types
    <3>4. /\ up' \in Seq(Message) /\ EndsReady(up')
          /\ up' = <<>> \/ (phase # "closed" /\ up' = <<Own(t)>>)
      <4>1. CASE phase = "closed" BY SMTT(30), <1>2, <2>1, <4>1 DEF Write, TypeOK, EndsReady
      <4>2. CASE phase # "closed"
        <5>1. up' = <<>> \o <<Own(t)>> BY <1>2, <2>1, <3>1, <4>2 DEF Write
        <5>2. up' = <<Own(t)>> BY SMTT(30), <3>3, <5>1, OwnMsg, Written
        <5> QED BY <3>3, <4>2, <5>2, OwnMsg
      <4> QED BY <4>1, <4>2
    <3>5. /\ up' # <<>> => Len(up') = 1 /\ down' = <<>>
          /\ \A i \in 1..Len(up') : up'[i].type \notin {"Query", "Discard"}
      BY SMTT(30), <2>1, <2>3, <3>2, <3>3, <3>4, OwnMsg
    <3>6. TypeOK' /\ NothingToClosed'
      BY SMTT(30), <1>2, <2>1, <2>3, <2>6, <2>7, <3>1, <3>4 DEF TypeOK, NothingToClosed
    <3>7. HandshakeInv'
      BY SMTT(30), <2>1, <2>3, <2>5, <2>6, <3>2, <3>4, <3>5 DEF HandshakeInv
    <3> QED BY <2>7, <3>1, <3>6, <3>7 DEF SessionInv, PooledInv, OwnedInv, ResetInv
  <2> QED BY <2>4, <2>8, <2>9
<1> QED BY <1>1, <1>2 DEF StartupReceive

\* A query is relayed to the backend, or an answer to its owner.
LEMMA RelayStep == SessionInv /\ Relay => SessionInv'
<1> SUFFICES ASSUME SessionInv, Relay PROVE SessionInv' OBVIOUS
<1>0. /\ pc = "owned" /\ conn
      /\ UNCHANGED <<pc, fresh, retry, conn, ok, owner, phase, tx, state, left>>
  BY DEF Relay, backend
<1>1. TypeOK /\ NothingToClosed /\ OwnedInv BY DEF SessionInv
<1>2. CASE asked < MaxQueries /\ asked' = asked + 1
           /\ Write(<<Msg("Query", owner)>>) /\ UNCHANGED down
  <2> DEFINE m == Msg("Query", owner)
  <2>1. m \in Message /\ m.by = owner /\ m.type = "Query"
    <3>1. "Query" \in Types BY DEF Types
    <3> QED BY <1>1, <3>1, MsgType DEF TypeOK
  <2>2. asked' \in 0..MaxQueries BY SMTT(30), <1>1, <1>2, SessionAssumption DEF TypeOK
  <2>3. CASE phase = "closed"
    <3>1. up' = up BY <1>2, <2>3 DEF Write
    <3>2. TypeOK' /\ NothingToClosed' BY <1>0, <1>1, <1>2, <2>2, <3>1 DEF TypeOK, NothingToClosed
    <3> QED BY <1>0, <1>1, <1>2, <3>1, <3>2
          DEF SessionInv, HandshakeInv, PooledInv, OwnedInv, ResetInv
  <2>4. CASE phase # "closed"
    <3>1. up' = up \o <<m>> BY <1>2, <2>4 DEF Write
    <3>2. /\ up' \in Seq(Message) /\ Len(up') = Len(up) + 1 /\ Len(up) \in Nat
          /\ \A i \in 1..(Len(up) + 1) : up'[i] = IF i <= Len(up) THEN up[i] ELSE m
      <4>1. up \in Seq(Message) BY <1>1 DEF TypeOK
      <4> HIDE DEF m
      <4> QED BY <2>1, <3>1, <4>1, WrittenOne
    <3>3. TypeOK' /\ NothingToClosed'
      BY <1>0, <1>1, <1>2, <2>2, <2>4, <3>2 DEF TypeOK, NothingToClosed
    <3>4. OwnedInv' BY SMTT(30), <1>0, <1>1, <1>2, <2>1, <3>2 DEF OwnedInv
    <3> QED BY <1>0, <3>3, <3>4 DEF SessionInv, HandshakeInv, PooledInv, ResetInv
  <2> QED BY <2>3, <2>4
<1>3. CASE down # <<>> /\ down' = Tail(down) /\ UNCHANGED <<asked, up>>
  <2>1. /\ down' \in Seq(Message) /\ Len(down') = Len(down) - 1 /\ Len(down) \in Nat \ {0}
        /\ \A i \in 1..(Len(down) - 1) : down'[i] = down[i + 1]
    BY <1>1, <1>3, ReadFirst DEF TypeOK
  <2>2. TypeOK' /\ NothingToClosed' BY <1>0, <1>1, <1>3, <2>1 DEF TypeOK, NothingToClosed
  <2>3. OwnedInv' BY SMTT(30), <1>0, <1>1, <1>3, <2>1 DEF OwnedInv
  <2> QED BY <1>0, <2>2, <2>3 DEF SessionInv, HandshakeInv, PooledInv, ResetInv
<1> QED BY <1>2, <1>3 DEF Relay

\* The connection is reset, or made again.
LEMMA DisconnectStep == SessionInv /\ Disconnect => SessionInv'
<1> SUFFICES ASSUME SessionInv, Disconnect PROVE SessionInv' OBVIOUS
<1>1. CASE ~conn /\ Reconnect /\ left' = left BY <1>1, ReconnectStep
<1>2. CASE /\ conn /\ pc' = "reset"
           /\ Write(<<Own("Discard")>>)
           /\ left' = (left \/ up # <<>> \/ down # <<>>)
           /\ UNCHANGED <<fresh, retry, conn, ok, owner, asked, down, phase, tx, state>>
  <2> DEFINE q == <<Own("Discard")>>
  <2>0. TypeOK /\ NothingToClosed BY DEF SessionInv
  <2>1. q \in Seq(Message) /\ Len(q) = 1
    <3>1. "Discard" \in Types BY DEF Types
    <3> QED BY <3>1, OwnMsg
  <2> HIDE DEF q
  <2>2. /\ up' \in Seq(Message)
        /\ up' = IF phase = "closed" THEN up ELSE up \o q
        /\ up = <<>> /\ phase # "closed" => up' = q
    BY <1>2, <2>0, <2>1, Written DEF Write, TypeOK, q
  <2>3. left' \in BOOLEAN /\ (~left' => ~left /\ up = <<>> /\ down = <<>>)
    BY <1>2
  <2>4. TypeOK' /\ NothingToClosed'
    BY <1>2, <2>0, <2>2, <2>3 DEF TypeOK, NothingToClosed
  <2>5. ResetInv'
    <3>1. SUFFICES ASSUME ~left' PROVE ResetInv' BY <1>2 DEF ResetInv
    <3>2. down' = <<>> /\ EndsReady(down') BY SMTT(30), <1>2, <2>3, <3>1 DEF EndsReady
    <3>3. CASE phase = "closed" BY <1>2, <2>2, <2>3, <3>1, <3>2, <3>3 DEF ResetInv
    <3>4. CASE phase # "closed"
      <4>1. up' = q /\ q # <<>> BY SMTT(30), <2>1, <2>2, <2>3, <3>1, <3>4
      <4> QED BY <1>2, <3>2, <4>1 DEF ResetInv, q
    <3> QED BY <3>3, <3>4
  <2> QED BY <1>2, <2>4, <2>5 DEF SessionInv, HandshakeInv, PooledInv, OwnedInv
<1> QED BY <1>1, <1>2 DEF Disconnect, backend

\* A message read during the reset.
LEMMA ResetReceiveStep == SessionInv /\ ResetReceive => SessionInv'
<1> SUFFICES ASSUME SessionInv, ResetReceive PROVE SessionInv' OBVIOUS
<1>0. pc = "reset" /\ down # <<>> /\ TypeOK /\ NothingToClosed /\ ResetInv
  BY DEF ResetReceive, SessionInv
<1> DEFINE rest == Tail(down)
<1>1. /\ rest \in Seq(Message) /\ Len(rest) = Len(down) - 1
      /\ Len(down) \in Nat \ {0}
      /\ \A i \in 1..(Len(down) - 1) : rest[i] = down[i + 1]
      /\ Head(down) = down[1]
      /\ Len(down) = 1 => rest = <<>>
  BY <1>0, ReadFirst DEF TypeOK
<1> HIDE DEF rest
<1>2. CASE /\ Head(down).type = "Ready"
           /\ pc' = "pooled" /\ ok' = TRUE /\ down' \in Suffixes(rest)
           /\ UNCHANGED <<fresh, retry, conn, owner, asked, up, phase, tx, state, left>>
  <2>1. down' \in Seq(Message) /\ (rest = <<>> => down' = <<>>)
    BY <1>1, <1>2, ReadAhead
  <2>2. TypeOK' /\ NothingToClosed' BY <1>0, <1>2, <2>1 DEF TypeOK, NothingToClosed
  <2>3. PooledInv'
    <3>1. SUFFICES ASSUME ~left PROVE PooledInv' BY <1>2 DEF PooledInv
    <3>2. Len(down) = 1
      <4>1. EndsReady(down) BY <1>0, <3>1 DEF ResetInv
      <4> QED BY SMTT(30), <1>1, <1>2, <4>1 DEF EndsReady
    <3>3. up = <<>> BY <1>0, <3>1 DEF ResetInv
    <3>4. phase = "closed" \/ (phase = "ready" /\ ~tx /\ state = None)
      BY <1>0, <1>1, <1>2, <3>1, <3>3 DEF ResetInv
    <3> QED BY <1>1, <1>2, <2>1, <3>2, <3>3, <3>4 DEF PooledInv
  <2> QED BY <1>2, <2>2, <2>3 DEF SessionInv, HandshakeInv, OwnedInv, ResetInv
<1>3. CASE Reconnect /\ left' = left BY <1>3, ReconnectStep
<1>4. CASE /\ Head(down).type \notin {"Ready", "Error"}
           /\ down' = rest
           /\ UNCHANGED <<pc, fresh, retry, conn, ok, owner, asked, up, phase, tx, state, left>>
  <2>1. TypeOK' /\ NothingToClosed' BY SMTT(30), <1>0, <1>1, <1>4 DEF TypeOK, NothingToClosed
  <2>2. ResetInv'
    <3>1. SUFFICES ASSUME ~left PROVE ResetInv' BY <1>0, <1>4 DEF ResetInv
    <3>2. EndsReady(down')
      <4>1. EndsReady(down) BY <1>0, <3>1 DEF ResetInv
      <4> QED BY SMTT(30), <1>1, <1>4, <4>1 DEF EndsReady
    <3>3. up = <<>> BY <1>0, <3>1 DEF ResetInv
    <3>4. ASSUME phase # "closed"
          PROVE  /\ phase = "ready" /\ ~tx /\ state = None
                 /\ down' # <<>> /\ down'[Len(down')].type = "Ready"
      <4>1. /\ phase = "ready" /\ ~tx /\ state = None
            /\ down[Len(down)].type = "Ready"
        BY <1>0, <1>1, <1>4, <3>1, <3>3, <3>4 DEF ResetInv
      <4>2. Len(down) > 1 BY SMTT(30), <1>1, <1>4, <4>1
      <4>3. Len(down') >= 1 /\ down'[Len(down')] = down[Len(down)] BY SMTT(30), <1>1, <1>4, <4>2
      <4>4. down' # <<>> BY SMTT(30), <4>3
      <4> QED BY <4>1, <4>3, <4>4
    <3> QED BY <1>0, <1>4, <3>2, <3>3, <3>4 DEF ResetInv
  <2> QED BY <1>0, <1>4, <2>1, <2>2 DEF SessionInv, HandshakeInv, PooledInv, OwnedInv
<1> QED BY <1>2, <1>3, <1>4 DEF ResetReceive, backend, rest

\* The streams after an answer of the backend.
LEMMA AnswerStreams ==
  ASSUME TypeOK, up # <<>>, NEW types \in Seq(Types), NEW by \in Owner \cup {None},
         Answer(types, by)
  PROVE  /\ up' \in Seq(Message) /\ Len(up') = Len(up) - 1 /\ Len(up) \in Nat \ {0}
         /\ \A i \in 1..(Len(up) - 1) : up'[i] = up[i + 1]
         /\ Len(up) = 1 => up' = <<>>
         /\ down' \in Seq(Message)
         /\ Len(down) \in Nat /\ Len(down') = Len(down) + Len(types)
         /\ \A i \in 1..Len(down') :
              \/ i \in 1..Len(down) /\ down'[i] = down[i]
              \/ i - Len(down) \in 1..Len(types) /\ down'[i].by = by
         /\ down = <<>> =>
              \A i \in 1..Len(types) : down'[i].type = types[i] /\ down'[i].by = by
<1> DEFINE msgs == [i \in 1..Len(types) |-> Msg(types[i], by)]
<1>1. up \in Seq(Message) /\ down \in Seq(Message) BY DEF TypeOK
<1>2. /\ msgs \in Seq(Message) /\ Len(msgs) = Len(types)
      /\ \A i \in 1..Len(types) : msgs[i].type = types[i] /\ msgs[i].by = by
  BY Answered
<1>3. up' = Tail(up) /\ down' = down \o msgs BY DEF Answer
<1> HIDE DEF msgs
<1>4. /\ up' \in Seq(Message) /\ Len(up') = Len(up) - 1 /\ Len(up) \in Nat \ {0}
      /\ \A i \in 1..(Len(up) - 1) : up'[i] = up[i + 1]
      /\ Len(up) = 1 => up' = <<>>
  BY <1>1, <1>3, ReadFirst
<1>5. /\ down' \in Seq(Message)
      /\ Len(down') = Len(down) + Len(msgs)
      /\ \A i \in 1..Len(down') :
           \/ i \in 1..Len(down) /\ down'[i] = down[i]
           \/ i - Len(down) \in 1..Len(msgs) /\ down'[i] = msgs[i - Len(down)]
      /\ down = <<>> => down' = msgs
  BY <1>1, <1>2, <1>3, Written
<1>6. Len(down) \in Nat BY SMTT(30), <1>1
<1> QED BY <1>2, <1>4, <1>5, <1>6

\* The backend authenticates GatewayD or refuses.
LEMMA AuthenticateStep == SessionInv /\ Authenticate => SessionInv'
<1> SUFFICES ASSUME SessionInv, Authenticate PROVE SessionInv' OBVIOUS
<1>0. /\ TypeOK /\ NothingToClosed /\ HandshakeInv /\ PooledInv /\ OwnedInv /\ ResetInv
      /\ up # <<>> /\ phase \notin {"ready", "closed"} /\ conn
      /\ UNCHANGED <<pc, fresh, retry, conn, ok, owner, asked, tx, state, left>>
  BY DEF SessionInv, TypeOK, Authenticate
<1>1. PooledInv' /\ OwnedInv' BY <1>0 DEF PooledInv, OwnedInv
<1>2. /\ Head(up) = up[1] /\ up[1] \in Message BY <1>0, ReadFirst DEF TypeOK
<1>3. ASSUME NEW types \in Seq(Types), NEW ph \in {"password", "initial", "response", "ready"},
             Answer(types, None), phase' = ph,
             Head(up).type # "Discard",
             ph = "ready" => types \in {<<"Ok", "Ready">>, <<"SASLFinal", "Ok", "Ready">>},
             ph # "ready" => Len(types) = 1 /\ types[1] # "Ready"
      PROVE  SessionInv'
  <2>1. /\ up' \in Seq(Message)
        /\ Len(up) = 1 => up' = <<>>
        /\ down' \in Seq(Message)
        /\ Len(down') = Len(down) + Len(types)
        /\ down = <<>> =>
             \A i \in 1..Len(types) : down'[i].type = types[i] /\ down'[i].by = None
    BY SMTT(30), <1>0, <1>3, AnswerStreams
  <2>2. TypeOK' /\ NothingToClosed' BY SMTT(30), <1>0, <1>3, <2>1 DEF TypeOK, NothingToClosed
  <2>3. HandshakeInv'
    <3>1. SUFFICES ASSUME pc \in {"startup", "continue", "final"} PROVE HandshakeInv'
      BY <1>0 DEF HandshakeInv
    <3>2. ~left /\ ~tx /\ state = None /\ Len(up) = 1 /\ down = <<>>
      BY <1>0, <3>1 DEF HandshakeInv
    <3>3. /\ up' = <<>> /\ Len(down') = Len(types)
          /\ \A i \in 1..Len(types) : down'[i].type = types[i] /\ down'[i].by = None
      BY SMTT(30), <2>1, <3>2
    <3>4. EndsReady(up') BY SMTT(30), <3>3 DEF EndsReady
    <3>5. CASE ph = "ready"
      <4>1. /\ \A i \in 1..Len(types) : types[i] = "Ready" => i = Len(types)
            /\ \A i \in 1..Len(types) : types[i] \in {"SASLFinal", "Ok", "Ready"}
        <5>1. CASE types = <<"Ok", "Ready">> BY SMTT(30), <5>1
        <5>2. CASE types = <<"SASLFinal", "Ok", "Ready">> BY SMTT(30), <5>2
        <5> QED BY <1>3, <3>5, <5>1, <5>2
      <4>2. EndsReady(down') BY <3>3, <4>1 DEF EndsReady
      <4> QED BY SMTT(30), <1>0, <1>3, <3>2, <3>3, <3>4, <3>5, <4>1, <4>2 DEF HandshakeInv
    <3>6. CASE ph # "ready"
      <4>1. EndsReady(down') BY SMTT(30), <1>3, <3>3, <3>6 DEF EndsReady
      <4> QED BY SMTT(30), <1>0, <1>3, <3>2, <3>3, <3>4, <3>6, <4>1 DEF HandshakeInv
    <3> QED BY <3>5, <3>6
  <2>4. ResetInv'
    <3>1. pc = "reset" => left
      <4>1. pc = "reset" /\ ~left => up = <<Own("Discard")>> BY <1>0 DEF ResetInv
      <4>2. "Discard" \in Types BY DEF Types
      <4>3. <<Own("Discard")>>[1].type = "Discard" BY <4>2, OwnMsg
      <4> QED BY <1>0, <1>2, <1>3, <4>1, <4>3 DEF TypeOK
    <3> QED BY <1>0, <3>1 DEF ResetInv
  <2> QED BY <1>1, <2>2, <2>3, <2>4 DEF SessionInv
<1>4. CASE up' = <<>> /\ down' = Append(down, Msg("Error", Head(up).by)) /\ phase' = "closed"
  <2> DEFINE m == Msg("Error", up[1].by)
  <2>1. m \in Message /\ m.type = "Error" /\ m.by = up[1].by
    <3>1. "Error" \in Types /\ up[1].by \in Owner \cup {None} BY <1>2 DEF Types, Message
    <3> QED BY <3>1, MsgType
  <2>2. down' = Append(down, m) BY <1>2, <1>4
  <2> HIDE DEF m
  <2>3. /\ down' \in Seq(Message) /\ <<>> \in Seq(Message)
        /\ down = <<>> => Len(down') = 1 /\ down'[1] = m
    BY SMTT(30), <1>0, <2>1, <2>2 DEF TypeOK
  <2>4. TypeOK' /\ NothingToClosed' BY <1>0, <1>4, <2>3 DEF TypeOK, NothingToClosed
  <2>5. ASSUME EndsReady(up), down = <<>> PROVE EndsReady(down') /\ EndsReady(up')
    <3>1. up[1].by = None BY SMTT(30), <1>0, <2>5 DEF EndsReady, TypeOK
    <3> QED BY SMTT(30), <1>4, <2>1, <2>3, <2>5, <3>1 DEF EndsReady
  <2>6. HandshakeInv' BY SMTT(30), <1>0, <1>4, <2>5 DEF HandshakeInv
  <2>7. ResetInv'
    <3>1. SUFFICES ASSUME pc = "reset", ~left PROVE ResetInv' BY <1>0 DEF ResetInv
    <3>2. up = <<Own("Discard")>> /\ down = <<>> BY <1>0, <3>1 DEF ResetInv
    <3>3. "Discard" \in Types BY DEF Types
    <3>4. EndsReady(up) BY <3>2, <3>3, OwnMsg
    <3> QED BY <1>0, <1>4, <2>5, <3>2, <3>4 DEF ResetInv
  <2> QED BY <1>1, <2>4, <2>6, <2>7 DEF SessionInv
<1>5. CASE /\ phase = "startup" /\ Head(up).type = "Startup"
           /\ \E m \in Methods \ {"trust"} :
                /\ Answer(<<m>>, None)
                /\ phase' = IF m \in {"cleartext", "md5"} THEN "password" ELSE "initial"
  <2>1. PICK m \in Methods \ {"trust"} :
          /\ Answer(<<m>>, None)
          /\ phase' = IF m \in {"cleartext", "md5"} THEN "password" ELSE "initial"
    BY <1>5
  <2>2. /\ <<m>> \in Seq(Types) /\ Len(<<m>>) = 1 /\ <<m>>[1] # "Ready"
        /\ phase' \in {"password", "initial"}
    BY SMTT(30), <2>1, SessionAssumption DEF Types, MethodKinds
  <2> QED BY <1>3, <1>5, <2>1, <2>2
<1>6. CASE Head(up).type # "Discard" /\ Answer(<<"Ok", "Ready">>, None) /\ phase' = "ready"
  <2>1. <<"Ok", "Ready">> \in Seq(Types) BY SMTT(30) DEF Types
  <2> QED BY <1>3, <1>6, <2>1
<1>7. CASE /\ phase = "initial" /\ Head(up).type = "SASLInitial"
           /\ Answer(<<"SASLContinue">>, None) /\ phase' = "response"
  <2>1. <<"SASLContinue">> \in Seq(Types) BY SMTT(30) DEF Types
  <2> QED BY <1>3, <1>7, <2>1
<1>8. CASE /\ phase = "response" /\ Head(up).type = "SASLResponse"
           /\ Answer(<<"SASLFinal", "Ok", "Ready">>, None) /\ phase' = "ready"
  <2>1. <<"SASLFinal", "Ok", "Ready">> \in Seq(Types) BY SMTT(30) DEF Types
  <2> QED BY <1>3, <1>8, <2>1
<1> QED BY <1>4, <1>5, <1>6, <1>7, <1>8 DEF Authenticate

\* The backend executes a query or DISCARD ALL.
LEMMA ExecuteStep == SessionInv /\ Execute => SessionInv'
<1> SUFFICES ASSUME SessionInv, Execute PROVE SessionInv' OBVIOUS
<1>0. /\ TypeOK /\ NothingToClosed /\ HandshakeInv /\ PooledInv /\ OwnedInv /\ ResetInv
      /\ up # <<>> /\ phase = "ready" /\ conn
      /\ UNCHANGED <<pc, fresh, retry, conn, ok, owner, asked, phase, left>>
  BY DEF SessionInv, TypeOK, Execute
<1>1. PooledInv' /\ HandshakeInv' BY <1>0 DEF PooledInv, HandshakeInv
<1>2. /\ Head(up) = up[1] /\ up[1] \in Message /\ up[1].by \in Owner \cup {None}
      /\ Len(up) \in Nat \ {0}
  <2>1. Head(up) = up[1] /\ up[1] \in Message /\ Len(up) \in Nat \ {0}
    BY <1>0, ReadFirst DEF TypeOK
  <2> QED BY <2>1 DEF Message
<1>3. pc = "reset" /\ ~left => up = <<Own("Discard")>> /\ down = <<>>
  BY <1>0 DEF ResetInv
<1>4. <<Own("Discard")>>[1].type = "Discard" /\ Len(<<Own("Discard")>>) = 1
  <2>1. "Discard" \in Types BY DEF Types
  <2> QED BY <2>1, OwnMsg
<1>5. ASSUME NEW type \in {"Complete", "Error"}, NEW by \in Owner \cup {None},
             Answer(<<type, "Ready">>, by),
             tx' \in BOOLEAN, state' \in Owner \cup {None},
             pc = "owned" /\ ok /\ ~left => by = owner,
             pc = "reset" /\ ~left =>
               by = None /\ (type # "Error" => ~tx' /\ state' = None)
      PROVE  SessionInv'
  <2>0. /\ pc = "owned" /\ ok /\ ~left => by = owner
        /\ pc = "reset" /\ ~left => by = None
        /\ type # "Ready"
    BY <1>5
  <2>1. <<type, "Ready">> \in Seq(Types) /\ Len(<<type, "Ready">>) = 2
    BY SMTT(30) DEF Types
  <2>2. /\ up' \in Seq(Message) /\ Len(up') = Len(up) - 1
        /\ \A i \in 1..(Len(up) - 1) : up'[i] = up[i + 1]
        /\ Len(up) = 1 => up' = <<>>
        /\ down' \in Seq(Message)
        /\ Len(down) \in Nat /\ Len(down') = Len(down) + 2
        /\ \A i \in 1..Len(down') :
             (i \in 1..Len(down) /\ down'[i] = down[i]) \/ down'[i].by = by
    <3> DEFINE types == <<type, "Ready">>
    <3>1. types \in Seq(Types) /\ Len(types) = 2 /\ Answer(types, by) BY <1>5, <2>1
    <3> HIDE DEF types
    <3> QED BY <1>0, <3>1, AnswerStreams
  <2>3. down = <<>> =>
          /\ down'[1].type = type /\ down'[2].type = "Ready"
          /\ down'[1].by = by /\ down'[2].by = by
    <3> DEFINE types == <<type, "Ready">>
    <3>1. types \in Seq(Types) /\ Len(types) = 2 /\ Answer(types, by) BY <1>5, <2>1
    <3>2. types[1] = type /\ types[2] = "Ready" OBVIOUS
    <3> HIDE DEF types
    <3>3. down = <<>> =>
            \A i \in 1..2 : down'[i].type = types[i] /\ down'[i].by = by
      BY SMTT(30), <1>0, <3>1, AnswerStreams
    <3> QED BY SMTT(30), <3>2, <3>3
  <2>4. TypeOK' /\ NothingToClosed' BY <1>0, <1>5, <2>2 DEF TypeOK, NothingToClosed
  <2>5. OwnedInv'
    <3>1. SUFFICES ASSUME pc = "owned", ok, ~left PROVE OwnedInv' BY <1>0 DEF OwnedInv
    <3>2. /\ \A i \in 1..Len(up) : up[i].by = owner /\ up[i].type = "Query"
          /\ \A i \in 1..Len(down) : down[i].by = owner
      BY <1>0, <3>1 DEF OwnedInv
    <3>3. \A i \in 1..Len(up') : up'[i].by = owner /\ up'[i].type = "Query"
      BY SMTT(30), <1>2, <2>2, <3>2
    <3>4. \A i \in 1..Len(down') : down'[i].by = owner
      BY <2>0, <2>2, <3>1, <3>2
    <3> QED BY <1>0, <3>3, <3>4 DEF OwnedInv
  <2>6. ResetInv'
    <3>1. SUFFICES ASSUME pc = "reset", ~left PROVE ResetInv' BY <1>0 DEF ResetInv
    <3>2. up' = <<>> /\ down = <<>> /\ Len(down') = 2
      BY SMTT(30), <1>3, <1>4, <2>2, <3>1
    <3>3. EndsReady(down') /\ down' # <<>> /\ down'[Len(down')].type = "Ready"
      BY SMTT(30), <2>0, <2>3, <3>1, <3>2 DEF EndsReady
    <3>4. down'[1].type # "Error" => ~tx' /\ state' = None BY <1>5, <2>3, <3>1, <3>2
    <3> QED BY <1>0, <3>2, <3>3, <3>4 DEF ResetInv
  <2> QED BY <1>1, <2>4, <2>5, <2>6 DEF SessionInv
<1>6. CASE /\ Head(up).type = "Query"
           /\ \E type \in {"Complete", "Error"} : Answer(<<type, "Ready">>, Head(up).by)
           /\ tx' \in BOOLEAN
           /\ state' = Head(up).by
  <2>1. pc = "owned" /\ ok /\ ~left => up[1].by = owner BY SMTT(30), <1>0, <1>2 DEF OwnedInv
  <2>2. ~(pc = "reset" /\ ~left) BY <1>2, <1>3, <1>4, <1>6
  <2> QED BY <1>2, <1>5, <1>6, <2>1, <2>2
<1>7. CASE /\ Head(up).type = "Discard"
           /\ \/ ~tx /\ Answer(<<"Complete", "Ready">>, None) /\ state' = None /\ tx' = FALSE
              \/ tx /\ Answer(<<"Error", "Ready">>, None) /\ UNCHANGED <<tx, state>>
  <2>1. ~(pc = "owned" /\ ok /\ ~left) BY SMTT(30), <1>0, <1>2, <1>7 DEF OwnedInv
  <2> QED BY <1>0, <1>5, <1>7, <2>1 DEF TypeOK
<1> QED BY <1>6, <1>7 DEF Execute

\* Every step of the goroutine and of the backend preserves the invariant.
LEMMA StepSession == SessionInv /\ [Next]_vars => SessionInv'
<1> SUFFICES ASSUME SessionInv, [Next]_vars PROVE SessionInv' OBVIOUS
<1>0. TypeOK /\ NothingToClosed /\ HandshakeInv /\ PooledInv /\ OwnedInv /\ ResetInv
  BY DEF SessionInv
<1>a. <<>> \in Seq(Message) BY SMTT(30)
<1>1. CASE DialSucceeds
  <2>1. "Startup" \in Types BY DEF Types
  <2>2. /\ <<Own("Startup")>> \in Seq(Message) /\ Len(<<Own("Startup")>>) = 1
        /\ EndsReady(<<Own("Startup")>>) /\ <<Own("Startup")>>[1].type = "Startup"
    BY <2>1, OwnMsg
  <2> DEFINE msgs == <<Own("Startup")>>
  <2>3. up' = msgs /\ 0 \in 0..Retries BY SMTT(30), <1>1, SessionAssumption DEF DialSucceeds
  <2> HIDE DEF msgs
  <2>4. TypeOK' /\ NothingToClosed'
    BY <1>0, <1>1, <1>a, <2>2, <2>3 DEF TypeOK, NothingToClosed, DialSucceeds, msgs
  <2>5. HandshakeInv'
    <3>1. EndsReady(<<>>) BY SMTT(30) DEF EndsReady
    <3>2. /\ Len(up') = 1 /\ EndsReady(up')
          /\ \A i \in 1..Len(up') : up'[i].type \notin {"Query", "Discard"}
      BY SMTT(30), <2>2, <2>3 DEF msgs
    <3> QED BY SMTT(30), <1>1, <3>1, <3>2 DEF HandshakeInv, DialSucceeds
  <2> QED BY <1>1, <2>4, <2>5 DEF SessionInv, DialSucceeds, PooledInv, OwnedInv, ResetInv
<1>2. CASE DialFails
  <2>1. retry' \in 0..Retries BY SMTT(30), <1>0, <1>2, SessionAssumption DEF TypeOK, DialFails
  <2>2. /\ pc = "dial" /\ UNCHANGED <<fresh, conn, owner, asked, up, down, phase, tx, state, left>>
        /\ \/ UNCHANGED <<pc, ok>>
           \/ pc' \in {"nil", "pooled"} /\ ok' = FALSE
    BY <1>2 DEF DialFails, backend
  <2>3. TypeOK' /\ NothingToClosed' BY <1>0, <2>1, <2>2 DEF TypeOK, NothingToClosed
  <2> QED BY <2>2, <2>3 DEF SessionInv, HandshakeInv, PooledInv, OwnedInv, ResetInv
<1>3. CASE Handshake
  BY <1>3, StartupReceiveStep, StartupFailsStep DEF Handshake, StartupError
<1>4. CASE HealthCheck
  <2>1. pc' = "dial" /\ UNCHANGED <<retry, conn, ok, owner, asked, up, down, phase, tx, state, left>>
    BY <1>4 DEF HealthCheck, backend
  <2>2. TypeOK' /\ NothingToClosed' BY <1>0, <1>4, <2>1 DEF TypeOK, NothingToClosed, HealthCheck
  <2> QED BY <2>1, <2>2 DEF SessionInv, HandshakeInv, PooledInv, OwnedInv, ResetInv
<1>5. CASE Relay BY <1>5, RelayStep
<1>6. CASE Disconnect BY <1>6, DisconnectStep
<1>7. CASE ResetSession
  BY <1>7, ResetReceiveStep, ReconnectStep DEF ResetSession, ResetError
<1>8. ASSUME NEW n \in Owner, Connect(n) PROVE SessionInv'
  <2>1. /\ pc = "pooled" /\ pc' = "owned"
        /\ UNCHANGED <<fresh, retry, conn, ok, up, down, phase, tx, state, left>>
        /\ owner' = n /\ asked' = 0 /\ asked' \in 0..MaxQueries
    BY SMTT(30), <1>8, SessionAssumption DEF Connect, backend
  <2>2. TypeOK' /\ NothingToClosed' BY <1>0, <2>1 DEF TypeOK, NothingToClosed
  <2>3. OwnedInv' BY SMTT(30), <1>0, <2>1 DEF PooledInv, OwnedInv
  <2> QED BY <2>1, <2>2, <2>3 DEF SessionInv, HandshakeInv, PooledInv, ResetInv
<1>9. CASE Authenticate BY <1>9, AuthenticateStep
<1>10. CASE Execute BY <1>10, ExecuteStep
<1>11. CASE BackendCloses
  <2>1. /\ phase' = "closed" /\ up' = <<>>
        /\ UNCHANGED <<pc, fresh, retry, conn, ok, owner, asked, down, tx, state, left>>
    BY <1>11 DEF BackendCloses
  <2>2. TypeOK' /\ NothingToClosed' BY <1>0, <1>a, <2>1 DEF TypeOK, NothingToClosed
  <2>3. EndsReady(<<>>) BY SMTT(30) DEF EndsReady
  <2>4. HandshakeInv' BY SMTT(30), <1>0, <2>1, <2>3 DEF HandshakeInv
  <2>5. PooledInv' BY <1>0, <2>1 DEF PooledInv
  <2>6. OwnedInv' BY SMTT(30), <1>0, <2>1 DEF OwnedInv
  <2>7. ResetInv' BY <1>0, <2>1 DEF ResetInv
  <2> QED BY <2>2, <2>4, <2>5, <2>6, <2>7 DEF SessionInv
<1>12. CASE UNCHANGED vars
  BY SMTT(30), <1>0, <1>12
  DEF vars, SessionInv, TypeOK, NothingToClosed, HandshakeInv, PooledInv, OwnedInv, ResetInv
<1> QED
  BY <1>1, <1>2, <1>3, <1>4, <1>5, <1>6, <1>7, <1>8, <1>9, <1>10, <1>11, <1>12 DEF Next

\* The invariant holds in every state.
THEOREM SessionInvariant == Spec => []SessionInv
  BY InitSession, StepSession, PTL DEF Spec

\* The variables keep their types, and a client that is not connected has no
\* stream: NewClient and Reconnect never leave one half made.
THEOREM SessionTyped == Spec => []TypeOK
<1>1. SessionInv => TypeOK BY DEF SessionInv
<1> QED BY <1>1, SessionInvariant, PTL

\* A connection that pgStartup or pgResetSession returned without an error is
\* idle and clean in the pool, unless an owner left before its answers arrived.
THEOREM PooledConnectionIdle == Spec => []PooledIdle
<1>1. SessionInv => PooledIdle BY DEF SessionInv, PooledInv, PooledIdle
<1> QED BY <1>1, SessionInvariant, PTL

\* The owner of such a connection is sent the answers to its own queries alone.
THEOREM OwnAnswersOnly == Spec => []NoCrossTalk
<1>1. SessionInv => NoCrossTalk
  <2>1. SUFFICES ASSUME SessionInv, pc = "owned", ok, ~left,
                        NEW m \in ToSet(up) \cup ToSet(down)
                 PROVE  m.by = owner
    BY DEF NoCrossTalk
  <2>2. DOMAIN up = 1..Len(up) /\ DOMAIN down = 1..Len(down)
    BY SMTT(30), <2>1 DEF SessionInv, TypeOK
  <2> QED BY <2>1, <2>2 DEF SessionInv, OwnedInv, ToSet
<1> QED BY <1>1, SessionInvariant, PTL

=============================================================================
