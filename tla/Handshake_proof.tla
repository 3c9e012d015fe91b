-------------------------- MODULE Handshake_proof --------------------------
(***************************************************************************)
(* Theorems of Handshake, for every set of server versions and any number  *)
(* of calls.  The invariant says, for each place the client can be in,     *)
(* which messages are on the way and where the server is: the exchange is  *)
(* a dialogue, but for the first call, which may be behind the Addendum.   *)
(***************************************************************************)
EXTENDS Handshake, SequenceTheorems, TLAPS

Agreed == Negotiated(ClientVersion, version)
Sending == Negotiate(recvPref, ClientPref)
Receiving == Negotiate(sendPref, ClientPref)

HelloMsg ==
  [type |-> "Hello", framed |-> FALSE, body |-> [version |-> ClientVersion]]

AnswerMsg ==
  [type |-> "Hello", framed |-> FALSE,
   body |-> [fields |-> HelloWritten(Agreed), version |-> version,
             send |-> sendPref, recv |-> recvPref]]

RefusalMsg == [type |-> "Exception", framed |-> FALSE, body |-> <<>>]

AddendumMsg ==
  [type |-> "Addendum", framed |-> FALSE,
   body |-> [fields |-> AddendumFields(Agreed),
             send |-> Sending, recv |-> Receiving]]

PingMsg == [type |-> "Ping", framed |-> write_chunked, body |-> <<>>]
PongMsg == [type |-> "Pong", framed |-> read_chunked, body |-> <<>>]

Plain ==
  /\ protocol = ClientVersion
  /\ read_chunked = FALSE /\ write_chunked = FALSE
  /\ srvReadChunked = FALSE /\ srvWriteChunked = FALSE

Fresh ==
  pc = "start" /\ srv = "accept" /\ Plain /\ c2s = <<>> /\ s2c = <<>>

Asked ==
  /\ pc = "hello" /\ Plain
  /\ \/ srv = "accept" /\ c2s = <<HelloMsg>> /\ s2c = <<>>
     \/ srv = "refused" /\ c2s = <<>> /\ s2c = <<RefusalMsg>>
     \/ /\ srv = "addendum" /\ srvProtocol = Agreed
        /\ c2s = <<>> /\ s2c = <<AnswerMsg>>

Rejected == pc = "failed" /\ srv = "refused" /\ c2s = <<>> /\ s2c = <<>>

Chosen ==
  /\ protocol = Agreed /\ srvProtocol = Agreed
  /\ write_chunked = (Sending = "chunked")
  /\ read_chunked = (Receiving = "chunked")

(* The server has not read the Addendum yet. *)
Ahead ==
  /\ srv = "addendum" /\ Chosen /\ s2c = <<>>
  /\ srvReadChunked = FALSE /\ srvWriteChunked = FALSE
  /\ \/ pc = "ready" /\ c2s = <<AddendumMsg>>
     \/ pc = "ping" /\ c2s = <<AddendumMsg, PingMsg>>

Through ==
  /\ srv = "serving" /\ Chosen
  /\ srvReadChunked = write_chunked /\ srvWriteChunked = read_chunked
  /\ \/ pc = "ready" /\ c2s = <<>> /\ s2c = <<>>
     \/ pc = "ping" /\ c2s = <<PingMsg>> /\ s2c = <<>>
     \/ pc = "ping" /\ c2s = <<>> /\ s2c = <<PongMsg>>

Server ==
  version \in ServerVersions /\ sendPref \in Preferences
    /\ recvPref \in Preferences

Inv == Server /\ (Fresh \/ Asked \/ Rejected \/ Ahead \/ Through)

-----------------------------------------------------------------------------
(* The queues of the exchange hold two messages at most. *)
LEMMA ShortQueues ==
  ASSUME NEW m, NEW n
  PROVE  /\ Append(<<>>, m) = <<m>> /\ Append(<<m>>, n) = <<m, n>>
         /\ Head(<<m>>) = m /\ Head(<<m, n>>) = m
         /\ Tail(<<m>>) = <<>> /\ Tail(<<m, n>>) = <<n>>
<1>1. Append(<<>>, m) = <<m>>
  OBVIOUS
<1>2. Append(<<m>>, n) = <<m, n>>
  <2> DEFINE S == {m, n}
  <2>1. <<m>> \in Seq(S) /\ <<m, n>> \in Seq(S) /\ n \in S
    OBVIOUS
  <2> HIDE DEF S
  <2>2. /\ Append(<<m>>, n) \in Seq(S)
        /\ Len(Append(<<m>>, n)) = Len(<<m>>) + 1
        /\ \A i \in 1..Len(<<m>>) : Append(<<m>>, n)[i] = <<m>>[i]
        /\ Append(<<m>>, n)[Len(<<m>>) + 1] = n
    BY <2>1, AppendProperties
  <2>3. /\ Len(Append(<<m>>, n)) = 2
        /\ Append(<<m>>, n)[1] = m /\ Append(<<m>>, n)[2] = n
    <3>1. Len(<<m>>) = 1 /\ <<m>>[1] = m
      OBVIOUS
    <3> QED BY <2>2, <3>1
  <2>4. Len(<<m, n>>) = 2 /\ <<m, n>>[1] = m /\ <<m, n>>[2] = n
    OBVIOUS
  <2>5. \A i \in 1..Len(Append(<<m>>, n)) : Append(<<m>>, n)[i] = <<m, n>>[i]
    BY <2>3, <2>4
  <2> QED BY ONLY <2>1, <2>2, <2>3, <2>4, <2>5, SeqEqual, Zenon
<1>3. Head(<<m>>) = m /\ Head(<<m, n>>) = m
  OBVIOUS
<1>4. Tail(<<m>>) = <<>>
  OBVIOUS
<1>5. Tail(<<m, n>>) = <<n>>
  OBVIOUS
<1> QED BY <1>1, <1>2, <1>3, <1>4, <1>5

(* With a client that prefers chunked, the outcome is a mode, is chunked   *)
(* unless the server insists, and is one the server accepts in its turn.   *)
LEMMA NegotiateAgrees ==
  ASSUME NEW pref \in Preferences
  PROVE  /\ Negotiate(pref, ClientPref) \in Modes
         /\ Negotiate(pref, ClientPref) # Incompatible
         /\ Negotiate(pref, ClientPref) = "chunked" <=> pref # "notchunked"
         /\ Negotiate(pref, Negotiate(pref, ClientPref))
              = Negotiate(pref, ClientPref)
BY DEF Preferences, Modes, Negotiate, ClientPref, Incompatible, Optional,
       WantsChunked

(* Every version modelled has the Addendum and the chunked protocol. *)
LEMMA AgreedIsRecent ==
  ASSUME Server
  PROVE  /\ Agreed \in Nat
         /\ InVersion(ADDENDUM, Agreed) /\ InVersion(CHUNKED_PROTOCOL, Agreed)
BY ServerVersionsAssumption
   DEF Server, Agreed, Negotiated, InVersion, ADDENDUM, CHUNKED_PROTOCOL,
       ClientVersion, PROGRESS_IN_ASYNC_INSERT,
       VERSIONED_PARALLEL_REPLICAS_PROTOCOL

LEMMA InvInit == Init => Inv
BY DEF Init, Inv, Server, Fresh, Plain

LEMMA InvStep == Inv /\ [Next]_vars => Inv'
<1> SUFFICES ASSUME Inv, [Next]_vars PROVE Inv'
  OBVIOUS
<1>1. /\ Server
      /\ Negotiate(recvPref, Sending) = Sending
      /\ Negotiate(sendPref, Receiving) = Receiving
      /\ Sending # Incompatible /\ Receiving # Incompatible
  BY NegotiateAgrees DEF Inv, Server, Sending, Receiving
<1>2. InVersion(ADDENDUM, Agreed) /\ InVersion(CHUNKED_PROTOCOL, Agreed)
  BY <1>1, AgreedIsRecent
<1>3. CASE SendHello
  <2>1. Fresh
    BY <1>3 DEF Inv, SendHello, Fresh, Asked, Rejected, Ahead, Through
  <2>2. c2s' = <<HelloMsg>>
    BY <1>3, <2>1, ShortQueues DEF SendHello, Send, Fresh, Plain, HelloMsg
  <2>3. Asked' /\ Server'
    BY <1>1, <1>3, <2>1, <2>2
       DEF SendHello, Fresh, Asked, Plain, Server, framing, server, traits,
           HelloMsg
  <2> QED BY <2>3 DEF Inv
<1>4. CASE ReadHello
  <2>1. Asked /\ srv = "addendum" /\ c2s = <<>> /\ s2c = <<AnswerMsg>>
    BY <1>4 DEF Inv, ReadHello, Arrived, Fresh, Asked, Rejected, Ahead,
                Through, RefusalMsg
  <2>2. /\ Head(s2c).body.version = version
        /\ Head(s2c).body.send = sendPref
        /\ Head(s2c).body.recv = recvPref
    BY <2>1 DEF AnswerMsg
  <2>3. Negotiated(protocol, Head(s2c).body.version) = Agreed
    BY <2>1, <2>2 DEF Asked, Plain, Agreed
  <2>4. /\ SendMode(Head(s2c).body, Agreed) = Sending
        /\ RecvMode(Head(s2c).body, Agreed) = Receiving
    BY <1>2, <2>2 DEF SendMode, RecvMode, Sending, Receiving
  <2>5. /\ pc' = "ready" /\ protocol' = Agreed /\ s2c' = <<>>
        /\ SendAddendum(Sending, Receiving, Agreed)
        /\ Flip(Sending, Receiving)
        /\ UNCHANGED <<pings, traits, server>>
    BY <1>1, <1>4, <2>1, <2>3, <2>4 DEF ReadHello
  <2>6. c2s' = <<AddendumMsg>>
    BY <1>2, <2>1, <2>5, ShortQueues DEF SendAddendum, Send, AddendumMsg, Asked, Plain
  <2>7. UNCHANGED <<Agreed, Sending, Receiving, AddendumMsg>>
    BY <2>5 DEF traits, Agreed, Sending, Receiving, AddendumMsg
  <2>8. Ahead' /\ Server'
    BY <1>1, <2>1, <2>5, <2>6, <2>7
       DEF Ahead, Chosen, Flip, Asked, Plain, Server, server, traits
  <2> QED BY <2>8 DEF Inv
<1>5. CASE ReadRefusal
  <2>1. Asked /\ srv = "refused" /\ c2s = <<>> /\ s2c = <<RefusalMsg>>
    BY <1>5 DEF Inv, ReadRefusal, Arrived, Fresh, Asked, Rejected, Ahead,
                Through, AnswerMsg
  <2>2. Rejected' /\ Server'
    BY <1>1, <1>5, <2>1 DEF ReadRefusal, Rejected, Server, server, traits
  <2> QED BY <2>2 DEF Inv
<1>6. CASE Ping
  <2>1. c2s' = Append(c2s, PingMsg)
    BY <1>6 DEF Ping, Send, PingMsg
  <2>2. UNCHANGED <<Agreed, Sending, Receiving, AddendumMsg, PingMsg>>
    BY <1>6 DEF Ping, traits, framing, Agreed, Sending, Receiving,
                AddendumMsg, PingMsg
  <2>3. CASE Ahead
    <3>1. c2s' = <<AddendumMsg, PingMsg>>
      BY <1>6, <2>1, <2>3, ShortQueues DEF Ping, Ahead
    <3>2. Ahead' /\ Server'
      BY <1>1, <1>6, <2>2, <2>3, <3>1
         DEF Ping, Ahead, Chosen, Server, framing, server, traits
    <3> QED BY <3>2 DEF Inv
  <2>4. CASE Through
    <3>1. c2s' = <<PingMsg>>
      BY <1>6, <2>1, <2>4 DEF Ping, Through
    <3>2. Through' /\ Server'
      BY <1>1, <1>6, <2>2, <2>4, <3>1
         DEF Ping, Through, Chosen, Server, framing, server, traits
    <3> QED BY <3>2 DEF Inv
  <2> QED BY <1>6, <2>3, <2>4 DEF Inv, Ping, Fresh, Asked, Rejected
<1>7. CASE ReadPong
  <2>1. Through /\ c2s = <<>> /\ s2c = <<PongMsg>>
    BY <1>7 DEF Inv, ReadPong, Arrived, Fresh, Asked, Rejected, Ahead,
                Through
  <2>2. pc' = "ready" /\ s2c' = <<>>
    BY <1>7, <2>1 DEF ReadPong, PongMsg
  <2>3. UNCHANGED <<Agreed, Sending, Receiving>>
    BY <1>7 DEF ReadPong, traits, Agreed, Sending, Receiving
  <2>4. Through' /\ Server'
    BY <1>1, <1>7, <2>1, <2>2, <2>3
       DEF ReadPong, Through, Chosen, Server, framing, server, traits
  <2> QED BY <2>4 DEF Inv
<1>8. CASE AcceptHello
  <2>1. Asked /\ srv = "accept" /\ c2s = <<HelloMsg>> /\ s2c = <<>>
    BY <1>8 DEF Inv, AcceptHello, Arrived, Fresh, Asked, Rejected, Ahead,
                Through
  <2>2. srvProtocol' = Agreed
    BY <1>8, <2>1 DEF AcceptHello, HelloMsg, Agreed
  <2>3. UNCHANGED <<Agreed, AnswerMsg>>
    BY <1>8 DEF AcceptHello, traits, Agreed, AnswerMsg
  <2>4. s2c' = <<AnswerMsg>> /\ c2s' = <<>> /\ srv' = "addendum"
    BY <1>2, <1>8, <2>1, <2>2, ShortQueues
       DEF AcceptHello, Send, AnswerMsg, Asked, Plain
  <2>5. Asked' /\ Server'
    BY <1>1, <1>8, <2>1, <2>2, <2>3, <2>4
       DEF AcceptHello, Asked, Plain, Server, client, framing, traits
  <2> QED BY <2>5 DEF Inv
<1>9. CASE Refuse
  <2>1. Asked /\ c2s = <<HelloMsg>> /\ s2c = <<>>
    BY <1>9 DEF Inv, Refuse, Arrived, Fresh, Asked, Rejected, Ahead, Through
  <2>2. c2s' = <<>> /\ s2c' = <<RefusalMsg>>
    BY <1>9, <2>1, ShortQueues DEF Refuse, Send, RefusalMsg, Asked, Plain
  <2>3. Asked' /\ Server'
    BY <1>1, <1>9, <2>1, <2>2
       DEF Refuse, Asked, Plain, Server, client, framing, traits, RefusalMsg
  <2> QED BY <2>3 DEF Inv
<1>10. CASE TakeAddendum
  <2>1. Ahead
    BY <1>10 DEF Inv, TakeAddendum, Arrived, Fresh, Asked, Rejected, Ahead,
                 Through
  <2>2. UNCHANGED <<Agreed, Sending, Receiving, PingMsg>>
    BY <1>10 DEF TakeAddendum, client, framing, traits, Agreed, Sending,
                 Receiving, PingMsg
  <2> DEFINE m == Head(c2s)
  <2>3a. m = AddendumMsg
    BY <2>1, ShortQueues DEF Ahead
  <2>3b. /\ m.framed = FALSE
         /\ m.body.fields = AddendumFields(srvProtocol)
         /\ m.body.send = Sending /\ m.body.recv = Receiving
    BY <2>1, <2>3a DEF AddendumMsg, Ahead, Chosen
  <2>3. /\ srv' = "serving"
        /\ srvReadChunked' = (Sending = "chunked")
        /\ srvWriteChunked' = (Receiving = "chunked")
    BY <1>1, <1>10, <2>1, <2>3b DEF TakeAddendum, Ahead, Understood
  <2>4a. c2s' = Tail(c2s)
    BY <1>10 DEF TakeAddendum
  <2>4. \/ pc = "ready" /\ c2s' = <<>>
        \/ pc = "ping" /\ c2s' = <<PingMsg>>
    <3>1. \/ pc = "ready" /\ c2s = <<AddendumMsg>>
          \/ pc = "ping" /\ c2s = <<AddendumMsg, PingMsg>>
      BY <2>1, Zenon DEF Ahead
    <3>2. Tail(<<AddendumMsg>>) = <<>> /\ Tail(<<AddendumMsg, PingMsg>>) = <<PingMsg>>
      BY ShortQueues, Zenon
    <3> QED BY <2>4a, <3>1, <3>2, Zenon
  <2>5. Through' /\ Server'
    BY <1>1, <1>10, <2>1, <2>2, <2>3, <2>4
       DEF TakeAddendum, Ahead, Through, Chosen, Server, client, framing,
           traits
  <2> QED BY <2>5 DEF Inv
<1>11. CASE AnswerPing
  <2>1. Through /\ c2s = <<PingMsg>> /\ s2c = <<>>
    BY <1>11 DEF Inv, AnswerPing, Arrived, Fresh, Asked, Rejected, Ahead,
                 Through
  <2>2. UNCHANGED <<Agreed, Sending, Receiving, PongMsg>>
    BY <1>11 DEF AnswerPing, client, framing, traits, Agreed, Sending,
                 Receiving, PongMsg
  <2>3. c2s' = <<>> /\ s2c' = <<PongMsg>> /\ srv' = srv
    BY <1>11, <2>1
       DEF AnswerPing, Through, Understood, PingMsg, PongMsg, Send
  <2>4. Through' /\ Server'
    BY <1>1, <1>11, <2>1, <2>2, <2>3
       DEF AnswerPing, Through, Chosen, Server, client, framing, traits
  <2> QED BY <2>4 DEF Inv
<1>12. CASE UNCHANGED vars
  BY <1>12 DEF vars, client, framing, traits, server, Inv, Server, Fresh,
     Asked, Rejected, Ahead, Through, Plain, Chosen, Agreed, Sending,
     Receiving, HelloMsg, AnswerMsg, RefusalMsg, AddendumMsg, PingMsg, PongMsg
<1> QED
  BY <1>3, <1>4, <1>5, <1>6, <1>7, <1>8, <1>9, <1>10, <1>11, <1>12
     DEF Next, ClientStep, ServerStep

LEMMA Invariance == Spec => []Inv
<1> QED BY InvInit, InvStep, PTL DEF Spec

-----------------------------------------------------------------------------
(* No message is read in another framing than it was written in, and no    *)
(* server turns down the framing the client has chosen.                    *)
THEOREM FramingUnderstood == Spec => []NothingGarbled
<1>1. Inv => NothingGarbled
  BY DEF Inv, NothingGarbled, Fresh, Asked, Rejected, Ahead, Through
<1> QED BY <1>1, Invariance, PTL

(* Client and server end the handshake with one version and, in each       *)
(* direction, one framing.                                                 *)
THEOREM Agreement == Spec => []EndsAgree
<1>1. Inv => EndsAgree
  BY DEF Inv, EndsAgree, Fresh, Asked, Rejected, Ahead, Through, Chosen
<1> QED BY <1>1, Invariance, PTL

(* What they agree on is what both sides asked for. *)
THEOREM Choice == Spec => []ModesAreTheServersOrChunked
<1>1. Inv => ModesAreTheServersOrChunked
  BY NegotiateAgrees
     DEF Inv, ModesAreTheServersOrChunked, Server, Fresh, Asked, Rejected,
         Ahead, Through, Chosen, Agreed, Sending, Receiving
<1> QED BY <1>1, Invariance, PTL

(* What Inv does not say of the variables, as it does not matter for the   *)
(* exchange.                                                               *)
Typed ==
  /\ protocol \in Nat /\ pings \in Nat /\ srvProtocol \in Nat
  /\ proto_send_chunked \in Modes /\ proto_recv_chunked \in Modes
  /\ read_chunked \in BOOLEAN /\ write_chunked \in BOOLEAN
  /\ srvReadChunked \in BOOLEAN /\ srvWriteChunked \in BOOLEAN

LEMMA TypedStep == Inv /\ Typed /\ [Next]_vars => Typed'
<1> SUFFICES ASSUME Inv, Typed, [Next]_vars PROVE Typed'
  OBVIOUS
<1>1. Agreed \in Nat /\ Sending \in Modes /\ Receiving \in Modes
  BY AgreedIsRecent, NegotiateAgrees DEF Inv, Server, Sending, Receiving
<1>2. CASE SendHello
  BY <1>2 DEF SendHello, Typed, framing, server
<1>3. CASE ReadHello
  <2> DEFINE hello == Head(s2c).body
  <2>1. Asked /\ s2c = <<AnswerMsg>>
    BY <1>3 DEF Inv, ReadHello, Arrived, Fresh, Asked, Rejected, Ahead,
                Through, RefusalMsg
  <2>2. /\ hello.version = version /\ hello.send = sendPref
        /\ hello.recv = recvPref
    BY <2>1 DEF AnswerMsg
  <2>3. Negotiated(protocol, hello.version) = Agreed
    BY <2>1, <2>2 DEF Asked, Plain, Agreed
  <2>4. SendMode(hello, Agreed) = Sending /\ RecvMode(hello, Agreed) = Receiving
    BY <2>2, AgreedIsRecent DEF Inv, SendMode, RecvMode, Sending, Receiving
  <2>5. /\ protocol' = Agreed
        /\ UNCHANGED framing \/ Flip(Sending, Receiving)
        /\ UNCHANGED <<pings, server>>
    BY <1>3, <2>3, <2>4 DEF ReadHello
  <2> QED BY <1>1, <2>5 DEF Flip, framing, server, Typed
<1>4. CASE ReadRefusal
  BY <1>4 DEF ReadRefusal, Typed, framing, server
<1>5. CASE Ping
  BY <1>5 DEF Ping, Typed, framing, server
<1>6. CASE ReadPong
  BY <1>6 DEF ReadPong, Typed, framing, server
<1>7. CASE AcceptHello
  <2>1. c2s = <<HelloMsg>>
    BY <1>7 DEF Inv, AcceptHello, Arrived, Fresh, Asked, Rejected, Ahead,
                Through
  <2>2. srvProtocol' = Agreed
    BY <1>7, <2>1 DEF AcceptHello, HelloMsg, Agreed
  <2> QED BY <1>1, <1>7, <2>2 DEF AcceptHello, Typed, client, framing
<1>8. CASE Refuse
  BY <1>8 DEF Refuse, Typed, client, framing
<1>9. CASE TakeAddendum
  BY <1>9 DEF TakeAddendum, Typed, client, framing
<1>10. CASE AnswerPing
  BY <1>10 DEF AnswerPing, Typed, client, framing
<1>11. CASE UNCHANGED vars
  BY <1>11 DEF vars, client, framing, server, Typed
<1> QED
  BY <1>2, <1>3, <1>4, <1>5, <1>6, <1>7, <1>8, <1>9, <1>10, <1>11
     DEF Next, ClientStep, ServerStep

(* The variables keep their types, and each stream only ever carries the   *)
(* messages of its direction.                                              *)
THEOREM Typing == Spec => []TypeOK
<1>1. Init => Typed
  <2> SUFFICES ASSUME Init PROVE Typed
    OBVIOUS
  <2>1. protocol \in Nat /\ pings \in Nat /\ srvProtocol \in Nat
    BY SMT DEF Init, ClientVersion, PROGRESS_IN_ASYNC_INSERT
  <2>2. /\ read_chunked \in BOOLEAN /\ write_chunked \in BOOLEAN
        /\ srvReadChunked \in BOOLEAN /\ srvWriteChunked \in BOOLEAN
    BY Zenon DEF Init
  <2>3. proto_send_chunked \in Modes /\ proto_recv_chunked \in Modes
    BY DEF Init, Modes
  <2> QED BY <2>1, <2>2, <2>3 DEF Typed
<1>2. Inv /\ Typed => TypeOK
  <2> SUFFICES ASSUME Inv, Typed PROVE TypeOK
    OBVIOUS
  <2>1. /\ pc \in {"start", "hello", "ready", "ping", "failed"}
        /\ srv \in {"accept", "addendum", "serving", "refused"}
        /\ c2s \in {<<>>, <<HelloMsg>>, <<AddendumMsg>>, <<PingMsg>>,
                    <<AddendumMsg, PingMsg>>}
        /\ s2c \in {<<>>, <<AnswerMsg>>, <<RefusalMsg>>, <<PongMsg>>}
    BY DEF Inv, Fresh, Asked, Rejected, Ahead, Through
  <2>2. \A i \in DOMAIN c2s : c2s[i].type \in {"Hello", "Addendum", "Ping"}
    BY <2>1 DEF HelloMsg, AddendumMsg, PingMsg
  <2>3. \A i \in DOMAIN s2c : s2c[i].type \in {"Hello", "Exception", "Pong"}
    BY <2>1 DEF AnswerMsg, RefusalMsg, PongMsg
  <2> QED BY <2>1, <2>2, <2>3 DEF Inv, Server, Typed, TypeOK
<1>3. Spec => []Typed
  BY <1>1, TypedStep, Invariance, PTL DEF Spec
<1> QED BY <1>2, <1>3, Invariance, PTL
=============================================================================
