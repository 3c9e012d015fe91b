----------------------------- MODULE Handshake -----------------------------
(***************************************************************************)
(* Connection::connect and the handshake (src/client.rs), against the      *)
(* server's side of it (external, NATIVE_PROTOCOL.md 4.1, 5.2, 6.1-6.3):   *)
(* the two Hellos, the choice of a protocol version and of the framing of  *)
(* each direction, the Addendum, the switch of framing right behind it,    *)
(* and the first calls, made without waiting for the server to have read   *)
(* the Addendum.                                                           *)
(*                                                                         *)
(* A Hello's body is the list of the fields it consists of, in wire order. *)
(* The client decodes the ServerHello by the version it declared itself;   *)
(* the server writes it by the smaller version.  If the bytes stop short   *)
(* the client waits for the rest.  A server older than 54471 leaves a      *)
(* field out of the middle, after which anything may be read: not modelled.*)
(***************************************************************************)
EXTENDS Feature, Sequences

CONSTANTS
  ServerVersions,   \* versions the server may have
  MaxPings          \* bound: calls after the handshake

ASSUME ServerVersionsAssumption ==
  ServerVersions \subseteq
    {v \in Nat : InVersion(VERSIONED_PARALLEL_REPLICAS_PROTOCOL, v)}
ASSUME MaxPingsAssumption == MaxPings \in Nat

Preferences == {"chunked", "notchunked", "chunked_optional",
                "notchunked_optional"}
Modes == {"chunked", "notchunked"}

VARIABLES
  \* Connection
  pc, protocol, proto_send_chunked, proto_recv_chunked,
  read_chunked, write_chunked, pings,
  \* the streams
  c2s, s2c,
  \* the server
  srv, version, sendPref, recvPref, srvProtocol, srvReadChunked,
  srvWriteChunked

framing == <<proto_send_chunked, proto_recv_chunked, read_chunked,
             write_chunked>>
client  == <<pc, protocol, framing, pings>>
traits  == <<version, sendPref, recvPref>>
server  == <<srv, srvProtocol, srvReadChunked, srvWriteChunked>>
vars    == <<client, c2s, s2c, traits, server>>

-----------------------------------------------------------------------------
(* Fields. *)

Gated(feature, v, fields) == IF InVersion(feature, v) THEN fields ELSE <<>>

(* ServerHello::encode at a version. *)
HelloWritten(v) ==
  <<"name", "version_major", "version_minor", "protocol_version">>
    \o Gated(VERSIONED_PARALLEL_REPLICAS_PROTOCOL, v,
             <<"parallel_replicas_protocol_version">>)
    \o Gated(TIMEZONE, v, <<"timezone">>)
    \o Gated(DISPLAY_NAME, v, <<"display_name">>)
    \o Gated(VERSION_PATCH, v, <<"version_patch">>)
    \o Gated(CHUNKED_PROTOCOL, v,
             <<"proto_send_chunked_srv", "proto_recv_chunked_srv">>)
    \o Gated(PASSWORD_COMPLEXITY_RULES, v, <<"password_complexity_rules">>)
    \o Gated(INTERSERVER_SECRET_V2, v, <<"nonce">>)
    \o Gated(SERVER_SETTINGS, v, <<"server_settings">>)
    \o Gated(QUERY_PLAN_SERIALIZATION, v,
             <<"query_plan_serialization_version">>)
    \o Gated(VERSIONED_CLUSTER_FUNCTION_PROTOCOL, v,
             <<"cluster_function_protocol_version">>)

(* Bug: a field read without its version gate. *)
HelloRead_Ungated(v) == HelloWritten(v) \o <<"ungated">>

(* ServerHello::decode at a version. *)
HelloRead(v) ==
  <<"name", "version_major", "version_minor", "protocol_version">>
    \o Gated(VERSIONED_PARALLEL_REPLICAS_PROTOCOL, v,
             <<"parallel_replicas_protocol_version">>)
    \o Gated(TIMEZONE, v, <<"timezone">>)
    \o Gated(DISPLAY_NAME, v, <<"display_name">>)
    \o Gated(VERSION_PATCH, v, <<"version_patch">>)
    \o Gated(CHUNKED_PROTOCOL, v, <<"proto_send_chunked_srv">>)
    \o Gated(CHUNKED_PROTOCOL, v, <<"proto_recv_chunked_srv">>)
    \o Gated(PASSWORD_COMPLEXITY_RULES, v, <<"password_complexity_rules">>)
    \o Gated(INTERSERVER_SECRET_V2, v, <<"nonce">>)
    \o Gated(SERVER_SETTINGS, v, <<"server_settings">>)
    \o Gated(QUERY_PLAN_SERIALIZATION, v,
             <<"query_plan_serialization_version">>)
    \o Gated(VERSIONED_CLUSTER_FUNCTION_PROTOCOL, v,
             <<"cluster_function_protocol_version">>)

(* The Addendum's fields: written by the client, read by the server.       *)
AddendumFields(v) ==
  <<"quota_key">>
    \o Gated(CHUNKED_PROTOCOL, v,
             <<"proto_send_chunked", "proto_recv_chunked">>)
    \o Gated(VERSIONED_PARALLEL_REPLICAS_PROTOCOL, v,
             <<"parallel_replicas_protocol_version">>)

-----------------------------------------------------------------------------
(* Framing. *)

Optional(pref) == pref \in {"chunked_optional", "notchunked_optional"}
WantsChunked(pref) == pref \in {"chunked", "chunked_optional"}

Incompatible == "incompatible"

(* chunked::negotiate. *)
Negotiate(theirs, ours) ==
  LET mode(pref) == IF WantsChunked(pref) THEN "chunked" ELSE "notchunked" IN
  CASE Optional(theirs)                     -> mode(ours)
    [] ~Optional(theirs) /\ Optional(ours)  -> mode(theirs)
    [] OTHER -> IF WantsChunked(theirs) = WantsChunked(ours)
                  THEN mode(theirs) ELSE Incompatible

(* What the client prefers, in both directions. *)
ClientPref == "chunked_optional"

(* Bug: the server's SEND preference taken for what it receives. *)
SendMode_Unpaired(hello, v) ==
  IF InVersion(CHUNKED_PROTOCOL, v) THEN Negotiate(hello.send, ClientPref)
                                    ELSE "notchunked"

(* The client sends as the server receives, and the other way round. *)
SendMode(hello, v) ==
  IF InVersion(CHUNKED_PROTOCOL, v) THEN Negotiate(hello.recv, ClientPref)
                                    ELSE "notchunked"

RecvMode(hello, v) ==
  IF InVersion(CHUNKED_PROTOCOL, v) THEN Negotiate(hello.send, ClientPref)
                                    ELSE "notchunked"

-----------------------------------------------------------------------------
(* The TCP connection is made, nothing is sent. *)
Init ==
  /\ pc = "start" /\ protocol = ClientVersion /\ pings = 0
  /\ proto_send_chunked = "notchunked" /\ proto_recv_chunked = "notchunked"
  /\ read_chunked = FALSE /\ write_chunked = FALSE
  /\ c2s = <<>> /\ s2c = <<>>
  /\ srv = "accept" /\ srvProtocol = 0
  /\ version \in ServerVersions
  /\ sendPref \in Preferences /\ recvPref \in Preferences
  /\ srvReadChunked = FALSE /\ srvWriteChunked = FALSE

(* Every message goes through the ChunkedStream, framed as it is set then. *)
Send(queue, type, framed, body) ==
  Append(queue, [type |-> type, framed |-> framed, body |-> body])

Arrived(queue, type) == queue # <<>> /\ Head(queue).type = type

(* handsake, up to the first read. *)
SendHello ==
  /\ pc = "start" /\ pc' = "hello"
  /\ c2s' = Send(c2s, "Hello", write_chunked, [version |-> protocol])
  /\ UNCHANGED <<protocol, framing, pings, s2c, traits, server>>

(* Bug: the preference kept in place of the outcome. *)
Flip_Preference(send, recv) ==
  /\ proto_send_chunked' = ClientPref /\ proto_recv_chunked' = ClientPref
  /\ write_chunked' = (send = "chunked")
  /\ read_chunked' = (recv = "chunked")

(* Bug: each outcome applied to the other direction. *)
Flip_Crossed(send, recv) ==
  /\ proto_send_chunked' = send /\ proto_recv_chunked' = recv
  /\ write_chunked' = (recv = "chunked")
  /\ read_chunked' = (send = "chunked")

(* The switch of framing at the end of handsake. *)
Flip(send, recv) ==
  /\ proto_send_chunked' = send /\ proto_recv_chunked' = recv
  /\ write_chunked' = (send = "chunked")
  /\ read_chunked' = (recv = "chunked")

(* Bug: the Addendum already in the new framing. *)
SendAddendum_Framed(send, recv, v) ==
  c2s' = Send(c2s, "Addendum", send = "chunked",
              [fields |-> AddendumFields(v), send |-> send, recv |-> recv])

(* Through the stream as it still is. *)
SendAddendum(send, recv, v) ==
  c2s' = IF InVersion(ADDENDUM, v)
           THEN Send(c2s, "Addendum", write_chunked,
                     [fields |-> AddendumFields(v),
                      send |-> send, recv |-> recv])
           ELSE c2s

(* handsake, from a ServerHello that is all there. *)
ReadHello ==
  LET hello == Head(s2c).body
      agreed == Negotiated(protocol, hello.version)
      send == SendMode(hello, agreed)
      recv == RecvMode(hello, agreed)
  IN /\ pc = "hello" /\ Arrived(s2c, "Hello")
     /\ hello.fields = HelloRead(protocol)
     /\ s2c' = Tail(s2c)
     /\ protocol' = agreed
     /\ IF Incompatible \in {send, recv}
          THEN pc' = "failed" /\ UNCHANGED <<framing, c2s>>
          ELSE pc' = "ready" /\ SendAddendum(send, recv, agreed)
                            /\ Flip(send, recv)
     /\ UNCHANGED <<pings, traits, server>>

(* An Exception for an answer: connect fails, and drops the stream. *)
ReadRefusal ==
  /\ pc = "hello" /\ Arrived(s2c, "Exception")
  /\ pc' = "failed" /\ s2c' = Tail(s2c)
  /\ UNCHANGED <<protocol, framing, pings, c2s, traits, server>>

(* A call on the new connection, and its answer. *)
Ping ==
  /\ pc = "ready" /\ pings < MaxPings
  /\ pc' = "ping" /\ pings' = pings + 1
  /\ c2s' = Send(c2s, "Ping", write_chunked, <<>>)
  /\ UNCHANGED <<protocol, framing, s2c, traits, server>>

ReadPong ==
  /\ pc = "ping" /\ Arrived(s2c, "Pong")
  /\ pc' = IF Head(s2c).framed = read_chunked THEN "ready" ELSE "garbled"
  /\ s2c' = Tail(s2c)
  /\ UNCHANGED <<protocol, framing, pings, c2s, traits, server>>

-----------------------------------------------------------------------------
(* The server (external).  A message that is framed otherwise than it      *)
(* expects, or is not the one that belongs there, garbles the stream.      *)

Understood(m) == m.framed = srvReadChunked

AcceptHello ==
  /\ srv = "accept" /\ Arrived(c2s, "Hello")
  /\ c2s' = Tail(c2s)
  /\ srvProtocol' = Negotiated(Head(c2s).body.version, version)
  /\ srv' = IF InVersion(ADDENDUM, srvProtocol') THEN "addendum" ELSE "serving"
  /\ s2c' = Send(s2c, "Hello", srvWriteChunked,
                 [fields |-> HelloWritten(srvProtocol'), version |-> version,
                  send |-> sendPref, recv |-> recvPref])
  /\ UNCHANGED <<client, traits, srvReadChunked, srvWriteChunked>>

Refuse ==
  /\ srv = "accept" /\ Arrived(c2s, "Hello")
  /\ srv' = "refused" /\ c2s' = Tail(c2s)
  /\ s2c' = Send(s2c, "Exception", srvWriteChunked, <<>>)
  /\ UNCHANGED <<client, traits, srvProtocol, srvReadChunked, srvWriteChunked>>

(* The client's choice binds the server, unless it is strict and differs. *)
TakeAddendum ==
  LET m == Head(c2s)
      reading == Negotiate(recvPref, m.body.send)
      writing == Negotiate(sendPref, m.body.recv)
  IN /\ srv = "addendum" /\ Arrived(c2s, "Addendum")
     /\ c2s' = Tail(c2s)
     /\ IF \/ ~Understood(m)
           \/ m.body.fields # AddendumFields(srvProtocol)
           \/ Incompatible \in {reading, writing}
          THEN srv' = "garbled" /\ UNCHANGED <<srvReadChunked, srvWriteChunked>>
          ELSE /\ srv' = "serving"
               /\ srvReadChunked' = (reading = "chunked")
               /\ srvWriteChunked' = (writing = "chunked")
     /\ UNCHANGED <<client, s2c, traits, srvProtocol>>

AnswerPing ==
  /\ srv = "serving" /\ Arrived(c2s, "Ping")
  /\ c2s' = Tail(c2s)
  /\ IF Understood(Head(c2s))
       THEN s2c' = Send(s2c, "Pong", srvWriteChunked, <<>>) /\ UNCHANGED srv
       ELSE srv' = "garbled" /\ UNCHANGED s2c
  /\ UNCHANGED <<client, traits, srvProtocol, srvReadChunked, srvWriteChunked>>

-----------------------------------------------------------------------------
ClientStep == SendHello \/ ReadHello \/ ReadRefusal \/ Ping \/ ReadPong
ServerStep == AcceptHello \/ Refuse \/ TakeAddendum \/ AnswerPing

Next == ClientStep \/ ServerStep

Spec == Init /\ [][Next]_vars

(* connect() runs to its end, and the server takes what it is sent. *)
FairSpec == Spec /\ WF_vars(ClientStep) /\ WF_vars(ServerStep)

-----------------------------------------------------------------------------
(* Properties. *)

(* Every variable has its type; of the streams, the kinds of messages. *)
TypeOK ==
  /\ pc \in {"start", "hello", "ready", "ping", "failed", "garbled"}
  /\ protocol \in Nat /\ pings \in Nat
  /\ proto_send_chunked \in Modes /\ proto_recv_chunked \in Modes
  /\ read_chunked \in BOOLEAN /\ write_chunked \in BOOLEAN
  /\ \A i \in DOMAIN c2s : c2s[i].type \in {"Hello", "Addendum", "Ping"}
  /\ \A i \in DOMAIN s2c : s2c[i].type \in {"Hello", "Exception", "Pong"}
  /\ srv \in {"accept", "addendum", "serving", "refused", "garbled"}
  /\ version \in ServerVersions
  /\ sendPref \in Preferences /\ recvPref \in Preferences
  /\ srvProtocol \in Nat
  /\ srvReadChunked \in BOOLEAN /\ srvWriteChunked \in BOOLEAN

(* Neither end ever reads a message in another framing than it was written *)
(* in, the messages sent ahead of the other's switch included, and the     *)
(* server accepts whatever framing the client has chosen.                  *)
NothingGarbled == pc # "garbled" /\ srv # "garbled"

(* Once both ends are through, they use the same version, and the same     *)
(* framing in each direction.                                              *)
EndsAgree ==
  pc \in {"ready", "ping"} /\ srv = "serving" =>
    /\ protocol = srvProtocol
    /\ write_chunked = srvReadChunked
    /\ read_chunked = srvWriteChunked

(* A connection that connect() returns speaks the smaller version, and is  *)
(* chunked in a direction unless the server insists on notchunked.         *)
ModesAreTheServersOrChunked ==
  pc \in {"ready", "ping"} =>
    /\ protocol = Negotiated(ClientVersion, version)
    /\ write_chunked <=> recvPref # "notchunked"
    /\ read_chunked <=> sendPref # "notchunked"

Connects == pc \in {"ready", "ping"} \/ (pc = "failed" /\ srv = "refused")

(* connect() succeeds unless the server refuses it, with every server that *)
(* has all of the fields the client reads from a ServerHello.              *)
ConnectSucceeds ==
  (pc = "hello" /\ InVersion(VERSIONED_CLUSTER_FUNCTION_PROTOCOL, version))
    ~> Connects

(* The version is negotiated down: connect() succeeds with older servers.  *)
NegotiatesDown == pc = "hello" ~> Connects
=============================================================================
