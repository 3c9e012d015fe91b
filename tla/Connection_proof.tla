------------------------- MODULE Connection_proof -------------------------
(***************************************************************************)
(* Theorems of Connection, for every server version, every set of          *)
(* statements, blocks and faults, and every bound: the types; and, for     *)
(* callers who keep to the protocol (Protocol below), how calls and        *)
(* answers pair: until a call fails on the client's side, what can be read *)
(* answers the present call, is read as it was written, and nothing is     *)
(* left of it when the call returns; and the server finds each packet      *)
(* where it belongs.                                                       *)
(*                                                                         *)
(* The invariant says, for each place the server can be in, what the       *)
(* client has still to say (Out, wherever it is on its way) and what waits *)
(* to be read.  A failed INSERT may leave its blocks on the way when the   *)
(* next call begins: the server reads them first.                          *)
(***************************************************************************)
EXTENDS Connection, SequenceTheorems, TLAPS

-----------------------------------------------------------------------------
(* The packets and scripts of the client. *)

LEMMA PacketTypes ==
  ASSUME NEW r \in Nat, NEW c \in BOOLEAN
  PROVE  /\ \A s \in Statements : QueryPacket(r, s, c) \in ClientPackets
         /\ \A k \in Kinds : DataPacket(r, k, c) \in ClientPackets
         /\ EmptyMarker(r, c) \in ClientPackets
BY DEF QueryPacket, DataPacket, EmptyMarker, ClientPackets,
       Statements, Kinds

LEMMA DataPacketsType ==
  ASSUME NEW r \in Nat, NEW c \in BOOLEAN, NEW kinds \in Seq(BlockKinds)
  PROVE  DataPackets(r, kinds, c) \in Seq(ClientPackets)
<1>1. Len(kinds) \in Nat /\ \A i \in 1..Len(kinds) : kinds[i] \in Kinds
  <2>1. BlockKinds \subseteq Kinds
    BY ConstantsAssumption DEF Kinds
  <2> QED BY <2>1, LenProperties, ElementOfSeq
<1>2. \A i \in 1..Len(kinds) : DataPacket(r, kinds[i], c) \in ClientPackets
  BY <1>1, PacketTypes
<1>3. DataPackets(r, kinds, c) \in [1..Len(kinds) -> ClientPackets]
  BY <1>2 DEF DataPackets
<1> QED BY <1>1, <1>3, SeqDef

LEMMA ScriptTypes ==
  ASSUME NEW r \in Nat, NEW c \in BOOLEAN, NEW kinds \in Seq(BlockKinds)
  PROVE  /\ InsertBody(r, kinds, c) \in Seq(ClientPackets)
         /\ \A s \in Statements :
              QueryAndTables(r, s, c, kinds) \in Seq(ClientPackets)
<1>0. EmptyMarker(r, c) \in ClientPackets
  BY PacketTypes
<1>1. /\ DataPackets(r, kinds, c) \in Seq(ClientPackets)
      /\ <<EmptyMarker(r, c)>> \in Seq(ClientPackets)
  BY <1>0, DataPacketsType
<1>2. \A s \in Statements : <<QueryPacket(r, s, c)>> \in Seq(ClientPackets)
  BY PacketTypes
<1>3. InsertBody(r, kinds, c) \in Seq(ClientPackets)
  BY <1>1, ConcatProperties DEF InsertBody
<1>4. ASSUME NEW s \in Statements
      PROVE  QueryAndTables(r, s, c, kinds) \in Seq(ClientPackets)
  <2>1. <<QueryPacket(r, s, c)>> \o DataPackets(r, kinds, c)
          \in Seq(ClientPackets)
    BY <1>1, <1>2, ConcatProperties
  <2> QED BY <1>1, <2>1, ConcatProperties DEF QueryAndTables
<1> QED BY <1>3, <1>4

LEMMA InputsType == Inputs \subseteq Seq(BlockKinds)
BY DEF Inputs

-----------------------------------------------------------------------------
(* What the loops make of a packet. *)

LEMMA VerdictTypes ==
  ASSUME NEW type
  PROVE  /\ PongVerdict(type) \in {"ok", "exception", "error"}
         /\ SelectVerdict(type) \in {"ok", "exception", "error", "more"}
         /\ SchemaVerdict(type) \in {"schema", "exception", "error", "more"}
         /\ DrainVerdict(type) \in {"ok", "exception", "error", "more"}
BY DEF PongVerdict, SelectVerdict, SchemaVerdict, DrainVerdict

LEMMA CollectType ==
  ASSUME NEW res \in Results, NEW p \in ServerPackets
  PROVE  Collect(res, p) \in Results
<1>1. CASE p.type = "Data" /\ ~res.header
  BY <1>1 DEF Collect, Results
<1>2. CASE p.type = "Data" /\ res.header
  <2>1. Collect(res, p) \in {res, [res EXCEPT !.rows = Append(@, p.delta)]}
    BY <1>2 DEF Collect
  <2>2. Append(res.rows, p.delta) \in Seq(Nat)
    BY AppendProperties DEF Results, ServerPackets
  <2> QED BY <2>1, <2>2 DEF Results
<1>3. CASE p.type # "Data"
  <2>1. \/ Collect(res, p) = res
        \/ /\ p.type \in AllSideTypes
           /\ Collect(res, p) = [res EXCEPT !.side = @ \cup {p.type}]
    BY <1>3 DEF Collect, AllSideTypes
  <2> QED BY <2>1 DEF Results
<1> QED BY <1>1, <1>2, <1>3

LEMMA AccumulateType ==
  ASSUME NEW total \in Nat \cup {None}, NEW delta \in Nat
  PROVE  Accumulate(total, delta) \in Nat
BY ConstantsAssumption DEF Accumulate

LEMMA QueueTypes ==
  ASSUME NEW S, NEW q \in Seq(S), q # <<>>
  PROVE  Head(q) \in S /\ Tail(q) \in Seq(S)
BY HeadTailProperties

LEMMA PutPacketType ==
  ASSUME TypeOK, NEW p \in ClientPackets, PutPacket(p)
  PROVE  c2s' \in Seq(ClientPackets) /\ write_buf' \in Seq(ClientPackets)
<1> USE DEF TypeOK
<1>1. CASE c2s' = Append(c2s, p) /\ UNCHANGED write_buf
  BY <1>1, AppendProperties
<1>2. CASE c2s' = c2s \o Append(write_buf, p) /\ write_buf' = <<>>
  <2>1. Append(write_buf, p) \in Seq(ClientPackets)
    BY AppendProperties
  <2> QED BY <1>2, <2>1, ConcatProperties, EmptySeq
<1>3. CASE write_buf' = Append(write_buf, p) /\ UNCHANGED c2s
  BY <1>3, AppendProperties
<1> QED BY <1>1, <1>2, <1>3 DEF PutPacket

LEMMA PostType ==
  ASSUME TypeOK, NEW delta \in Nat,
         NEW type \in {"Data", "Progress", "EndOfStream", "Exception"}
                        \cup AllSideTypes,
         NEW body \in {"none", "header", "rows", "empty", "undecodable"},
         Post(type, body, delta)
  PROVE  s2c' \in Seq(ServerPackets)
<1>1. ServerCompressed(type) \in BOOLEAN
  BY DEF ServerCompressed, TypeOK
<1>2. ServerPacket(type, body, delta) \in ServerPackets
  BY <1>1 DEF ServerPacket, ServerPackets, TypeOK
<1> QED BY <1>2, AppendProperties DEF Post, TypeOK

-----------------------------------------------------------------------------
(* Type correctness. *)

LEMMA TypeInit == Init => TypeOK
<1> SUFFICES ASSUME Init PROVE TypeOK
  OBVIOUS
<1>1. Negotiated(ClientVersion, ServerVersion) \in Nat
  BY ConstantsAssumption
     DEF Negotiated, ClientVersion, PROGRESS_IN_ASYNC_INSERT
<1>2. EmptyResult \in Results
  BY DEF EmptyResult, Results
<1> QED BY <1>1, <1>2, EmptySeq DEF Init, TypeOK


LEMMA BeginType ==
  ASSUME TypeOK, NEW loop \in {"pong", "select", "schema"},
         NEW packets \in Seq(ClientPackets), Begin(loop, packets),
         query_compression' \in BOOLEAN, blocks' \in Seq(BlockKinds),
         insert_progress' \in Nat \cup {None}
  PROVE  TypeOK'
<1>1. EmptyResult \in Results
  BY DEF EmptyResult, Results
<1> QED BY <1>1 DEF Begin, TypeOK, settled, server

LEMMA CallerType == TypeOK /\ CallerStep => TypeOK'
<1> SUFFICES ASSUME TypeOK, CallerStep PROVE TypeOK'
  OBVIOUS
<1>0. call + 1 \in Nat
  BY DEF TypeOK
<1>1. CASE Ping
  <2>1. <<PingPacket(call + 1)>> \in Seq(ClientPackets)
    <3>1. PingPacket(call + 1) \in ClientPackets
      BY <1>0 DEF PingPacket, ClientPackets
    <3> QED BY <3>1
  <2>2. /\ query_compression' \in BOOLEAN /\ blocks' \in Seq(BlockKinds)
        /\ insert_progress' \in Nat \cup {None}
    BY <1>1 DEF Ping, TypeOK
  <2>3. Begin("pong", <<PingPacket(call + 1)>>)
    BY <1>1 DEF Ping
  <2> QED BY <2>1, <2>2, <2>3, BeginType
<1>2. ASSUME NEW s \in QueryStatements, NEW c \in BOOLEAN, NEW t \in Inputs,
             QueryWith(s, c, t)
      PROVE  TypeOK'
  <2>1. QueryAndTables(call + 1, s, c, t) \in Seq(ClientPackets)
    BY <1>0, ScriptTypes, InputsType, ConstantsAssumption DEF Statements
  <2> QED BY <1>2, <2>1, BeginType DEF QueryWith, TypeOK
<1>3. ASSUME NEW s \in InsertStatements, NEW t \in Inputs, NEW b \in Inputs,
             InsertBlocksWith(s, t, b)
      PROVE  TypeOK'
  <2>1. QueryAndTables(call + 1, s, FALSE, t) \in Seq(ClientPackets)
    BY <1>0, ScriptTypes, InputsType, ConstantsAssumption DEF Statements
  <2>2. b \in Seq(BlockKinds)
    BY InputsType
  <2> QED BY <1>3, <2>1, <2>2, BeginType DEF InsertBlocksWith
<1>4. CASE RefuseCompressedInsert
  BY <1>0, <1>4
     DEF RefuseCompressedInsert, TypeOK, settled, place, gathered, server
<1>5. CASE Drop
  BY <1>5 DEF Drop, TypeOK, settled, issued, place, gathered, server
<1> QED BY <1>1, <1>2, <1>3, <1>4, <1>5 DEF CallerStep

LEMMA ReturnType ==
  ASSUME TypeOK, NEW req \in Nat,
         NEW o \in {"none", "ok", "exception", "error"}, Return(o, req)
  PROVE  /\ pc' \in {"idle", "write", "read", "dropped"}
         /\ outcome' \in {"none", "ok", "exception", "error", "unsupported"}
         /\ answered' \in Nat /\ tainted' \in BOOLEAN
<1>1. tainted' \in BOOLEAN
  BY Zenon DEF Return, TypeOK
<1> QED BY <1>1 DEF Return

LEMMA SettleType ==
  ASSUME TypeOK, s2c # <<>>,
         NEW verdict \in {"ok", "exception", "error", "more"},
         Settle(verdict)
  PROVE  /\ pc' \in {"idle", "write", "read", "dropped"}
         /\ outcome' \in {"none", "ok", "exception", "error", "unsupported"}
         /\ answered' \in Nat /\ tainted' \in BOOLEAN
<1>1. Head(s2c) \in ServerPackets
  BY QueueTypes DEF TypeOK
<1>2. CASE verdict = "more"
  BY <1>2 DEF Settle, TypeOK, returned
<1>3. CASE verdict # "more"
  <2>1. Head(s2c).req \in Nat /\ Return(verdict, Head(s2c).req)
    BY <1>1, <1>3 DEF Settle, ServerPackets
  <2> QED BY <1>3, <2>1, ReturnType
<1> QED BY <1>2, <1>3

LEMMA SendBlocksType ==
  ASSUME TypeOK, SendBlocks
  PROVE  /\ pc' \in {"idle", "write", "read", "dropped"}
         /\ wait' \in {"pong", "select", "schema", "drain"}
         /\ todo' \in Seq(ClientPackets)
         /\ UNCHANGED <<outcome, answered, tainted>>
BY ScriptTypes DEF SendBlocks, TypeOK

LEMMA WritingType == TypeOK /\ (Write \/ Flush \/ BrokenPipe) => TypeOK'
<1> SUFFICES ASSUME TypeOK, Write \/ Flush \/ BrokenPipe PROVE TypeOK'
  OBVIOUS
<1>1. CASE Write
  <2>1. Head(todo) \in ClientPackets /\ Tail(todo) \in Seq(ClientPackets)
    BY <1>1, QueueTypes DEF Write, TypeOK
  <2>2. c2s' \in Seq(ClientPackets) /\ write_buf' \in Seq(ClientPackets)
    BY <1>1, <2>1, PutPacketType DEF Write
  <2>3. /\ todo' \in Seq(ClientPackets)
        /\ pc' \in {"idle", "write", "read", "dropped"}
        /\ outcome' \in {"none", "ok", "exception", "error", "unsupported"}
        /\ answered' \in Nat /\ tainted' \in BOOLEAN
    <3>1. CASE Head(todo).body = "inconsistent"
      BY <1>1, <3>1, ReturnType, EmptySeq DEF Write
    <3>2. CASE Head(todo).body # "inconsistent"
      BY <1>1, <2>1, <3>2 DEF Write, returned, TypeOK
    <3> QED BY <3>1, <3>2
  <2> QED BY <1>1, <2>2, <2>3
             DEF Write, TypeOK, settled, issued, gathered, server
<1>2. CASE Flush
  <2>1. c2s' \in Seq(ClientPackets) /\ write_buf' \in Seq(ClientPackets)
    BY <1>2, ConcatProperties, EmptySeq DEF Flush, FlushBuffer, TypeOK
  <2> QED BY <1>2, <2>1
             DEF Flush, TypeOK, settled, issued, place, gathered, server
<1>3. CASE BrokenPipe
  BY <1>3, EmptySeq
     DEF BrokenPipe, Return, TypeOK, settled, issued, gathered, server
<1> QED BY <1>1, <1>2, <1>3


LEMMA ReadingType ==
  /\ TypeOK
  /\ \/ ReadPong \/ ReadQueryResponse \/ ReadSchema \/ ReadInsertResponse
     \/ ReadEof
     \/ \E used \in BOOLEAN :
          \/ DecodeError(used)
          \/ \E verdict \in {"ok", "exception", "error", "more"} :
               ReadFragment(verdict, used)
  => TypeOK'
<1> SUFFICES ASSUME TypeOK PROVE
      /\ ReadPong => TypeOK'
      /\ ReadQueryResponse => TypeOK'
      /\ ReadSchema => TypeOK'
      /\ ReadInsertResponse => TypeOK'
      /\ ReadEof => TypeOK'
      /\ \A used \in BOOLEAN : DecodeError(used) => TypeOK'
      /\ \A used \in BOOLEAN, verdict \in {"ok", "exception", "error", "more"} :
           ReadFragment(verdict, used) => TypeOK'
  OBVIOUS
<1>1. s2c # <<>> => Head(s2c) \in ServerPackets /\ Tail(s2c) \in Seq(ServerPackets)
  BY QueueTypes DEF TypeOK
<1>2. ASSUME ReadPong PROVE TypeOK'
  <2>1. s2c # <<>>
    BY <1>2 DEF ReadPong, CanRead, Receiving
  <2>2. /\ pc' \in {"idle", "write", "read", "dropped"}
        /\ outcome' \in {"none", "ok", "exception", "error", "unsupported"}
        /\ answered' \in Nat /\ tainted' \in BOOLEAN
    BY <1>2, <2>1, VerdictTypes, SettleType DEF ReadPong
  <2> QED BY <1>1, <1>2, <2>1, <2>2
             DEF ReadPong, TypeOK, settled, issued, place, gathered, server
<1>3. ASSUME ReadQueryResponse PROVE TypeOK'
  <2>1. s2c # <<>>
    BY <1>3 DEF ReadQueryResponse, CanRead, Receiving
  <2>2. /\ pc' \in {"idle", "write", "read", "dropped"}
        /\ outcome' \in {"none", "ok", "exception", "error", "unsupported"}
        /\ answered' \in Nat /\ tainted' \in BOOLEAN
    BY <1>3, <2>1, VerdictTypes, SettleType DEF ReadQueryResponse
  <2>3. result' \in Results
    BY <1>1, <1>3, <2>1, CollectType DEF ReadQueryResponse, TypeOK
  <2> QED BY <1>1, <1>3, <2>1, <2>2, <2>3
             DEF ReadQueryResponse, TypeOK, settled, issued, place, server
<1>4. ASSUME ReadSchema PROVE TypeOK'
  <2>1. s2c # <<>>
    BY <1>4 DEF ReadSchema, CanRead, Receiving
  <2>2. /\ pc' \in {"idle", "write", "read", "dropped"}
        /\ outcome' \in {"none", "ok", "exception", "error", "unsupported"}
        /\ answered' \in Nat /\ tainted' \in BOOLEAN
        /\ wait' \in {"pong", "select", "schema", "drain"}
        /\ todo' \in Seq(ClientPackets)
    <3>1. CASE SchemaVerdict(Head(s2c).type) = "schema"
      <4>1. SendBlocks
        BY <1>4, <3>1 DEF ReadSchema
      <4> QED BY <4>1, SendBlocksType DEF TypeOK
    <3>2. CASE SchemaVerdict(Head(s2c).type) # "schema"
      <4>1. Settle(SchemaVerdict(Head(s2c).type)) /\ UNCHANGED place
        BY <1>4, <3>2 DEF ReadSchema
      <4>2. SchemaVerdict(Head(s2c).type) \in {"exception", "error", "more"}
        BY <3>2, VerdictTypes
      <4>3. wait' = wait /\ todo' = todo
        BY <4>1 DEF place
      <4> QED BY <2>1, <4>1, <4>2, <4>3, SettleType DEF TypeOK
    <3> QED BY <3>1, <3>2
  <2> QED BY <1>1, <1>4, <2>1, <2>2
             DEF ReadSchema, TypeOK, settled, issued, gathered, server
<1>5. ASSUME ReadInsertResponse PROVE TypeOK'
  <2>1. s2c # <<>>
    BY <1>5 DEF ReadInsertResponse, CanRead, Receiving
  <2>2. /\ pc' \in {"idle", "write", "read", "dropped"}
        /\ outcome' \in {"none", "ok", "exception", "error", "unsupported"}
        /\ answered' \in Nat /\ tainted' \in BOOLEAN
    BY <1>5, <2>1, VerdictTypes, SettleType DEF ReadInsertResponse
  <2>3. Head(s2c).delta \in Nat
    BY <1>1, <2>1 DEF ServerPackets
  <2>4. insert_progress' \in Nat \cup {None}
    BY <1>5, <2>3, AccumulateType DEF ReadInsertResponse, TypeOK
  <2> QED BY <1>1, <1>5, <2>1, <2>2, <2>4
             DEF ReadInsertResponse, TypeOK, settled, issued, place, server
<1>6. ASSUME ReadEof PROVE TypeOK'
  <2>1. Return("error", 0)
    BY <1>6 DEF ReadEof
  <2>2. /\ pc' \in {"idle", "write", "read", "dropped"}
        /\ outcome' \in {"none", "ok", "exception", "error", "unsupported"}
        /\ answered' \in Nat /\ tainted' \in BOOLEAN
    BY <2>1, ReturnType
  <2> QED BY <1>6, <2>2
             DEF ReadEof, TypeOK, settled, issued, place, gathered, server
<1>7. ASSUME NEW used \in BOOLEAN, DecodeError(used) PROVE TypeOK'
  <2>1. s2c # <<>>
    BY <1>7 DEF DecodeError, Receiving
  <2>2. /\ pc' \in {"idle", "write", "read", "dropped"}
        /\ outcome' \in {"none", "ok", "exception", "error", "unsupported"}
        /\ answered' \in Nat /\ tainted' \in BOOLEAN
    <3>1. Head(s2c).req \in Nat /\ Return("error", Head(s2c).req)
      BY <1>1, <1>7, <2>1 DEF DecodeError, ServerPackets
    <3> QED BY <3>1, ReturnType
  <2>3. s2c' \in Seq(ServerPackets)
    <3> DEFINE torn == [Head(s2c) EXCEPT !.type = "Fragment"]
    <3>1. torn \in ServerPackets
      BY <1>1, <2>1 DEF ServerPackets
    <3>2. <<torn>> \o Tail(s2c) \in Seq(ServerPackets)
      BY <1>1, <2>1, <3>1, ConcatProperties
    <3> QED BY <1>1, <1>7, <2>1, <3>2 DEF DecodeError
  <2> QED BY <1>7, <2>2, <2>3
             DEF DecodeError, TypeOK, settled, issued, place, gathered, server
<1>8. ASSUME NEW used \in BOOLEAN,
             NEW verdict \in {"ok", "exception", "error", "more"},
             ReadFragment(verdict, used)
      PROVE  TypeOK'
  <2>1. s2c # <<>>
    BY <1>8 DEF ReadFragment, Receiving
  <2>2. /\ pc' \in {"idle", "write", "read", "dropped"}
        /\ outcome' \in {"none", "ok", "exception", "error", "unsupported"}
        /\ answered' \in Nat /\ tainted' \in BOOLEAN
        /\ wait' \in {"pong", "select", "schema", "drain"}
        /\ todo' \in Seq(ClientPackets)
    <3>1. CASE SendBlocks
      BY <3>1, SendBlocksType DEF TypeOK
    <3>2. CASE Settle(verdict) /\ UNCHANGED place
      <4>1. wait' = wait /\ todo' = todo
        BY <3>2 DEF place
      <4> QED BY <2>1, <3>2, <4>1, SettleType DEF TypeOK
    <3> QED BY <1>8, <3>1, <3>2 DEF ReadFragment
  <2>3. s2c' \in Seq(ServerPackets)
    BY <1>1, <1>8, <2>1 DEF ReadFragment, TypeOK
  <2> QED BY <1>8, <2>2, <2>3
             DEF ReadFragment, TypeOK, settled, issued, gathered, server
<1> QED BY <1>2, <1>3, <1>4, <1>5, <1>6, <1>7, <1>8


LEMMA RepliesType ==
  ASSUME TypeOK
  PROVE  /\ \A body \in {"header", "rows", "empty"} : SendBlock(body) => TypeOK'
         /\ SendUndecodable => TypeOK'
         /\ SendProgress => TypeOK'
         /\ \A type \in SideTypes : SendSide(type) => TypeOK'
         /\ \A body \in {"header", "undecodable"} : SendSchema(body) => TypeOK'
         /\ Finish => TypeOK'
         /\ Throw => TypeOK'
         /\ GiveUp => TypeOK'
<1>0. /\ sent \in [result : Results, drain : Nat \cup {None}, end : {"none", "ok", "exception"}]
      /\ sent.result \in Results
  BY DEF TypeOK
<1>1. ASSUME NEW body \in {"header", "rows", "empty"}, SendBlock(body)
      PROVE  TypeOK'
  <2>0. BlockNumber(body) \in Nat /\ sent.result.rows \in Seq(Nat)
    BY <1>0, LenProperties DEF Results, BlockNumber
  <2>1. Extra("Data", body, BlockNumber(body))
    BY <1>1 DEF SendBlock
  <2>2. s2c' \in Seq(ServerPackets)
    BY <2>0, <2>1, PostType DEF Extra
  <2>3. Append(sent.result.rows, BlockNumber(body)) \in Seq(Nat)
    BY <2>0, AppendProperties
  <2>4. sent' \in [result : Results, drain : Nat \cup {None}, end : {"none", "ok", "exception"}]
    BY <1>0, <1>1, <2>3 DEF SendBlock, Results
  <2> QED BY <2>1, <2>2, <2>4 DEF Extra, TypeOK, settled, client, issued,
                                  place, returned, gathered
<1>2. ASSUME SendUndecodable PROVE TypeOK'
  <2>1. Extra("Data", "undecodable", 0)
    BY <1>2 DEF SendUndecodable
  <2>2. s2c' \in Seq(ServerPackets)
    BY <2>1, PostType DEF Extra
  <2>3. sent' \in [result : Results, drain : Nat \cup {None}, end : {"none", "ok", "exception"}]
    BY <1>0, <1>2 DEF SendUndecodable, Results
  <2> QED BY <2>1, <2>2, <2>3 DEF Extra, TypeOK, settled, client, issued,
                                  place, returned, gathered
<1>3. ASSUME SendProgress PROVE TypeOK'
  <2>1. Extra("Progress", "none", 1)
    BY <1>3 DEF SendProgress
  <2>2. s2c' \in Seq(ServerPackets)
    BY <2>1, PostType DEF Extra
  <2>3. Tally(sent.drain) \in Nat
    BY <1>0 DEF Tally
  <2>4. sent' \in [result : Results, drain : Nat \cup {None}, end : {"none", "ok", "exception"}]
    BY <1>0, <1>3, <2>3 DEF SendProgress
  <2> QED BY <2>1, <2>2, <2>4 DEF Extra, TypeOK, settled, client, issued,
                                  place, returned, gathered
<1>4. ASSUME NEW type \in SideTypes, SendSide(type) PROVE TypeOK'
  <2>0. type \in AllSideTypes
    BY ConstantsAssumption
  <2>1. Extra(type, "none", 0)
    BY <1>4 DEF SendSide
  <2>2. s2c' \in Seq(ServerPackets)
    BY <2>0, <2>1, PostType DEF Extra
  <2>3. sent' \in [result : Results, drain : Nat \cup {None}, end : {"none", "ok", "exception"}]
    BY <1>0, <1>4, <2>0 DEF SendSide, Results
  <2> QED BY <2>1, <2>2, <2>3 DEF Extra, TypeOK, settled, client, issued,
                                  place, returned, gathered
<1>5. ASSUME NEW body \in {"header", "undecodable"}, SendSchema(body)
      PROVE  TypeOK'
  <2>1. s2c' \in Seq(ServerPackets)
    BY <1>5, PostType DEF SendSchema
  <2> QED BY <1>5, <2>1 DEF SendSchema, TypeOK, settled, client, issued,
                            place, returned, gathered
<1>6. ASSUME Finish PROVE TypeOK'
  <2>1. s2c' \in Seq(ServerPackets)
    BY <1>6, PostType DEF Finish
  <2>2. sent' \in [result : Results, drain : Nat \cup {None}, end : {"none", "ok", "exception"}]
    BY <1>0, <1>6 DEF Finish
  <2> QED BY <1>6, <2>1, <2>2 DEF Finish, TypeOK, settled, client, issued,
                            place, returned, gathered
<1>7. ASSUME Throw PROVE TypeOK'
  <2>1. s2c' \in Seq(ServerPackets)
    BY <1>7, PostType DEF Throw
  <2>2. sent' \in [result : Results, drain : Nat \cup {None}, end : {"none", "ok", "exception"}]
    BY <1>0, <1>7 DEF Throw
  <2> QED BY <1>7, <2>1, <2>2 DEF Throw, TypeOK, settled, client, issued,
                            place, returned, gathered
<1>8. ASSUME GiveUp PROVE TypeOK'
  <2>1. s2c' \in Seq(ServerPackets)
    BY <1>8, PostType DEF GiveUp
  <2>2. sent' \in [result : Results, drain : Nat \cup {None}, end : {"none", "ok", "exception"}]
    BY <1>0, <1>8 DEF GiveUp
  <2> QED BY <1>8, <2>1, <2>2 DEF GiveUp, TypeOK, settled, client, issued,
                            place, returned, gathered
<1> QED BY <1>1, <1>2, <1>3, <1>4, <1>5, <1>6, <1>7, <1>8

LEMMA TakingType ==
  /\ TypeOK
  /\ TakePing \/ TakeQuery \/ TakeBlock \/ TakeMarker \/ Surprised \/ Swallow
  => TypeOK'
<1> SUFFICES ASSUME TypeOK, c2s # <<>>,
                    \/ TakePing \/ TakeQuery \/ TakeBlock \/ TakeMarker
                    \/ Surprised \/ Swallow
             PROVE  TypeOK'
  BY DEF TakePing, TakeQuery, TakeBlock, TakeMarker, Surprised, Swallow, Take
<1>1. Head(c2s) \in ClientPackets /\ Tail(c2s) \in Seq(ClientPackets)
  BY QueueTypes DEF TypeOK
<1>2. ASSUME Serve(Head(c2s)), Head(c2s).type \in {"Ping", "Query"}
      PROVE  /\ serving' \in [req : Nat, comp : BOOLEAN,
                              body : Statements \cup {"none"}]
             /\ sent' \in [result : Results, drain : Nat \cup {None},
                           end : {"none", "ok", "exception"}]
  <2>1. EmptyResult \in Results
    BY DEF EmptyResult, Results
  <2>2. /\ Head(c2s).req \in Nat /\ Head(c2s).comp \in BOOLEAN
        /\ Head(c2s).body \in Statements \cup {"none"}
    BY <1>1, <1>2 DEF ClientPackets
  <2> QED BY <1>2, <2>1, <2>2 DEF Serve
<1>3. CASE TakePing
  <2>1. Head(c2s).type = "Ping" /\ Head(c2s).req \in Nat
    BY <1>1, <1>3 DEF TakePing, Take, ClientPackets
  <2>2. [type |-> "Pong", req |-> Head(c2s).req, body |-> "none",
         comp |-> FALSE, delta |-> 0] \in ServerPackets
    BY <2>1 DEF ServerPackets
  <2>3. s2c' \in Seq(ServerPackets)
    BY <1>3, <2>2, AppendProperties DEF TakePing, TypeOK
  <2> QED BY <1>1, <1>2, <1>3, <2>1, <2>3
             DEF TakePing, Take, TypeOK, settled, client, issued, place,
                 returned, gathered
<1>4. CASE TakeQuery
  <2>1. Head(c2s).type = "Query"
    BY <1>4 DEF TakeQuery, Take
  <2> QED BY <1>1, <1>2, <1>4, <2>1, ConstantsAssumption
             DEF TakeQuery, Take, TypeOK, settled, client, issued, place,
                 returned, gathered
<1>5. CASE TakeBlock
  BY <1>1, <1>5 DEF TakeBlock, Take, TypeOK, settled, client, issued, place,
                    returned, gathered, server
<1>6. CASE TakeMarker
  <2>1. srv' \in {"setup", "answer", "finish", "idle"}
    BY <1>6 DEF TakeMarker, Welcome
  <2>2. Take("Data") /\ UNCHANGED <<s2c, serving, budget, sent>>
    BY <1>6 DEF TakeMarker
  <2> QED BY <1>1, <2>1, <2>2 DEF Take, TypeOK, settled, client, issued, place,
                                  returned, gathered
<1>7. CASE Surprised
  <2>1. Head(c2s).req \in Nat
    BY <1>1 DEF ClientPackets
  <2>2. /\ serving' \in [req : Nat, comp : BOOLEAN,
                          body : Statements \cup {"none"}]
        /\ sent' \in [result : Results, drain : Nat \cup {None},
                       end : {"none", "ok", "exception"}]
    BY <1>7, <2>1 DEF Surprised, TypeOK
  <2> QED BY <1>7, <2>2 DEF Surprised, TypeOK, settled, client, issued, place,
                            returned, gathered
<1>8. CASE Swallow
  BY <1>1, <1>8 DEF Swallow, TypeOK, settled, client, issued, place, returned,
                    gathered, server
<1> QED BY <1>3, <1>4, <1>5, <1>6, <1>7, <1>8

LEMMA TypeStep == TypeOK /\ [Next]_vars => TypeOK'
<1> SUFFICES ASSUME TypeOK, [Next]_vars PROVE TypeOK'
  OBVIOUS
<1>1. CASE CallerStep
  BY <1>1, CallerType
<1>2. CASE ClientStep
  BY <1>2, WritingType, ReadingType DEF ClientStep
<1>3. CASE ServerStep
  BY <1>3, RepliesType, TakingType DEF ServerStep
<1>4. CASE GiveUp
  BY <1>4, RepliesType
<1>5. CASE Close
  BY <1>5 DEF Close, TypeOK, settled, client, issued, place, returned, gathered,
              server
<1>6. CASE Gone \/ UNCHANGED vars
  BY <1>6 DEF Gone, TypeOK, vars, settled, client, issued, place, returned,
              gathered, server
<1> QED BY <1>1, <1>2, <1>3, <1>4, <1>5, <1>6 DEF Next

(* Whatever the caller passes, the server sends and the decoder does, every *)
(* variable of the connection keeps its type: the loops of                  *)
(* read_query_response and insert_blocks_with return nothing but Ok, the    *)
(* server's Exception or an error, and only packets of the protocol are in  *)
(* flight.                                                                  *)
THEOREM WellTyped == Spec => []TypeOK
<1>1. Init => TypeOK
  BY TypeInit
<1>2. TypeOK /\ [Next]_vars => TypeOK'
  BY TypeStep
<1> QED BY <1>1, <1>2, PTL DEF Spec

-----------------------------------------------------------------------------
(* How calls and answers pair. *)

(* A caller gives query() no INSERT that waits for data, insert_blocks()   *)
(* nothing that returns rows, and neither an empty block.                  *)
Protocol ==
  /\ "insert" \notin QueryStatements /\ "select" \notin InsertStatements
  /\ "empty" \notin BlockKinds

Out == c2s \o write_buf \o todo

(* From lo to hi: blocks, and the empty one that ends them. *)
BlocksAt(q, lo, hi, comp) ==
  /\ lo <= hi
  /\ \A i \in lo..hi : /\ q[i].type = "Data" /\ q[i].comp = comp
                       /\ q[i].body = "empty" <=> i = hi

Expected(loop) ==
  IF loop = "select" THEN {"select", "command"} ELSE {"insert", "command"}

(* From lo to the end: the request of the present call. *)
RequestAt(q, lo) ==
  /\ q[lo].req = call
  /\ \/ wait = "pong" /\ lo = Len(q) /\ q[lo].type = "Ping"
     \/ /\ wait \in {"select", "schema"}
        /\ q[lo].type = "Query" /\ q[lo].body \in Expected(wait)
        /\ q[lo].comp = query_compression
        /\ BlocksAt(q, lo + 1, Len(q), query_compression)

(* The first k packets are what is left of an INSERT the server has failed. *)
Left(k) ==
  \/ srv = "idle" /\ k = 0
  \/ srv = "skip" /\ BlocksAt(Out, 1, k, serving.comp)

Has(type) == \E i \in DOMAIN s2c : s2c[i].type = type

Terminal == {"Pong", "EndOfStream", "Exception"}

(* No call is in progress. *)
Quiet ==
  /\ s2c = <<>> /\ todo = <<>> /\ write_buf = <<>>
  /\ serving.req <= call /\ Left(Len(Out))

(* The server has not begun with the present call. *)
Before ==
  /\ serving.req < call /\ s2c = <<>>
  /\ \E k \in 0..(Len(Out) - 1) : Left(k) /\ RequestAt(Out, k + 1)

(* What waits to be read: of this call, in order, and decodable. *)
Answers ==
  \A i \in DOMAIN s2c :
    /\ s2c[i].req = call /\ s2c[i].type # "Fragment"
    /\ s2c[i].comp = ReadCompressed(s2c[i].type)
    /\ s2c[i].type \in Terminal => i = Len(s2c) /\ srv \in {"idle", "skip"}

Remaining == BlocksAt(Out, 1, Len(Out), serving.comp)

(* Where the server is with the present call. *)
Progressed ==
  \/ /\ srv = "tables" /\ wait \in {"select", "schema"}
     /\ serving.body \in Expected(wait) /\ s2c = <<>> /\ Remaining
  \/ srv = "answer" /\ wait = "select" /\ Out = <<>>
  \/ /\ srv = "answer" /\ wait = "schema" /\ serving.body = "command"
     /\ Out = <<>> /\ ~Has("Data")
  \/ srv = "setup" /\ wait = "schema" /\ Out = <<>> /\ ~Has("Data")
  \/ srv \in {"body", "skip"} /\ wait = "schema" /\ Out = <<>> /\ Has("Data")
  \/ srv \in {"body", "skip"} /\ wait = "drain" /\ Remaining
  \/ srv = "finish" /\ wait = "drain" /\ Out = <<>>
  \/ srv = "idle" /\ Out = <<>> /\ (wait = "schema" => ~Has("Data"))

During ==
  /\ serving.req = call
  /\ wait # "pong" => serving.comp = query_compression
  /\ Answers /\ Progressed

Consistent(q) == \A i \in DOMAIN q : q[i].body # "inconsistent"

(* What is written is sound, and buffered only as long as it is written. *)
Written ==
  /\ Consistent(c2s) /\ Consistent(write_buf)
  /\ ~write_chunked => write_buf = <<>>
  /\ pc = "read" => todo = <<>> /\ write_buf = <<>>

(* Calls and answers are in step. *)
InStep ==
  /\ Written
  /\ pc \in {"idle", "dropped"} => Quiet
  /\ pc \in {"write", "read"} => Before \/ During

IInv ==
  /\ TypeOK
  /\ protocol = Negotiated(ClientVersion, ServerVersion)
  /\ ~tainted => InStep

-----------------------------------------------------------------------------
(* What the client has still to say, as one sequence. *)

LEMMA OutType ==
  ASSUME TypeOK
  PROVE  /\ Out \in Seq(ClientPackets)
         /\ Len(Out) = Len(c2s) + Len(write_buf) + Len(todo)
         /\ Len(Out) \in Nat /\ Len(c2s) \in Nat
         /\ \A i \in 1..Len(c2s) : Out[i] = c2s[i]
<1>1. /\ c2s \in Seq(ClientPackets) /\ write_buf \in Seq(ClientPackets)
      /\ todo \in Seq(ClientPackets)
  BY DEF TypeOK
<1>2. /\ Len(c2s) \in Nat /\ Len(write_buf) \in Nat /\ Len(todo) \in Nat
  BY <1>1, LenProperties
<1>3. /\ c2s \o write_buf \in Seq(ClientPackets)
      /\ Len(c2s \o write_buf) = Len(c2s) + Len(write_buf)
      /\ \A i \in 1..Len(c2s) : (c2s \o write_buf)[i] = c2s[i]
  BY <1>1, <1>2, ConcatProperties
<1>4. /\ Out \in Seq(ClientPackets)
      /\ Len(Out) = Len(c2s \o write_buf) + Len(todo)
      /\ \A i \in 1..Len(c2s \o write_buf) : Out[i] = (c2s \o write_buf)[i]
  BY <1>1, <1>2, <1>3, ConcatProperties DEF Out
<1>5. \A i \in 1..Len(c2s) : Out[i] = c2s[i]
  BY <1>2, <1>3, <1>4
<1> QED BY <1>2, <1>3, <1>4, <1>5

LEMMA OutTaken ==
  ASSUME TypeOK, TypeOK', c2s # <<>>, c2s' = Tail(c2s),
         UNCHANGED <<write_buf, todo>>
  PROVE  /\ Len(Out) >= 1 /\ Out[1] = Head(c2s) /\ Head(c2s) = c2s[1]
         /\ 1 \in DOMAIN c2s
         /\ Len(Out') = Len(Out) - 1
         /\ \A i \in 1..Len(Out') : Out'[i] = Out[i + 1]
<1>1. /\ c2s \in Seq(ClientPackets) /\ write_buf \in Seq(ClientPackets)
      /\ todo \in Seq(ClientPackets) /\ Tail(c2s) \in Seq(ClientPackets)
  BY QueueTypes DEF TypeOK
<1>2. /\ Len(c2s) \in Nat \ {0} /\ Len(write_buf) \in Nat /\ Len(todo) \in Nat
      /\ DOMAIN c2s = 1..Len(c2s)
  BY <1>1, LenProperties, EmptySeq
<1>3. /\ Len(Tail(c2s)) = Len(c2s) - 1
      /\ \A i \in 1..Len(Tail(c2s)) : Tail(c2s)[i] = c2s[i + 1]
  BY <1>1, HeadTailProperties
<1> DEFINE q == c2s \o write_buf
           r == Tail(c2s) \o write_buf
<1>4. /\ q \in Seq(ClientPackets) /\ Len(q) = Len(c2s) + Len(write_buf)
      /\ \A i \in 1..Len(q) :
           q[i] = IF i <= Len(c2s) THEN c2s[i] ELSE write_buf[i - Len(c2s)]
  BY <1>1, <1>2, ConcatProperties
<1>5. /\ r \in Seq(ClientPackets) /\ Len(r) = Len(c2s) - 1 + Len(write_buf)
      /\ \A i \in 1..Len(r) :
           r[i] = IF i <= Len(c2s) - 1 THEN Tail(c2s)[i]
                  ELSE write_buf[i - (Len(c2s) - 1)]
  BY <1>1, <1>2, <1>3, ConcatProperties
<1>6. \A i \in 1..Len(r) : r[i] = q[i + 1]
  <2> SUFFICES ASSUME NEW i \in 1..Len(r) PROVE r[i] = q[i + 1]
    OBVIOUS
  <2>1. i + 1 \in 1..Len(q) /\ i + 1 - Len(c2s) = i - (Len(c2s) - 1)
    BY <1>2, <1>4, <1>5
  <2>2. CASE i <= Len(c2s) - 1
    BY <1>2, <1>3, <1>4, <1>5, <2>1, <2>2
  <2>3. CASE ~(i <= Len(c2s) - 1)
    BY <1>2, <1>4, <1>5, <2>1, <2>3
  <2> QED BY <2>2, <2>3
<1>7. /\ Len(q \o todo) = Len(q) + Len(todo)
      /\ \A i \in 1..Len(q) + Len(todo) :
           (q \o todo)[i] = IF i <= Len(q) THEN q[i] ELSE todo[i - Len(q)]
      /\ Len(r \o todo) = Len(r) + Len(todo)
      /\ \A i \in 1..Len(r) + Len(todo) :
           (r \o todo)[i] = IF i <= Len(r) THEN r[i] ELSE todo[i - Len(r)]
  BY <1>1, <1>4, <1>5, ConcatProperties
<1>8. Out = q \o todo /\ Out' = r \o todo
  BY DEF Out
<1>9. Len(q) \in Nat /\ Len(r) \in Nat /\ Len(r) = Len(q) - 1
  BY <1>2, <1>4, <1>5
<1> HIDE DEF q, r
<1>10. /\ Len(Out) = Len(q) + Len(todo) /\ Len(Out') = Len(Out) - 1
  BY <1>2, <1>7, <1>8, <1>9
<1>11. \A i \in 1..Len(Out') : Out'[i] = Out[i + 1]
  <2> SUFFICES ASSUME NEW i \in 1..(Len(r) + Len(todo))
               PROVE  (r \o todo)[i] = (q \o todo)[i + 1]
    BY <1>7, <1>8
  <2>1. i + 1 \in 1..(Len(q) + Len(todo)) /\ i + 1 - Len(q) = i - Len(r)
    BY <1>2, <1>9
  <2>2. CASE i <= Len(r)
    BY <1>2, <1>6, <1>7, <1>9, <2>1, <2>2
  <2>3. CASE ~(i <= Len(r))
    BY <1>2, <1>7, <1>9, <2>1, <2>3
  <2> QED BY <2>2, <2>3
<1>12. Out[1] = c2s[1] /\ Head(c2s) = c2s[1]
  BY <1>1, <1>2, OutType
<1> QED BY <1>2, <1>4, <1>10, <1>11, <1>12

LEMMA OutKept ==
  ASSUME TypeOK, TypeOK', Written,
         \/ /\ todo # <<>> /\ todo' = Tail(todo) /\ PutPacket(Head(todo))
         \/ FlushBuffer /\ UNCHANGED todo
  PROVE  Out' = Out
<1>1. /\ c2s \in Seq(ClientPackets) /\ write_buf \in Seq(ClientPackets)
      /\ todo \in Seq(ClientPackets)
  BY DEF TypeOK
<1>2. CASE FlushBuffer /\ UNCHANGED todo
  <2>1. c2s \o write_buf \in Seq(ClientPackets)
    BY <1>1, ConcatProperties
  <2>2. (c2s \o write_buf) \o <<>> = c2s \o write_buf
    BY <2>1, ConcatEmptySeq
  <2> QED BY <1>2, <2>2 DEF FlushBuffer, Out
<1>3. CASE todo # <<>> /\ todo' = Tail(todo) /\ PutPacket(Head(todo))
  <2> DEFINE p == Head(todo)
             t == Tail(todo)
  <2>1. p \in ClientPackets /\ t \in Seq(ClientPackets) /\ <<p>> \o t = todo
    <3>1. p \in ClientPackets /\ t \in Seq(ClientPackets)
      BY <1>1, <1>3, QueueTypes
    <3>2. /\ Len(todo) \in Nat \ {0} /\ Len(t) = Len(todo) - 1
          /\ \A i \in 1..Len(t) : t[i] = todo[i + 1]
      BY <1>1, <1>3, EmptySeq, HeadTailProperties
    <3>3. /\ <<p>> \in Seq(ClientPackets) /\ Len(<<p>>) = 1 /\ <<p>>[1] = p
      BY <3>1
    <3>4. /\ <<p>> \o t \in Seq(ClientPackets) /\ Len(<<p>> \o t) = 1 + Len(t)
          /\ \A i \in 1..1 + Len(t) :
               (<<p>> \o t)[i] = IF i <= 1 THEN <<p>>[i] ELSE t[i - 1]
      BY <3>1, <3>3, ConcatProperties
    <3>5. p = todo[1]
      BY <1>1, <1>3
    <3>6. \A i \in 1..Len(todo) : (<<p>> \o t)[i] = todo[i]
      <4> SUFFICES ASSUME NEW i \in 1..Len(todo)
                   PROVE  (<<p>> \o t)[i] = todo[i]
        OBVIOUS
      <4>1. CASE i = 1
        BY <3>2, <3>3, <3>4, <3>5, <4>1
      <4>2. CASE i # 1
        <5>1. i - 1 \in 1..Len(t) /\ i - 1 + 1 = i /\ ~(i <= 1)
          BY <3>2, <4>2
        <5> QED BY <3>2, <3>4, <5>1
      <4> QED BY <4>1, <4>2
    <3>7. Len(<<p>> \o t) = Len(todo)
      BY <3>2, <3>4
    <3> QED BY <1>1, <3>1, <3>4, <3>6, <3>7, SeqEqual
  <2> HIDE DEF p, t
  <2>2. <<p>> \in Seq(ClientPackets)
    BY <2>1
  <2>3. /\ Append(c2s, p) = c2s \o <<p>>
        /\ Append(write_buf, p) = write_buf \o <<p>>
    BY <1>1, <2>1, AppendIsConcat
  <2>4. /\ c2s \o <<p>> \in Seq(ClientPackets)
        /\ write_buf \o <<p>> \in Seq(ClientPackets)
        /\ c2s \o write_buf \in Seq(ClientPackets)
        /\ c2s \o (write_buf \o <<p>>) \in Seq(ClientPackets)
    BY <1>1, <2>2, ConcatProperties
  <2>5. Out = (c2s \o write_buf) \o (<<p>> \o t)
    BY <2>1 DEF Out
  <2>6. Out = ((c2s \o write_buf) \o <<p>>) \o t
    BY <2>1, <2>2, <2>4, <2>5, ConcatAssociative
  <2>7. Out = (c2s \o (write_buf \o <<p>>)) \o t
    <3>1. (c2s \o write_buf) \o <<p>> = c2s \o (write_buf \o <<p>>)
      BY <1>1, <2>2, ConcatAssociative
    <3> QED BY <2>6, <3>1
  <2>8. CASE ~write_chunked
    <3>1. write_buf = <<>> /\ c2s' = c2s \o <<p>> /\ write_buf' = <<>>
      BY <1>3, <2>3, <2>8 DEF PutPacket, Written, p
    <3>2. c2s \o write_buf = c2s /\ (c2s \o <<p>>) \o <<>> = c2s \o <<p>>
      BY <1>1, <2>4, <3>1, ConcatEmptySeq
    <3> QED BY <1>3, <2>6, <3>1, <3>2 DEF Out, t
  <2>9. CASE c2s' = c2s \o Append(write_buf, p) /\ write_buf' = <<>>
    <3>1. (c2s \o (write_buf \o <<p>>)) \o <<>> = c2s \o (write_buf \o <<p>>)
      BY <2>4, ConcatEmptySeq
    <3> QED BY <1>3, <2>3, <2>7, <2>9, <3>1 DEF Out, t
  <2>10. CASE write_buf' = Append(write_buf, p) /\ UNCHANGED c2s
    BY <1>3, <2>3, <2>7, <2>10, <1>1, <2>2, ConcatAssociative DEF Out, t
  <2> QED BY <1>3, <2>8, <2>9, <2>10 DEF PutPacket, p
<1> QED BY <1>2, <1>3

LEMMA OutBegun ==
  ASSUME TypeOK, TypeOK', NEW packets \in Seq(ClientPackets),
         todo = <<>>, write_buf = <<>>, todo' = packets,
         UNCHANGED <<c2s, write_buf>>
  PROVE  /\ Len(Out') = Len(Out) + Len(packets)
         /\ \A i \in 1..Len(Out) : Out'[i] = Out[i]
         /\ \A i \in 1..Len(packets) : Out'[Len(Out) + i] = packets[i]
<1>1. c2s \in Seq(ClientPackets)
  BY DEF TypeOK
<1>2. c2s \o <<>> = c2s
  BY <1>1, ConcatEmptySeq
<1>3. Out = c2s /\ Out' = c2s \o packets
  BY <1>2 DEF Out
<1>4. Len(c2s) \in Nat /\ Len(packets) \in Nat
  BY <1>1, LenProperties
<1>5. /\ Len(c2s \o packets) = Len(c2s) + Len(packets)
      /\ \A i \in 1..Len(c2s) + Len(packets) :
           (c2s \o packets)[i] =
             IF i <= Len(c2s) THEN c2s[i] ELSE packets[i - Len(c2s)]
  BY <1>1, ConcatProperties
<1>6. ASSUME NEW i \in 1..Len(packets)
      PROVE  (c2s \o packets)[Len(c2s) + i] = packets[i]
  <2>1. /\ Len(c2s) + i \in 1..Len(c2s) + Len(packets)
        /\ ~(Len(c2s) + i <= Len(c2s)) /\ Len(c2s) + i - Len(c2s) = i
    BY <1>4
  <2> QED BY <1>5, <2>1
<1>7. \A i \in 1..Len(c2s) : (c2s \o packets)[i] = c2s[i]
  BY <1>4, <1>5
<1> QED BY <1>3, <1>5, <1>6, <1>7

-----------------------------------------------------------------------------
(* The scripts. *)

LEMMA InsertScript ==
  ASSUME Protocol, NEW r \in Nat, NEW c \in BOOLEAN,
         NEW kinds \in Seq(BlockKinds)
  PROVE  /\ Len(InsertBody(r, kinds, c)) = Len(kinds) + 1
         /\ Len(kinds) \in Nat
         /\ BlocksAt(InsertBody(r, kinds, c), 1, Len(kinds) + 1, c)
<1> DEFINE d == DataPackets(r, kinds, c)
           m == <<EmptyMarker(r, c)>>
<1>1. Len(kinds) \in Nat /\ \A i \in 1..Len(kinds) : kinds[i] \in BlockKinds
  BY LenProperties, ElementOfSeq
<1>2. d \in Seq(ClientPackets) /\ m \in Seq(ClientPackets)
  BY DataPacketsType, PacketTypes
<1>3. /\ Len(d) = Len(kinds)
      /\ \A i \in 1..Len(kinds) : d[i] = DataPacket(r, kinds[i], c)
  BY <1>1 DEF DataPackets
<1>4. Len(m) = 1 /\ m[1] = EmptyMarker(r, c)
  OBVIOUS
<1> HIDE DEF d, m
<1>5. /\ Len(d \o m) = Len(kinds) + 1
      /\ \A i \in 1..Len(kinds) + 1 :
           (d \o m)[i] = IF i <= Len(kinds) THEN d[i] ELSE m[i - Len(kinds)]
  <2>1. /\ Len(d \o m) = Len(d) + Len(m)
        /\ \A i \in 1..Len(d) + Len(m) :
             (d \o m)[i] = IF i <= Len(d) THEN d[i] ELSE m[i - Len(d)]
    BY <1>2, ConcatProperties
  <2> QED BY <1>3, <1>4, <2>1
<1>6. ASSUME NEW i \in 1..Len(kinds) + 1
      PROVE  /\ (d \o m)[i].type = "Data" /\ (d \o m)[i].comp = c
             /\ (d \o m)[i].body = "empty" <=> i = Len(kinds) + 1
  <2>1. CASE i <= Len(kinds)
    <3>1. kinds[i] # "empty" /\ (d \o m)[i] = DataPacket(r, kinds[i], c)
      BY <1>1, <1>3, <1>5, <2>1 DEF Protocol
    <3> QED BY <1>1, <2>1, <3>1 DEF DataPacket
  <2>2. CASE ~(i <= Len(kinds))
    <3>1. i = Len(kinds) + 1 /\ i - Len(kinds) = 1
      BY <1>1, <2>2
    <3>2. (d \o m)[i] = EmptyMarker(r, c)
      BY <1>4, <1>5, <2>2, <3>1
    <3> QED BY <3>1, <3>2 DEF EmptyMarker, DataPacket
  <2> QED BY <2>1, <2>2
<1>7. InsertBody(r, kinds, c) = d \o m
  BY DEF InsertBody, d, m
<1> QED BY <1>1, <1>5, <1>6, <1>7 DEF BlocksAt

LEMMA QueryScript ==
  ASSUME Protocol, NEW r \in Nat, NEW c \in BOOLEAN,
         NEW kinds \in Seq(BlockKinds), NEW s \in Statements
  PROVE  LET q == QueryAndTables(r, s, c, kinds) IN
         /\ q \in Seq(ClientPackets) /\ Len(q) = Len(kinds) + 2
         /\ Len(kinds) \in Nat
         /\ q[1] = QueryPacket(r, s, c)
         /\ BlocksAt(q, 2, Len(q), c)
<1> DEFINE h == <<QueryPacket(r, s, c)>>
           b == InsertBody(r, kinds, c)
<1>1. /\ h \in Seq(ClientPackets) /\ Len(h) = 1 /\ h[1] = QueryPacket(r, s, c)
      /\ b \in Seq(ClientPackets)
  BY PacketTypes, ScriptTypes
<1>2. QueryAndTables(r, s, c, kinds) = h \o b
  <2>1. /\ DataPackets(r, kinds, c) \in Seq(ClientPackets)
        /\ <<EmptyMarker(r, c)>> \in Seq(ClientPackets)
    BY DataPacketsType, PacketTypes
  <2>2. (h \o DataPackets(r, kinds, c)) \o <<EmptyMarker(r, c)>>
          = h \o (DataPackets(r, kinds, c) \o <<EmptyMarker(r, c)>>)
    BY <1>1, <2>1, ConcatAssociative
  <2> QED BY <2>2 DEF QueryAndTables, InsertBody
<1>3. Len(b) = Len(kinds) + 1 /\ Len(kinds) \in Nat /\ BlocksAt(b, 1, Len(b), c)
  BY InsertScript
<1> HIDE DEF h, b
<1>4. /\ h \o b \in Seq(ClientPackets) /\ Len(h \o b) = 1 + Len(b)
      /\ \A i \in 1..1 + Len(b) : (h \o b)[i] = IF i <= 1 THEN h[i] ELSE b[i - 1]
  <2>1. /\ h \o b \in Seq(ClientPackets) /\ Len(h \o b) = Len(h) + Len(b)
        /\ \A i \in 1..Len(h) + Len(b) :
             (h \o b)[i] = IF i <= Len(h) THEN h[i] ELSE b[i - Len(h)]
    BY <1>1, ConcatProperties
  <2> QED BY <1>1, <2>1
<1>5. (h \o b)[1] = QueryPacket(r, s, c)
  BY <1>1, <1>3, <1>4
<1>6. BlocksAt(h \o b, 2, Len(b) + 1, c)
  <2>1. \A i \in 2..Len(b) + 1 : (h \o b)[i] = b[i - 1] /\ i - 1 \in 1..Len(b)
    BY <1>3, <1>4
  <2>2. 2 <= Len(b) + 1 /\ \A i \in 2..Len(b) + 1 : i - 1 = Len(b) <=> i = Len(b) + 1
    BY <1>3
  <2> QED BY <1>3, <2>1, <2>2 DEF BlocksAt
<1>7. Len(b) + 1 = Len(h \o b) /\ Len(h \o b) = Len(kinds) + 2
  BY <1>3, <1>4
<1> QED BY <1>2, <1>3, <1>4, <1>5, <1>6, <1>7

-----------------------------------------------------------------------------
(* Steps that leave everything as it is but where Out is on its way. *)

LEMMA NotTainted ==
  ASSUME NEW o, NEW req, Return(o, req), ~tainted'
  PROVE  ~tainted /\ o # "error"
BY Zenon DEF Return

LEMMA LeftKept ==
  ASSUME Out' = Out, UNCHANGED <<srv, serving>>, NEW k
  PROVE  Left(k)' <=> Left(k)
BY DEF Left, BlocksAt

LEMMA PlaceKept ==
  ASSUME Out' = Out,
         UNCHANGED <<s2c, srv, serving, call, wait, query_compression,
                     protocol>>
  PROVE  (Before => Before') /\ (During => During')
<1>1. Before => Before'
  <2>1. \A k : RequestAt(Out, k)' <=> RequestAt(Out, k)
    BY DEF RequestAt, BlocksAt, Expected
  <2> QED BY <2>1, LeftKept DEF Before
<1>2. Answers => Answers'
  BY DEF Answers, ReadCompressed, InVersion
<1>3. Progressed => Progressed'
  <2>1. \A type : Has(type)' <=> Has(type)
    BY DEF Has
  <2>2. Remaining' <=> Remaining
    BY DEF Remaining, BlocksAt
  <2>3. Expected(wait)' = Expected(wait)
    BY DEF Expected
  <2> QED BY <2>1, <2>2, <2>3 DEF Progressed
<1> QED BY <1>1, <1>2, <1>3 DEF During

LEMMA ConsistentConcat ==
  ASSUME NEW q \in Seq(ClientPackets), NEW r \in Seq(ClientPackets),
         Consistent(q), Consistent(r)
  PROVE  Consistent(q \o r)
<1>1. /\ q \o r \in Seq(ClientPackets) /\ Len(q \o r) = Len(q) + Len(r)
      /\ \A i \in 1..Len(q) + Len(r) :
           (q \o r)[i] = IF i <= Len(q) THEN q[i] ELSE r[i - Len(q)]
  BY ConcatProperties
<1>2. /\ DOMAIN q = 1..Len(q) /\ DOMAIN r = 1..Len(r)
      /\ Len(q) \in Nat /\ Len(r) \in Nat
  BY LenProperties
<1>3. DOMAIN (q \o r) = 1..Len(q) + Len(r)
  BY <1>1, LenProperties
<1>4. ASSUME NEW i \in 1..Len(q) + Len(r)
      PROVE  (q \o r)[i].body # "inconsistent"
  <2>1. CASE i <= Len(q)
    BY <1>1, <1>2, <2>1 DEF Consistent
  <2>2. CASE ~(i <= Len(q))
    <3>1. i - Len(q) \in 1..Len(r)
      BY <1>2, <2>2
    <3> QED BY <1>1, <1>2, <2>2, <3>1 DEF Consistent
  <2> QED BY <2>1, <2>2
<1> QED BY <1>3, <1>4 DEF Consistent

LEMMA ConsistentAppend ==
  ASSUME NEW q \in Seq(ClientPackets), NEW p \in ClientPackets,
         Consistent(q), p.body # "inconsistent"
  PROVE  Consistent(Append(q, p))
<1>1. <<p>> \in Seq(ClientPackets) /\ Consistent(<<p>>)
  BY DEF Consistent
<1>2. Append(q, p) = q \o <<p>>
  BY AppendIsConcat
<1> QED BY <1>1, <1>2, ConsistentConcat

-----------------------------------------------------------------------------
(* The client writes. *)

LEMMA WritingInStep ==
  ASSUME IInv, TypeOK', Write \/ Flush \/ BrokenPipe, ~tainted'
  PROVE  InStep'
<1>1. /\ ~tainted
      /\ \/ Flush
         \/ Write /\ Head(todo).body # "inconsistent" /\ todo' = Tail(todo)
                  /\ UNCHANGED returned
  <2>1. CASE Write
    BY <2>1, NotTainted DEF Write, returned
  <2>2. CASE Flush
    BY <2>2 DEF Flush
  <2>3. CASE BrokenPipe
    BY <2>3, NotTainted DEF BrokenPipe
  <2> QED BY <2>1, <2>2, <2>3
<1>2. Out' = Out
  BY <1>1, OutKept DEF IInv, InStep, Write, Flush, place
<1>3. /\ UNCHANGED <<s2c, srv, serving, call, wait, query_compression, protocol,
                     write_chunked>>
      /\ pc = "write" /\ pc' \in {"write", "read"}
  BY <1>1 DEF Write, Flush, settled, issued, place, returned, server
<1>4. Before' \/ During'
  BY <1>1, <1>2, <1>3, PlaceKept DEF IInv, InStep
<1>5. /\ c2s \in Seq(ClientPackets) /\ write_buf \in Seq(ClientPackets)
      /\ Consistent(c2s) /\ Consistent(write_buf)
      /\ ~write_chunked => write_buf = <<>>
  BY <1>1 DEF IInv, TypeOK, InStep, Written
<1>6. Consistent(<<>>)
  BY DEF Consistent
<1>7. Written'
  <2>1. CASE Write
    <3> DEFINE p == Head(todo)
    <3>1. p.body # "inconsistent" /\ p \in ClientPackets
      BY <1>1, <2>1, QueueTypes DEF Write, Flush, IInv, TypeOK
    <3>2. PutPacket(p) /\ pc' = "write"
      BY <1>1, <2>1 DEF Write, Flush, returned
    <3> HIDE DEF p
    <3>3. /\ Consistent(Append(c2s, p)) /\ Consistent(Append(write_buf, p))
          /\ Append(write_buf, p) \in Seq(ClientPackets)
      BY <1>5, <3>1, ConsistentAppend, AppendProperties
    <3>4. Consistent(c2s \o Append(write_buf, p))
      BY <1>5, <3>3, ConsistentConcat
    <3>5. Consistent(c2s)' /\ Consistent(write_buf)'
      <4>1. CASE c2s' = Append(c2s, p) /\ UNCHANGED write_buf
        BY <1>5, <3>3, <4>1 DEF Consistent
      <4>2. CASE c2s' = c2s \o Append(write_buf, p) /\ write_buf' = <<>>
        BY <1>6, <3>4, <4>2 DEF Consistent
      <4>3. CASE write_buf' = Append(write_buf, p) /\ UNCHANGED c2s
        BY <1>5, <3>3, <4>3 DEF Consistent
      <4> QED BY <3>2, <4>1, <4>2, <4>3 DEF PutPacket
    <3>6. (~write_chunked => write_buf = <<>>)'
      BY <1>3, <1>5, <3>2 DEF PutPacket
    <3> QED BY <3>2, <3>5, <3>6 DEF Written
  <2>2. CASE Flush
    <3>1. c2s' = c2s \o write_buf /\ write_buf' = <<>> /\ todo' = <<>>
      BY <2>2 DEF Flush, FlushBuffer, place
    <3>2. Consistent(c2s \o write_buf)
      BY <1>5, ConsistentConcat
    <3>3. Consistent(c2s)' /\ Consistent(write_buf)'
      BY <1>6, <3>1, <3>2 DEF Consistent
    <3> QED BY <3>1, <3>3 DEF Written
  <2> QED BY <1>1, <2>1, <2>2
<1> QED BY <1>3, <1>4, <1>7 DEF InStep

-----------------------------------------------------------------------------
(* The server answers. *)

(* A request is answered only while its call waits for the answer. *)
LEMMA AnsweringDuring ==
  ASSUME IInv, ~tainted, ServerFree, Answering
  PROVE  /\ During /\ wait # "pong" /\ pc \in {"write", "read"}
         /\ \A i \in DOMAIN s2c : s2c[i].type \notin Terminal
<1>1. srv \notin {"idle", "skip", "tables"}
  BY DEF Answering
<1>2. pc \notin {"idle", "dropped"}
  BY <1>1 DEF IInv, InStep, Quiet, Left
<1>3. pc \in {"write", "read"}
  BY <1>2 DEF IInv, TypeOK
<1>4. During
  BY <1>1, <1>3 DEF IInv, InStep, Before, Left
<1>5. wait # "pong"
  BY <1>1, <1>4 DEF During, Progressed
<1> QED BY <1>1, <1>3, <1>4, <1>5 DEF During, Answers

LEMMA PostedAnswers ==
  ASSUME IInv, ~tainted, ServerFree, Answering,
         NEW type, NEW body, NEW delta, Post(type, body, delta),
         type # "Fragment", type \in Terminal => srv' \in {"idle", "skip"},
         UNCHANGED <<call, query_compression, protocol>>
  PROVE  Answers'
<1> DEFINE p == ServerPacket(type, body, delta)
<1>1. /\ s2c \in Seq(ServerPackets) /\ s2c' = Append(s2c, p)
      /\ Len(s2c) \in Nat /\ DOMAIN s2c = 1..Len(s2c)
  BY LenProperties DEF IInv, TypeOK, Post
<1>2. /\ DOMAIN s2c' = 1..Len(s2c) + 1 /\ Len(s2c') = Len(s2c) + 1
      /\ \A i \in 1..Len(s2c) : s2c'[i] = s2c[i]
      /\ s2c'[Len(s2c) + 1] = p
  BY <1>1
<1>3. /\ p.type = type /\ p.req = call
      /\ p.comp = ReadCompressed(type)
  <2>1. /\ serving.req = call /\ serving.comp = query_compression
        /\ protocol = Negotiated(ClientVersion, ServerVersion)
    BY AnsweringDuring DEF During, IInv
  <2>2. ServerCompressed(type) = ReadCompressed(type)
    BY <2>1 DEF ServerCompressed, ReadCompressed
  <2> QED BY <2>1, <2>2 DEF ServerPacket
<1> HIDE DEF p
<1>4. \A t : ReadCompressed(t) =
               \/ t \in {"Data", "Totals", "Extremes"} /\ query_compression'
               \/ /\ t \in {"Log", "ProfileEvents"}
                  /\ query_compression'
                  /\ InVersion(COMPRESSED_LOGS_PROFILE_EVENTS_COLUMNS, protocol')
  BY DEF ReadCompressed
<1>5. ASSUME NEW i \in 1..Len(s2c) + 1
      PROVE  /\ s2c'[i].req = call' /\ s2c'[i].type # "Fragment"
             /\ s2c'[i].comp = ReadCompressed(s2c'[i].type)
             /\ s2c'[i].type \in Terminal =>
                  i = Len(s2c') /\ srv' \in {"idle", "skip"}
  <2>1. CASE i \in 1..Len(s2c)
    <3>1. /\ s2c[i].req = call /\ s2c[i].type # "Fragment"
          /\ s2c[i].comp = ReadCompressed(s2c[i].type)
          /\ s2c[i].type \notin Terminal
      BY <1>1, <2>1, AnsweringDuring DEF During, Answers
    <3> QED BY <1>2, <2>1, <3>1
  <2>2. CASE i = Len(s2c) + 1
    BY <1>2, <1>3, <2>2
  <2> QED BY <1>1, <2>1, <2>2
<1> QED BY <1>2, <1>4, <1>5 DEF Answers, ReadCompressed

LEMMA PostedHas ==
  ASSUME TypeOK, NEW type, NEW body, NEW delta, Post(type, body, delta)
  PROVE  Has("Data")' <=> Has("Data") \/ type = "Data"
<1> DEFINE p == ServerPacket(type, body, delta)
<1>1. s2c \in Seq(ServerPackets) /\ s2c' = Append(s2c, p) /\ p.type = type
  BY DEF TypeOK, Post, ServerPacket
<1> HIDE DEF p
<1>2. /\ DOMAIN s2c' = 1..Len(s2c) + 1 /\ Len(s2c) \in Nat
      /\ DOMAIN s2c = 1..Len(s2c)
      /\ \A i \in 1..Len(s2c) : s2c'[i] = s2c[i]
      /\ s2c'[Len(s2c) + 1] = p
  BY <1>1
<1> QED BY <1>1, <1>2 DEF Has

LEMMA PostInStep ==
  ASSUME IInv, TypeOK', ~tainted, ServerFree, Answering,
         NEW type, NEW body, NEW delta, Post(type, body, delta),
         type # "Fragment",
         \/ /\ type \notin Terminal /\ srv' = srv
            /\ type = "Data" => srv = "answer" /\ serving.body = "select"
         \/ type = "Data" /\ srv = "setup" /\ srv' = "body"
         \/ /\ type \in Terminal
            /\ \/ srv = "body" /\ srv' = "skip"
               \/ srv # "body" /\ srv' = "idle",
         UNCHANGED <<settled, client, c2s, serving>>
  PROVE  InStep'
<1>1. /\ During /\ wait # "pong" /\ pc \in {"write", "read"}
      /\ srv \in {"answer", "setup", "body", "finish"}
  BY AnsweringDuring DEF Answering
<1>2. UNCHANGED <<call, wait, pc, todo, write_buf, query_compression, protocol,
                  write_chunked, serving, c2s>>
  BY DEF settled, client, issued, place, returned
<1>3. Out' = Out
  BY <1>2 DEF Out
<1>4. Answers'
  <2>1. type \in Terminal => srv' \in {"idle", "skip"}
    BY DEF Terminal
  <2> QED BY <1>2, <2>1, PostedAnswers
<1>5. Has("Data")' <=> Has("Data") \/ type = "Data"
  BY PostedHas DEF IInv
<1>6. Remaining' <=> Remaining
  BY <1>2, <1>3 DEF Remaining, BlocksAt
<1>7. Progressed'
  <2>1. CASE srv = "answer" /\ wait = "select"
    <3>1. srv' \in {"answer", "idle"} /\ Out = <<>>
      BY <1>1, <2>1 DEF During, Progressed
    <3> QED BY <1>2, <1>3, <2>1, <3>1 DEF Progressed
  <2>2. CASE srv = "answer" /\ wait # "select"
    <3>1. /\ wait = "schema" /\ serving.body = "command" /\ Out = <<>>
          /\ ~Has("Data")
      BY <1>1, <2>2 DEF During, Progressed
    <3>2. srv' \in {"answer", "idle"} /\ type # "Data"
      BY <2>2, <3>1 DEF Terminal
    <3> QED BY <1>2, <1>3, <1>5, <3>1, <3>2 DEF Progressed
  <2>3. CASE srv = "setup"
    <3>1. wait = "schema" /\ Out = <<>> /\ ~Has("Data")
      BY <1>1, <2>3 DEF During, Progressed
    <3>2. \/ srv' \in {"setup", "idle"} /\ type # "Data"
          \/ srv' = "body" /\ type = "Data"
      BY <2>3 DEF Terminal
    <3> QED BY <1>2, <1>3, <1>5, <3>1, <3>2 DEF Progressed
  <2>4. CASE srv = "body"
    <3>1. \/ wait = "schema" /\ Out = <<>> /\ Has("Data")
          \/ wait = "drain" /\ Remaining
      BY <1>1, <2>4 DEF During, Progressed
    <3>2. srv' \in {"body", "skip"}
      BY <2>4
    <3> QED BY <1>2, <1>3, <1>5, <1>6, <3>1, <3>2 DEF Progressed
  <2>5. CASE srv = "finish"
    <3>1. wait = "drain" /\ Out = <<>>
      BY <1>1, <2>5 DEF During, Progressed
    <3>2. srv' \in {"finish", "idle"}
      BY <2>5
    <3> QED BY <1>2, <1>3, <3>1, <3>2 DEF Progressed
  <2> QED BY <1>1, <2>1, <2>2, <2>3, <2>4, <2>5
<1>8. During'
  BY <1>1, <1>2, <1>4, <1>7 DEF During
<1>9. Written'
  BY <1>2 DEF IInv, InStep, Written, Consistent
<1> QED BY <1>1, <1>2, <1>8, <1>9 DEF InStep

LEMMA RepliesInStep ==
  ASSUME IInv, TypeOK', ~tainted',
         \/ \E body \in {"header", "rows", "empty"} : SendBlock(body)
         \/ SendUndecodable \/ SendProgress
         \/ \E type \in SideTypes : SendSide(type)
         \/ \E body \in {"header", "undecodable"} : SendSchema(body)
         \/ Finish \/ Throw
  PROVE  InStep'
<1> USE DEF Terminal
<1>1. ASSUME NEW type, NEW body, NEW delta, Extra(type, body, delta),
             type \notin Terminal \cup {"Fragment"},
             type = "Data" => srv = "answer" /\ serving.body = "select",
             ~tainted
      PROVE  InStep'
  BY <1>1, PostInStep DEF Extra
<1>2. ASSUME UNCHANGED client PROVE ~tainted
  BY <1>2 DEF client, returned
<1>3. ASSUME NEW body, SendBlock(body) PROVE InStep'
  BY <1>1, <1>2, <1>3 DEF SendBlock, Extra
<1>4. CASE SendUndecodable
  BY <1>1, <1>2, <1>4 DEF SendUndecodable, Extra
<1>5. CASE SendProgress
  BY <1>1, <1>2, <1>5 DEF SendProgress, Extra
<1>6. ASSUME NEW type \in SideTypes, SendSide(type) PROVE InStep'
  <2>1. type \notin Terminal \cup {"Fragment", "Data"}
    BY ConstantsAssumption DEF AllSideTypes
  <2>2. Extra(type, "none", 0) /\ ~tainted
    BY <1>2, <1>6 DEF SendSide, Extra
  <2> QED BY <1>1, <2>1, <2>2
<1>7. ASSUME NEW body, SendSchema(body) PROVE InStep'
  <2>1. Answering /\ ~tainted
    BY <1>2, <1>7 DEF SendSchema, Answering
  <2> QED BY <1>7, <2>1, PostInStep DEF SendSchema
<1>8. CASE Finish
  <2>1. Answering /\ ~tainted
    BY <1>2, <1>8 DEF Finish, Answering
  <2> QED BY <1>8, <2>1, PostInStep DEF Finish
<1>9. CASE Throw
  <2>1. ~tainted
    BY <1>2, <1>9 DEF Throw
  <2> QED BY <1>9, <2>1, PostInStep DEF Throw
<1> QED BY <1>3, <1>4, <1>5, <1>6, <1>7, <1>8, <1>9

-----------------------------------------------------------------------------
(* The server takes a packet. *)

LEMMA TakenMoves ==
  ASSUME TypeOK, TypeOK', IInv, ~tainted, NEW type, Take(type)
  PROVE  /\ Len(Out) \in Nat \ {0} /\ Out[1] = Head(c2s)
         /\ Len(Out') = Len(Out) - 1
         /\ \A i \in 1..Len(Out') : Out'[i] = Out[i + 1]
         /\ Head(c2s).type = type /\ Head(c2s).body # "inconsistent"
         /\ (Out' = <<>>) <=> (Len(Out) = 1)
         /\ Out # <<>>
         /\ UNCHANGED <<pc, wait, todo, write_buf, call, query_compression,
                        protocol, write_chunked, tainted>>
         /\ Written'
<1>1. /\ c2s # <<>> /\ Head(c2s).type = type /\ c2s' = Tail(c2s)
      /\ UNCHANGED <<pc, wait, todo, write_buf, call, query_compression,
                     protocol, write_chunked, tainted>>
  BY DEF Take, settled, client, issued, place, returned
<1>2. /\ Len(Out) >= 1 /\ Out[1] = Head(c2s) /\ Head(c2s) = c2s[1]
      /\ 1 \in DOMAIN c2s
      /\ Len(Out') = Len(Out) - 1
      /\ \A i \in 1..Len(Out') : Out'[i] = Out[i + 1]
  BY <1>1, OutTaken
<1>3. /\ Len(Out) \in Nat /\ Out \in Seq(ClientPackets)
      /\ Out' \in Seq(ClientPackets)
  <2>1. /\ c2s' \in Seq(ClientPackets) /\ write_buf' \in Seq(ClientPackets)
        /\ todo' \in Seq(ClientPackets)
    BY DEF TypeOK
  <2>2. c2s' \o write_buf' \in Seq(ClientPackets)
    BY <2>1, ConcatProperties
  <2>3. Out' \in Seq(ClientPackets)
    BY <2>1, <2>2, ConcatProperties DEF Out
  <2> QED BY <2>3, OutType
<1>4. (Out' = <<>>) <=> (Len(Out) = 1)
  BY <1>2, <1>3, EmptySeq
<1>5. Head(c2s).body # "inconsistent"
  BY <1>2 DEF IInv, InStep, Written, Consistent
<1>6. Consistent(c2s)'
  <2>1. /\ c2s \in Seq(ClientPackets) /\ Tail(c2s) \in Seq(ClientPackets)
        /\ Len(c2s) \in Nat /\ DOMAIN c2s = 1..Len(c2s)
        /\ Len(Tail(c2s)) = Len(c2s) - 1
        /\ DOMAIN Tail(c2s) = 1..Len(Tail(c2s))
        /\ \A i \in 1..Len(Tail(c2s)) : Tail(c2s)[i] = c2s[i + 1]
    BY <1>1, HeadTailProperties, LenProperties DEF TypeOK
  <2>2. \A i \in 1..Len(Tail(c2s)) : i + 1 \in 1..Len(c2s)
    BY <2>1
  <2> QED BY <1>1, <2>1, <2>2 DEF IInv, InStep, Written, Consistent
<1>7. Written'
  BY <1>1, <1>6 DEF IInv, InStep, Written, Consistent
<1> QED BY <1>1, <1>2, <1>3, <1>4, <1>5, <1>7, EmptySeq

(* Blocks move up when the packet before them is taken. *)
LEMMA BlocksMoveUp ==
  ASSUME Len(Out) \in Nat \ {0}, Len(Out') = Len(Out) - 1,
         \A i \in 1..Len(Out') : Out'[i] = Out[i + 1],
         NEW lo \in Nat \ {0, 1}, NEW hi \in 2..Len(Out), NEW c,
         BlocksAt(Out, lo, hi, c)
  PROVE  BlocksAt(Out', lo - 1, hi - 1, c)
<1>1. lo - 1 <= hi - 1
  BY DEF BlocksAt
<1>2. \A i \in (lo - 1)..(hi - 1) : Out'[i] = Out[i + 1] /\ i + 1 \in lo..hi
  OBVIOUS
<1>3. \A i \in (lo - 1)..(hi - 1) : i + 1 = hi <=> i = hi - 1
  OBVIOUS
<1> QED BY <1>1, <1>2, <1>3 DEF BlocksAt

(* A block of the body: what it is, and what the rest is without it. *)
LEMMA BlockTaken ==
  ASSUME TypeOK, TypeOK', IInv, ~tainted, Take("Data"),
         NEW k \in 1..Len(Out), NEW c, BlocksAt(Out, 1, k, c)
  PROVE  /\ Head(c2s).comp = c
         /\ Head(c2s).body = "empty" => k = 1
         /\ Head(c2s).body # "empty" =>
              k > 1 /\ BlocksAt(Out', 1, k - 1, c)
<1>1. /\ Out[1] = Head(c2s) /\ Len(Out) \in Nat \ {0}
      /\ Len(Out') = Len(Out) - 1
      /\ \A i \in 1..Len(Out') : Out'[i] = Out[i + 1]
  BY TakenMoves
<1>2. /\ Head(c2s).comp = c
      /\ Head(c2s).body = "empty" <=> 1 = k
  BY <1>1 DEF BlocksAt
<1>3. ASSUME k > 1 PROVE BlocksAt(Out', 1, k - 1, c)
  <2>1. BlocksAt(Out, 2, k, c)
    BY <1>3 DEF BlocksAt
  <2>2. k \in 2..Len(Out) /\ 2 \in Nat \ {0, 1}
    BY <1>1, <1>3
  <2>3. BlocksAt(Out', 2 - 1, k - 1, c)
    BY <1>1, <2>1, <2>2, BlocksMoveUp
  <2> QED BY <2>3
<1> QED BY <1>1, <1>2, <1>3

LEMMA RequestMovesUp ==
  ASSUME TypeOK, TypeOK', IInv, ~tainted, NEW type, Take(type),
         NEW k \in 1..(Len(Out) - 1), RequestAt(Out, k + 1)
  PROVE  RequestAt(Out, k)'
<1>1. /\ Len(Out) \in Nat \ {0} /\ Len(Out') = Len(Out) - 1
      /\ \A i \in 1..Len(Out') : Out'[i] = Out[i + 1]
      /\ UNCHANGED <<wait, call, query_compression>>
  BY TakenMoves
<1>2. k \in 1..Len(Out') /\ Out'[k] = Out[k + 1]
  BY <1>1
<1>3. CASE wait = "pong"
  BY <1>1, <1>2, <1>3 DEF RequestAt
<1>4. CASE wait # "pong"
  <2>1. /\ wait \in {"select", "schema"}
        /\ BlocksAt(Out, (k + 1) + 1, Len(Out), query_compression)
    BY <1>4 DEF RequestAt
  <2>2. (k + 1) + 1 \in Nat \ {0, 1} /\ Len(Out) \in 2..Len(Out)
    BY <1>1, <1>2
  <2>3. BlocksAt(Out', (k + 1) + 1 - 1, Len(Out) - 1, query_compression)
    BY <1>1, <2>1, <2>2, BlocksMoveUp
  <2>4. (k + 1) + 1 - 1 = k + 1
    BY <1>2
  <2>5. BlocksAt(Out', k + 1, Len(Out'), query_compression)
    BY <1>1, <2>3, <2>4
  <2>6. BlocksAt(Out, k + 1, Len(Out), query_compression)'
    BY <1>1, <2>5 DEF BlocksAt
  <2> QED BY <1>1, <1>2, <1>4, <2>6 DEF RequestAt, Expected
<1> QED BY <1>3, <1>4

LEMMA RequestTaken ==
  ASSUME IInv, ~tainted, srv = "idle", c2s # <<>>, Out # <<>>,
         Len(Out) \in Nat \ {0}
  PROVE  /\ pc \in {"write", "read"} /\ s2c = <<>>
         /\ RequestAt(Out, 1)
<1>1. pc \notin {"idle", "dropped"}
  BY DEF IInv, InStep, Quiet, Left
<1>2. pc \in {"write", "read"}
  BY <1>1 DEF IInv, TypeOK
<1>3. ~During
  BY DEF During, Progressed
<1>4. Before
  BY <1>2, <1>3 DEF IInv, InStep
<1>5. PICK k \in 0..(Len(Out) - 1) : Left(k) /\ RequestAt(Out, k + 1)
  BY <1>4 DEF Before
<1>6. k = 0
  BY <1>5 DEF Left
<1>7. k + 1 = 1
  BY <1>6
<1> QED BY <1>2, <1>4, <1>5, <1>7 DEF Before

LEMMA TakePingInStep ==
  ASSUME IInv, TypeOK', ~tainted', TakePing
  PROVE  InStep'
<1>0. TypeOK /\ Take("Ping") /\ c2s # <<>> /\ srv = "idle"
  BY DEF IInv, TakePing, Take
<1>1. ~tainted
  BY <1>0 DEF Take, client, returned
<1>2. /\ Len(Out) \in Nat \ {0} /\ Out[1] = Head(c2s) /\ Out # <<>>
      /\ Head(c2s).type = "Ping"
      /\ (Out' = <<>>) <=> (Len(Out) = 1)
      /\ UNCHANGED <<pc, wait, call, query_compression>>
      /\ Written'
  BY <1>0, <1>1, TakenMoves
<1>3. pc \in {"write", "read"} /\ s2c = <<>> /\ RequestAt(Out, 1)
  BY <1>0, <1>1, <1>2, RequestTaken
<1>4. wait = "pong" /\ Len(Out) = 1 /\ Head(c2s).req = call
  BY <1>2, <1>3 DEF RequestAt
<1> DEFINE p == [type |-> "Pong", req |-> Head(c2s).req, body |-> "none",
                 comp |-> FALSE, delta |-> 0]
<1>5. /\ serving'.req = call /\ srv' = "idle"
      /\ s2c' = <<p>> /\ Len(s2c') = 1 /\ DOMAIN s2c' = {1} /\ s2c'[1] = p
  BY <1>3, <1>4 DEF TakePing, Serve
<1>6. Answers'
  <2>1. p.req = call /\ p.type = "Pong" /\ p.comp = FALSE
    BY <1>4
  <2> HIDE DEF p
  <2> QED BY <1>2, <1>5, <2>1 DEF Answers, ReadCompressed, Terminal
<1>7. Progressed'
  BY <1>2, <1>4, <1>5 DEF Progressed
<1>8. During'
  BY <1>2, <1>4, <1>5, <1>6, <1>7 DEF During
<1> QED BY <1>2, <1>3, <1>8 DEF InStep

LEMMA TakeQueryInStep ==
  ASSUME IInv, TypeOK', ~tainted', TakeQuery
  PROVE  InStep'
<1>0. TypeOK /\ Take("Query") /\ c2s # <<>> /\ srv = "idle"
  BY DEF IInv, TakeQuery, Take
<1>1. ~tainted
  BY <1>0 DEF Take, client, returned
<1>2. /\ Len(Out) \in Nat \ {0} /\ Out[1] = Head(c2s) /\ Out # <<>>
      /\ Len(Out') = Len(Out) - 1
      /\ \A i \in 1..Len(Out') : Out'[i] = Out[i + 1]
      /\ Head(c2s).type = "Query"
      /\ UNCHANGED <<pc, wait, call, query_compression>>
      /\ Written'
  BY <1>0, <1>1, TakenMoves
<1>3. pc \in {"write", "read"} /\ s2c = <<>> /\ RequestAt(Out, 1)
  BY <1>0, <1>1, <1>2, RequestTaken
<1>4. /\ wait \in {"select", "schema"} /\ Head(c2s).req = call
      /\ Head(c2s).body \in Expected(wait)
      /\ Head(c2s).comp = query_compression
      /\ BlocksAt(Out, 1 + 1, Len(Out), query_compression)
  BY <1>2, <1>3 DEF RequestAt
<1>5. /\ serving'.req = call /\ serving'.body = Head(c2s).body
      /\ serving'.comp = query_compression
      /\ srv' = "tables" /\ s2c' = <<>>
  BY <1>3, <1>4 DEF TakeQuery, Serve
<1>6. BlocksAt(Out', 1, Len(Out'), query_compression)
  <2>1. BlocksAt(Out, 2, Len(Out), query_compression)
    BY <1>4 DEF BlocksAt
  <2>2. 2 \in Nat \ {0, 1} /\ Len(Out) \in 2..Len(Out)
    BY <1>2, <2>1 DEF BlocksAt
  <2>3. BlocksAt(Out', 2 - 1, Len(Out) - 1, query_compression)
    BY <1>2, <2>1, <2>2, BlocksMoveUp
  <2> QED BY <1>2, <2>3
<1>7. Remaining'
  BY <1>5, <1>6 DEF Remaining, BlocksAt
<1>8. Progressed'
  BY <1>2, <1>4, <1>5, <1>7 DEF Progressed, Expected
<1>9. Answers'
  BY <1>5 DEF Answers
<1>10. During'
  BY <1>2, <1>5, <1>8, <1>9 DEF During
<1> QED BY <1>2, <1>3, <1>10 DEF InStep

(* The blocks the server reads: all that is left of a failed INSERT, or the *)
(* present call's, which nothing follows.                                   *)
LEMMA BlocksToRead ==
  ASSUME IInv, ~tainted, c2s # <<>>, Len(Out) \in Nat \ {0}, Out # <<>>,
         srv \in {"tables", "body", "skip"}
  PROVE  \/ /\ Quiet /\ pc \in {"idle", "dropped"} /\ srv = "skip"
            /\ BlocksAt(Out, 1, Len(Out), serving.comp)
         \/ /\ pc \in {"write", "read"} /\ srv = "skip"
            /\ serving.req < call /\ s2c = <<>>
            /\ \E k \in 1..(Len(Out) - 1) :
                 BlocksAt(Out, 1, k, serving.comp) /\ RequestAt(Out, k + 1)
         \/ /\ pc \in {"write", "read"} /\ During
            /\ BlocksAt(Out, 1, Len(Out), serving.comp)
            /\ \/ /\ srv = "tables" /\ wait \in {"select", "schema"}
                  /\ serving.body \in Expected(wait) /\ s2c = <<>>
               \/ srv \in {"body", "skip"} /\ wait = "drain"
<1>1. CASE pc \in {"idle", "dropped"}
  BY <1>1 DEF IInv, InStep, Quiet, Left
<1>2. CASE pc \in {"write", "read"} /\ Before
  <2>1. PICK k \in 0..(Len(Out) - 1) : Left(k) /\ RequestAt(Out, k + 1)
    BY <1>2 DEF Before
  <2>2. srv = "skip" /\ BlocksAt(Out, 1, k, serving.comp)
    BY <2>1 DEF Left
  <2>3. k \in 1..(Len(Out) - 1)
    BY <2>1, <2>2 DEF BlocksAt
  <2> QED BY <1>2, <2>1, <2>2, <2>3 DEF Before
<1>3. CASE pc \in {"write", "read"} /\ During
  BY <1>3 DEF During, Progressed, Remaining
<1> QED BY <1>1, <1>2, <1>3 DEF IInv, InStep, TypeOK

LEMMA TakeBlockInStep ==
  ASSUME IInv, TypeOK', ~tainted', TakeBlock
  PROVE  InStep'
<1>0. /\ TypeOK /\ Take("Data") /\ c2s # <<>>
      /\ srv \in {"tables", "body", "skip"} /\ Head(c2s).body = "rows"
      /\ UNCHANGED <<s2c, srv, serving>>
  BY DEF IInv, TakeBlock, Take, Welcome, server
<1>1. ~tainted
  BY <1>0 DEF Take, client, returned
<1>2. /\ Len(Out) \in Nat \ {0} /\ Out # <<>>
      /\ Len(Out') = Len(Out) - 1
      /\ UNCHANGED <<pc, wait, todo, write_buf, call, query_compression,
                     protocol>>
      /\ Written'
  BY <1>0, <1>1, TakenMoves
<1>3. ASSUME NEW k \in 1..Len(Out), BlocksAt(Out, 1, k, serving.comp)
      PROVE  k > 1 /\ BlocksAt(Out, 1, k - 1, serving.comp)'
  <2>1. k > 1 /\ BlocksAt(Out', 1, k - 1, serving.comp)
    BY <1>0, <1>1, <1>3, BlockTaken
  <2> QED BY <1>0, <2>1 DEF BlocksAt
<1>4. CASE /\ Quiet /\ pc \in {"idle", "dropped"} /\ srv = "skip"
           /\ BlocksAt(Out, 1, Len(Out), serving.comp)
  <2>1. BlocksAt(Out, 1, Len(Out), serving.comp)'
    <3>1. BlocksAt(Out', 1, Len(Out) - 1, serving'.comp)
      BY <1>2, <1>3, <1>4
    <3> QED BY <1>2, <3>1 DEF BlocksAt
  <2>2. Left(Len(Out))'
    BY <1>0, <1>4, <2>1 DEF Left
  <2>3. Quiet'
    BY <1>0, <1>2, <1>4, <2>2 DEF Quiet
  <2> QED BY <1>2, <1>4, <2>3 DEF InStep
<1>5. CASE /\ pc \in {"write", "read"} /\ srv = "skip"
           /\ serving.req < call /\ s2c = <<>>
           /\ \E k \in 1..(Len(Out) - 1) :
                BlocksAt(Out, 1, k, serving.comp) /\ RequestAt(Out, k + 1)
  <2>1. PICK k \in 1..(Len(Out) - 1) :
          BlocksAt(Out, 1, k, serving.comp) /\ RequestAt(Out, k + 1)
    BY <1>5
  <2>2. k > 1 /\ BlocksAt(Out, 1, k - 1, serving.comp)'
    BY <1>2, <1>3, <2>1
  <2>3. RequestAt(Out, k)'
    BY <1>0, <1>1, <2>1, RequestMovesUp
  <2>4. k - 1 \in 0..(Len(Out') - 1) /\ k - 1 + 1 = k
    BY <1>2, <2>1
  <2>5. Left(k - 1)'
    BY <1>0, <1>5, <2>2 DEF Left
  <2>6. \E j \in 0..(Len(Out') - 1) : Left(j)' /\ RequestAt(Out, j + 1)'
    <3>1. RequestAt(Out, k - 1 + 1)'
      BY <2>3, <2>4
    <3> QED BY <2>4, <2>5, <3>1
  <2>7. Before'
    BY <1>0, <1>2, <1>5, <2>6 DEF Before
  <2> QED BY <1>2, <1>5, <2>7 DEF InStep
<1>6. CASE /\ pc \in {"write", "read"} /\ During
           /\ BlocksAt(Out, 1, Len(Out), serving.comp)
           /\ \/ /\ srv = "tables" /\ wait \in {"select", "schema"}
                 /\ serving.body \in Expected(wait) /\ s2c = <<>>
              \/ srv \in {"body", "skip"} /\ wait = "drain"
  <2>1. Remaining'
    <3>1. BlocksAt(Out', 1, Len(Out) - 1, serving'.comp)
      BY <1>2, <1>3, <1>6
    <3> QED BY <1>2, <3>1 DEF BlocksAt, Remaining
  <2>2. Progressed'
    BY <1>0, <1>2, <1>6, <2>1 DEF Progressed, Expected
  <2>3. Answers'
    BY <1>0, <1>2, <1>6 DEF During, Answers, ReadCompressed
  <2>4. During'
    BY <1>0, <1>2, <1>6, <2>2, <2>3 DEF During
  <2> QED BY <1>2, <1>6, <2>4 DEF InStep
<1> QED BY <1>0, <1>1, <1>2, <1>4, <1>5, <1>6, BlocksToRead

LEMMA TakeMarkerInStep ==
  ASSUME IInv, TypeOK', ~tainted', TakeMarker
  PROVE  InStep'
<1>0. /\ TypeOK /\ Take("Data") /\ c2s # <<>>
      /\ srv \in {"tables", "body", "skip"} /\ Head(c2s).body = "empty"
      /\ UNCHANGED <<s2c, serving>>
      /\ srv = "tables" => srv' = IF serving.body = "insert" THEN "setup"
                                  ELSE "answer"
      /\ srv = "body" => srv' = "finish"
      /\ srv = "skip" => srv' = "idle"
  BY DEF IInv, TakeMarker, Take, Welcome
<1>1. ~tainted
  BY <1>0 DEF Take, client, returned
<1>2. /\ Len(Out) \in Nat \ {0} /\ Out # <<>>
      /\ Len(Out') = Len(Out) - 1
      /\ (Out' = <<>>) <=> (Len(Out) = 1)
      /\ UNCHANGED <<pc, wait, todo, write_buf, call, query_compression,
                     protocol>>
      /\ Written'
  BY <1>0, <1>1, TakenMoves
<1>3. ASSUME NEW k \in 1..Len(Out), BlocksAt(Out, 1, k, serving.comp)
      PROVE  k = 1
  BY <1>0, <1>1, <1>3, BlockTaken
<1>4. CASE /\ Quiet /\ pc \in {"idle", "dropped"} /\ srv = "skip"
           /\ BlocksAt(Out, 1, Len(Out), serving.comp)
  <2>1. Len(Out') = 0
    BY <1>2, <1>3, <1>4
  <2>2. Left(Len(Out))'
    BY <1>0, <1>4, <2>1 DEF Left
  <2>3. Quiet'
    BY <1>0, <1>2, <1>4, <2>2 DEF Quiet
  <2> QED BY <1>2, <1>4, <2>3 DEF InStep
<1>5. CASE /\ pc \in {"write", "read"} /\ srv = "skip"
           /\ serving.req < call /\ s2c = <<>>
           /\ \E k \in 1..(Len(Out) - 1) :
                BlocksAt(Out, 1, k, serving.comp) /\ RequestAt(Out, k + 1)
  <2>1. PICK k \in 1..(Len(Out) - 1) :
          BlocksAt(Out, 1, k, serving.comp) /\ RequestAt(Out, k + 1)
    BY <1>5
  <2>2. k = 1
    BY <1>2, <1>3, <2>1
  <2>3. RequestAt(Out, k)'
    BY <1>0, <1>1, <2>1, RequestMovesUp
  <2>4. 0 \in 0..(Len(Out') - 1) /\ 0 + 1 = k
    BY <1>2, <2>1, <2>2
  <2>5. Left(0)'
    BY <1>0, <1>5 DEF Left
  <2>6. RequestAt(Out, 0 + 1)'
    BY <2>3, <2>4
  <2>7. Before'
    BY <1>0, <1>2, <1>5, <2>4, <2>5, <2>6 DEF Before
  <2> QED BY <1>2, <1>5, <2>7 DEF InStep
<1>6. CASE /\ pc \in {"write", "read"} /\ During
           /\ BlocksAt(Out, 1, Len(Out), serving.comp)
           /\ \/ /\ srv = "tables" /\ wait \in {"select", "schema"}
                 /\ serving.body \in Expected(wait) /\ s2c = <<>>
              \/ srv \in {"body", "skip"} /\ wait = "drain"
  <2>1. Out' = <<>>
    BY <1>2, <1>3, <1>6
  <2>2. Progressed'
    <3>1. CASE srv = "tables"
      <4>1. /\ wait \in {"select", "schema"} /\ serving.body \in Expected(wait)
            /\ s2c' = <<>>
        BY <1>0, <1>6, <3>1
      <4>2. ~Has("Data")'
        BY <4>1 DEF Has
      <4>3. CASE wait = "select"
        <5>1. srv' = "answer"
          BY <1>0, <3>1, <4>1, <4>3 DEF Expected
        <5> QED BY <1>2, <2>1, <4>3, <5>1 DEF Progressed
      <4>4. CASE wait = "schema"
        <5>1. \/ srv' = "setup"
              \/ srv' = "answer" /\ serving.body = "command"
          BY <1>0, <3>1, <4>1, <4>4 DEF Expected
        <5> QED BY <1>0, <1>2, <2>1, <4>2, <4>4, <5>1 DEF Progressed
      <4> QED BY <4>1, <4>3, <4>4
    <3>2. CASE srv \in {"body", "skip"} /\ wait = "drain"
      BY <1>0, <1>2, <2>1, <3>2 DEF Progressed
    <3> QED BY <1>6, <3>1, <3>2
  <2>3. Answers'
    <3>1. \A i \in DOMAIN s2c : s2c[i].type \in Terminal => srv = "skip"
      BY <1>0, <1>6 DEF During, Answers
    <3> QED BY <1>0, <1>2, <1>6, <3>1 DEF During, Answers, ReadCompressed
  <2>4. During'
    BY <1>0, <1>2, <1>6, <2>2, <2>3 DEF During
  <2> QED BY <1>2, <1>6, <2>4 DEF InStep
<1> QED BY <1>0, <1>1, <1>2, <1>4, <1>5, <1>6, BlocksToRead

LEMMA NotBroken == ASSUME IInv, ~tainted PROVE srv # "broken"
<1>1. CASE pc \in {"idle", "dropped"}
  BY <1>1 DEF IInv, InStep, Quiet, Left
<1>2. CASE pc \in {"write", "read"} /\ Before
  BY <1>2 DEF Before, Left
<1>3. CASE pc \in {"write", "read"} /\ During
  BY <1>3 DEF During, Progressed
<1> QED BY <1>1, <1>2, <1>3 DEF IInv, InStep, TypeOK

LEMMA NeverSurprisedStep == ASSUME IInv, ~tainted PROVE ~Surprised
<1> SUFFICES ASSUME Surprised PROVE FALSE
  OBVIOUS
<1>1. /\ TypeOK /\ c2s # <<>> /\ srv \in {"idle", "tables", "body", "skip"}
      /\ ~Welcome(Head(c2s))
      /\ ~(srv = "idle" /\ Head(c2s).type \in {"Ping", "Query"})
  BY DEF Surprised, IInv
<1>2. /\ c2s \in Seq(ClientPackets) /\ Len(c2s) \in Nat \ {0}
      /\ Head(c2s) = c2s[1] /\ c2s[1] \in ClientPackets /\ 1 \in DOMAIN c2s
  BY <1>1, EmptySeq, LenProperties DEF TypeOK
<1>3. /\ Len(Out) \in Nat \ {0} /\ Out[1] = Head(c2s) /\ Out # <<>>
  <2>1. /\ Out \in Seq(ClientPackets)
        /\ Len(Out) = Len(c2s) + Len(write_buf) + Len(todo)
        /\ \A i \in 1..Len(c2s) : Out[i] = c2s[i]
    BY <1>1, OutType
  <2>2. Len(write_buf) \in Nat /\ Len(todo) \in Nat
    BY <1>1, LenProperties DEF TypeOK
  <2> QED BY <1>2, <2>1, <2>2, EmptySeq
<1>4. CASE srv = "idle"
  <2>1. RequestAt(Out, 1)
    BY <1>1, <1>3, <1>4, RequestTaken
  <2>2. Out[1].type \in {"Ping", "Query"}
    BY <2>1 DEF RequestAt
  <2> QED BY <1>1, <1>3, <1>4, <2>2
<1>5. CASE srv \in {"tables", "body", "skip"}
  <2>1. \E k \in 1..Len(Out) : BlocksAt(Out, 1, k, serving.comp)
    BY <1>1, <1>3, <1>5, BlocksToRead
  <2>2. Out[1].type = "Data" /\ Out[1].comp = serving.comp
    BY <1>3, <2>1 DEF BlocksAt
  <2>3. c2s[1].body # "inconsistent"
    BY <1>2 DEF IInv, InStep, Written, Consistent
  <2> QED BY <1>1, <1>2, <1>3, <1>5, <2>2, <2>3 DEF Welcome
<1> QED BY <1>1, <1>4, <1>5

-----------------------------------------------------------------------------
(* The client reads. *)

(* A packet that ends an answer is the last thing the server sends on it. *)
LEMMA TailAnswers ==
  ASSUME IInv, ~tainted, During, s2c # <<>>, s2c' = Tail(s2c),
         UNCHANGED <<call, query_compression, protocol, srv>>
  PROVE  /\ Answers'
         /\ Has("Data")' => Has("Data")
         /\ Has("Data") => Head(s2c).type = "Data" \/ Has("Data")'
         /\ Head(s2c).type = "Data" => Has("Data")
         /\ Head(s2c).type \in Terminal =>
              /\ s2c' = <<>> /\ srv \in {"idle", "skip"}
              /\ ~Has("Data")
         /\ Head(s2c).type # "Fragment"
<1>1. /\ s2c \in Seq(ServerPackets) /\ Len(s2c) \in Nat \ {0}
      /\ DOMAIN s2c = 1..Len(s2c) /\ Head(s2c) = s2c[1]
      /\ Tail(s2c) \in Seq(ServerPackets)
      /\ Len(Tail(s2c)) = Len(s2c) - 1
      /\ DOMAIN Tail(s2c) = 1..Len(Tail(s2c))
      /\ \A i \in 1..Len(Tail(s2c)) : Tail(s2c)[i] = s2c[i + 1]
  BY EmptySeq, LenProperties, HeadTailProperties DEF IInv, TypeOK
<1>2. /\ s2c' = Tail(s2c) /\ Len(s2c') = Len(s2c) - 1
      /\ DOMAIN s2c' = 1..(Len(s2c) - 1)
      /\ \A i \in 1..(Len(s2c) - 1) : s2c'[i] = s2c[i + 1] /\ i + 1 \in DOMAIN s2c
  BY <1>1
<1>3. \A i \in DOMAIN s2c :
        /\ s2c[i].req = call /\ s2c[i].type # "Fragment"
        /\ s2c[i].comp = ReadCompressed(s2c[i].type)
        /\ s2c[i].type \in Terminal => i = Len(s2c) /\ srv \in {"idle", "skip"}
  BY DEF During, Answers
<1>4. ASSUME NEW i \in 1..(Len(s2c) - 1)
      PROVE  /\ s2c'[i].req = call /\ s2c'[i].type # "Fragment"
             /\ s2c'[i].comp = ReadCompressed(s2c'[i].type)
             /\ s2c'[i].type \in Terminal =>
                  i = Len(s2c) - 1 /\ srv \in {"idle", "skip"}
  <2>1. s2c'[i] = s2c[i + 1] /\ i + 1 \in DOMAIN s2c
    BY <1>2
  <2>2. i + 1 = Len(s2c) => i = Len(s2c) - 1
    <3>1. Len(s2c) \in Int
      BY <1>1
    <3>2. i \in Int
      BY <3>1
    <3> QED BY <3>1, <3>2
  <2> QED BY <1>3, <2>1, <2>2
<1>5. Answers'
  BY <1>2, <1>4 DEF Answers, ReadCompressed
<1>6. Has("Data")' => Has("Data")
  BY <1>2 DEF Has
<1>7. Has("Data") => Head(s2c).type = "Data" \/ Has("Data")'
  <2> SUFFICES ASSUME NEW i \in DOMAIN s2c, s2c[i].type = "Data",
                      Head(s2c).type # "Data"
               PROVE  Has("Data")'
    BY DEF Has
  <2>1. i - 1 \in 1..(Len(s2c) - 1) /\ i - 1 + 1 = i
    BY <1>1
  <2>2. s2c'[i - 1] = s2c[i]
    BY <1>2, <2>1
  <2> QED BY <1>2, <2>1, <2>2 DEF Has
<1>8. Head(s2c).type = "Data" => Has("Data")
  BY <1>1 DEF Has
<1>9. ASSUME Head(s2c).type \in Terminal
      PROVE  s2c' = <<>> /\ srv \in {"idle", "skip"} /\ ~Has("Data")
  <2>1. 1 = Len(s2c) /\ srv \in {"idle", "skip"}
    BY <1>1, <1>3, <1>9
  <2>2. Len(Tail(s2c)) = 0
    BY <1>1, <2>1
  <2>3. s2c' = <<>>
    BY <1>1, <1>2, <2>2, EmptySeq
  <2>4. ~Has("Data")
    BY <1>1, <1>9, <2>1 DEF Has, Terminal
  <2> QED BY <2>1, <2>3, <2>4
<1> QED BY <1>1, <1>3, <1>5, <1>6, <1>7, <1>8, <1>9

(* A loop goes on, or its call returns. *)
LEMMA LoopInStep ==
  ASSUME IInv, ~tainted, During, pc = "read", s2c # <<>>, s2c' = Tail(s2c),
         NEW verdict \in {"ok", "exception", "more"}, Settle(verdict),
         verdict # "more" => Head(s2c).type \in Terminal,
         verdict = "more" => Head(s2c).type # "Data" \/ wait # "schema",
         UNCHANGED <<settled, query_compression, call, place, write_buf, c2s,
                     server>>
  PROVE  InStep'
<1>1. UNCHANGED <<protocol, write_chunked, wait, todo, srv, serving>>
  BY DEF settled, place, server
<1>2. /\ Answers'
      /\ Has("Data")' => Has("Data")
      /\ Has("Data") => Head(s2c).type = "Data" \/ Has("Data")'
      /\ Head(s2c).type \in Terminal =>
           s2c' = <<>> /\ srv \in {"idle", "skip"} /\ ~Has("Data")
  BY <1>1, TailAnswers
<1>3. Out' = Out /\ todo = <<>> /\ write_buf = <<>>
  BY <1>1 DEF Out, IInv, InStep, Written
<1>4. Remaining' <=> Remaining
  BY <1>1, <1>3 DEF Remaining, BlocksAt
<1>5. (pc' = "read" => todo' = <<>> /\ write_buf' = <<>>) /\ Written'
  BY <1>1, <1>3 DEF IInv, InStep, Written, Consistent
<1>6. CASE verdict = "more"
  <2>1. pc' = "read"
    BY <1>6 DEF Settle, returned
  <2>2. wait = "schema" => (Has("Data")' <=> Has("Data"))
    BY <1>2, <1>6
  <2>3. Progressed'
    BY <1>1, <1>3, <1>4, <2>2 DEF During, Progressed
  <2>4. During'
    BY <1>1, <1>2, <2>3 DEF During
  <2> QED BY <1>5, <2>1, <2>4 DEF InStep
<1>7. CASE verdict # "more"
  <2>1. pc' = "idle"
    BY <1>7 DEF Settle, Return
  <2>2. s2c' = <<>> /\ srv \in {"idle", "skip"} /\ ~Has("Data")
    BY <1>2, <1>7
  <2>3. \/ srv = "idle" /\ Out = <<>>
        \/ srv = "skip" /\ Remaining
    BY <2>2 DEF During, Progressed
  <2>4. Left(Len(Out))'
    BY <1>1, <1>3, <2>3 DEF Left, Remaining, BlocksAt
  <2>5. serving'.req <= call'
    BY <1>1 DEF During, IInv, TypeOK
  <2>6. Quiet'
    BY <1>1, <1>3, <2>2, <2>4, <2>5 DEF Quiet
  <2> QED BY <1>5, <2>1, <2>6 DEF InStep
<1> QED BY <1>6, <1>7

LEMMA SendBlocksInStep ==
  ASSUME Protocol, IInv, TypeOK', ~tainted, During, pc = "read",
         wait = "schema", s2c # <<>>, s2c' = Tail(s2c),
         Head(s2c).type = "Data", SendBlocks,
         UNCHANGED <<settled, query_compression, call, write_buf, c2s, server>>
  PROVE  InStep'
<1>1. UNCHANGED <<protocol, write_chunked, srv, serving>>
  BY DEF settled, server
<1>2. Answers' /\ Has("Data")
  BY <1>1, TailAnswers
<1>3. srv \in {"body", "skip"} /\ Out = <<>>
  BY <1>2 DEF During, Progressed
<1>4. serving.req = call /\ serving.comp = query_compression
  BY DEF During
<1> DEFINE body == InsertBody(call, blocks, query_compression)
<1>5. /\ pc' = "write" /\ wait' = "drain" /\ todo' = body
      /\ todo = <<>> /\ write_buf = <<>>
  BY DEF SendBlocks, IInv, InStep, Written
<1>6. /\ Len(body) = Len(blocks) + 1 /\ Len(blocks) \in Nat
      /\ BlocksAt(body, 1, Len(blocks) + 1, query_compression)
      /\ body \in Seq(ClientPackets)
  <2>1. /\ call \in Nat /\ query_compression \in BOOLEAN
        /\ blocks \in Seq(BlockKinds)
    BY DEF IInv, TypeOK
  <2> QED BY <2>1, InsertScript, ScriptTypes
<1> HIDE DEF body
<1>7. Out' = body
  <2>1. c2s \in Seq(ClientPackets) /\ c2s \o <<>> = c2s
    BY ConcatEmptySeq DEF IInv, TypeOK
  <2>2. c2s = <<>>
    BY <1>3, <1>5, <2>1 DEF Out
  <2>3. Out' = (<<>> \o <<>>) \o body
    BY <1>5, <2>2 DEF Out
  <2>4. <<>> \o <<>> = <<>> /\ <<>> \o body = body
    BY <1>6, ConcatEmptySeq, EmptySeq
  <2> QED BY <2>3, <2>4
<1>8. BlocksAt(body, 1, Len(body), query_compression)
  BY <1>6
<1>9. Remaining'
  BY <1>1, <1>4, <1>7, <1>8 DEF Remaining, BlocksAt
<1>10. During'
  BY <1>1, <1>2, <1>3, <1>4, <1>5, <1>9 DEF During, Progressed
<1>11. Written'
  BY <1>1, <1>5 DEF IInv, InStep, Written, Consistent
<1> QED BY <1>5, <1>10, <1>11 DEF InStep

LEMMA ReadingInStep ==
  ASSUME Protocol, IInv, TypeOK', ~tainted',
         \/ ReadPong \/ ReadQueryResponse \/ ReadSchema \/ ReadInsertResponse
         \/ \E used \in BOOLEAN :
              \/ DecodeError(used)
              \/ \E verdict \in {"ok", "exception", "error", "more"} :
                   ReadFragment(verdict, used)
         \/ ReadEof
  PROVE  InStep'
<1>1. ~tainted
  BY NotTainted DEF ReadPong, ReadQueryResponse, ReadSchema,
     ReadInsertResponse, DecodeError, ReadFragment, ReadEof, SendBlocks,
     Settle, returned
<1>2. ~ReadEof /\ \A used \in BOOLEAN : ~DecodeError(used)
  BY NotTainted DEF ReadEof, DecodeError
<1>3. ASSUME Receiving
      PROVE  /\ pc = "read" /\ s2c # <<>> /\ During
             /\ Head(s2c).type # "Fragment"
  <2>1. During /\ s2c # <<>>
    BY <1>1, <1>3 DEF Receiving, IInv, InStep, Before
  <2>2. s2c \in Seq(ServerPackets)
    BY DEF IInv, TypeOK
  <2>3. 1 \in DOMAIN s2c /\ Head(s2c) = s2c[1]
    BY <2>1, <2>2, EmptySeq, LenProperties
  <2> QED BY <1>3, <2>1, <2>3 DEF Receiving, During, Answers
<1>4. ASSUME NEW verdict, Settle(verdict) PROVE verdict # "error"
  BY <1>4, NotTainted DEF Settle
<1>5. CASE ReadPong
  <2> DEFINE v == PongVerdict(Head(s2c).type)
  <2>1. v \in {"ok", "exception"} /\ Head(s2c).type \in Terminal
    <3>1. v # "error"
      BY <1>4, <1>5 DEF ReadPong
    <3> QED BY <3>1 DEF PongVerdict, Terminal
  <2> QED BY <1>1, <1>3, <1>5, <2>1, LoopInStep
             DEF ReadPong, CanRead, issued, server
<1>6. CASE ReadQueryResponse
  <2> DEFINE v == SelectVerdict(Head(s2c).type)
  <2>1. /\ v \in {"ok", "exception", "more"}
        /\ v # "more" => Head(s2c).type \in Terminal
    <3>1. v # "error"
      BY <1>4, <1>6 DEF ReadQueryResponse
    <3> QED BY <3>1 DEF SelectVerdict, Terminal
  <2>2. wait # "schema"
    BY <1>6 DEF ReadQueryResponse, CanRead
  <2> HIDE DEF v
  <2>3. Settle(v) /\ Receiving /\ s2c' = Tail(s2c)
    BY <1>6 DEF ReadQueryResponse, CanRead, v
  <2>4. UNCHANGED <<settled, query_compression, call, place, write_buf, c2s,
                    server>>
    BY <1>6 DEF ReadQueryResponse, issued
  <2> QED BY <1>1, <1>3, <2>1, <2>2, <2>3, <2>4, LoopInStep
<1>7. CASE ReadInsertResponse
  <2> DEFINE v == DrainVerdict(Head(s2c).type)
  <2>1. /\ v \in {"ok", "exception", "more"}
        /\ v # "more" => Head(s2c).type \in Terminal
    <3>1. v # "error"
      BY <1>4, <1>7 DEF ReadInsertResponse
    <3> QED BY <3>1 DEF DrainVerdict, Terminal
  <2>2. wait # "schema"
    BY <1>7 DEF ReadInsertResponse, CanRead
  <2> HIDE DEF v
  <2>3. Settle(v) /\ Receiving /\ s2c' = Tail(s2c)
    BY <1>7 DEF ReadInsertResponse, CanRead, v
  <2>4. UNCHANGED <<settled, query_compression, call, place, write_buf, c2s,
                    server>>
    BY <1>7 DEF ReadInsertResponse, issued
  <2> QED BY <1>1, <1>3, <2>1, <2>2, <2>3, <2>4, LoopInStep
<1>8. CASE ReadSchema
  <2>1. /\ wait = "schema" /\ Receiving /\ s2c' = Tail(s2c)
        /\ UNCHANGED <<settled, query_compression, call, write_buf, c2s,
                       server>>
    BY <1>8 DEF ReadSchema, CanRead, issued
  <2>2. CASE Head(s2c).type = "Data"
    <3>1. SendBlocks
      <4>1. SchemaVerdict(Head(s2c).type) = "schema"
        BY <2>2 DEF SchemaVerdict, Metadata
      <4> QED BY <1>8, <4>1 DEF ReadSchema
    <3> QED BY <1>1, <1>3, <2>1, <2>2, <3>1, SendBlocksInStep
  <2>3. CASE Head(s2c).type # "Data"
    <3> DEFINE v == SchemaVerdict(Head(s2c).type)
    <3>1. v # "schema" /\ v \in {"exception", "error", "more"}
      BY <2>3 DEF SchemaVerdict
    <3>2. Settle(v) /\ UNCHANGED place
      BY <1>8, <3>1 DEF ReadSchema
    <3>3. /\ v \in {"ok", "exception", "more"}
          /\ v # "more" => Head(s2c).type \in Terminal
      <4>1. v # "error"
        BY <1>4, <3>2
      <4> QED BY <3>1, <4>1 DEF SchemaVerdict, Terminal
    <3> HIDE DEF v
    <3> QED BY <1>1, <1>3, <2>1, <2>3, <3>2, <3>3, LoopInStep
  <2> QED BY <2>2, <2>3
<1>9. ASSUME NEW used \in BOOLEAN,
             NEW verdict \in {"ok", "exception", "error", "more"},
             ReadFragment(verdict, used)
      PROVE  FALSE
  BY <1>3, <1>9 DEF ReadFragment
<1> QED BY <1>2, <1>5, <1>6, <1>7, <1>8, <1>9

-----------------------------------------------------------------------------
(* The caller. *)

(* A request is written behind whatever an earlier call left on the way. *)
LEMMA BeginInStep ==
  ASSUME IInv, TypeOK', ~tainted, NEW loop \in {"pong", "select", "schema"},
         NEW packets \in Seq(ClientPackets), Begin(loop, packets),
         Len(packets) \in Nat \ {0}, packets[1].req = call + 1,
         loop = "pong" => Len(packets) = 1 /\ packets[1].type = "Ping",
         loop # "pong" => /\ packets[1].type = "Query"
                          /\ packets[1].body \in Expected(loop)
                          /\ packets[1].comp = query_compression'
                          /\ BlocksAt(packets, 2, Len(packets),
                                      query_compression')
  PROVE  InStep'
<1>1. /\ pc = "idle" /\ pc' = "write" /\ call' = call + 1 /\ call \in Nat
      /\ wait' = loop /\ todo' = packets
      /\ UNCHANGED <<protocol, write_chunked, write_buf, c2s, s2c, srv, serving>>
  BY DEF Begin, MayCall, settled, server, IInv, TypeOK
<1>2. Quiet
  BY <1>1 DEF IInv, InStep
<1> PICK n : n = Len(Out)
  OBVIOUS
<1>3. /\ n \in Nat /\ Len(Out') = n + Len(packets)
      /\ \A i \in 1..n : Out'[i] = Out[i]
      /\ \A i \in 1..Len(packets) : Out'[n + i] = packets[i]
  BY <1>1, <1>2, OutBegun, OutType DEF Quiet, IInv
<1>4. \/ srv = "idle" /\ n = 0
      \/ srv = "skip" /\ BlocksAt(Out', 1, n, serving.comp)
  <2>1. Left(n)
    BY <1>2 DEF Quiet, Left, BlocksAt
  <2>2. CASE srv = "skip" /\ BlocksAt(Out, 1, n, serving.comp)
    BY <1>3, <2>2 DEF BlocksAt
  <2> QED BY <2>1, <2>2 DEF Left
<1>5. \/ srv' = "idle" /\ n = 0
      \/ srv' = "skip" /\ BlocksAt(Out', 1, n, serving'.comp)
  BY <1>1, <1>4
<1>6. Out'[n + 1] = packets[1]
  BY <1>3
<1>7. /\ Out'[n + 1].req = call'
      /\ \/ wait' = "pong" /\ n + 1 = Len(Out') /\ Out'[n + 1].type = "Ping"
         \/ /\ wait' \in {"select", "schema"}
            /\ Out'[n + 1].type = "Query"
            /\ Out'[n + 1].body \in Expected(wait')
            /\ Out'[n + 1].comp = query_compression'
            /\ BlocksAt(Out', n + 1 + 1, Len(Out'), query_compression')
  <2>1. CASE loop = "pong"
    BY <1>1, <1>3, <1>6, <2>1
  <2>2. CASE loop # "pong"
    <3>1. BlocksAt(packets, 2, Len(packets), query_compression')
      BY <2>2
    <3>2. \A i \in (n + 1 + 1)..Len(Out') :
            /\ i - n \in 2..Len(packets) /\ Out'[i] = packets[i - n]
            /\ i = Len(Out') <=> i - n = Len(packets)
      <4> SUFFICES ASSUME NEW i \in (n + 1 + 1)..(n + Len(packets))
                   PROVE  /\ i - n \in 2..Len(packets)
                          /\ Out'[i] = packets[i - n]
                          /\ i = n + Len(packets) <=> i - n = Len(packets)
        BY <1>3
      <4>1. i - n \in 2..Len(packets) /\ n + (i - n) = i
        BY <1>3
      <4>2. Out'[i] = packets[i - n]
        BY <1>3, <4>1
      <4>3. i = n + Len(packets) <=> i - n = Len(packets)
        BY <1>3
      <4> QED BY <4>1, <4>2, <4>3
    <3>3. n + 1 + 1 <= Len(Out')
      BY <1>3, <3>1 DEF BlocksAt
    <3>4. BlocksAt(Out', n + 1 + 1, Len(Out'), query_compression')
      BY <3>1, <3>2, <3>3 DEF BlocksAt
    <3> QED BY <1>1, <1>6, <2>2, <3>4
  <2> QED BY <2>1, <2>2
<1>8. Left(n)' /\ n \in 0..(Len(Out') - 1)
  BY <1>3, <1>5 DEF Left
<1>9. Before'
  <2>1. RequestAt(Out, n + 1)'
    BY <1>7 DEF RequestAt
  <2>2. serving'.req < call' /\ s2c' = <<>>
    <3>1. serving.req \in Nat /\ serving.req <= call /\ s2c = <<>>
      BY <1>2 DEF Quiet, IInv, TypeOK
    <3> QED BY <1>1, <3>1
  <2> QED BY <1>8, <2>1, <2>2 DEF Before
<1>10. Written'
  BY <1>1 DEF IInv, InStep, Written, Consistent
<1> QED BY <1>1, <1>9, <1>10 DEF InStep

LEMMA BeginQueryInStep ==
  ASSUME Protocol, IInv, TypeOK', ~tainted, NEW loop \in {"select", "schema"},
         NEW s \in Expected(loop), NEW c \in BOOLEAN, NEW t \in Inputs,
         Begin(loop, QueryAndTables(call + 1, s, c, t)),
         query_compression' = c
  PROVE  InStep'
<1> DEFINE q == QueryAndTables(call + 1, s, c, t)
<1>1. /\ t \in Seq(BlockKinds) /\ call + 1 \in Nat /\ s \in Statements
  BY InputsType DEF IInv, TypeOK, Expected, Statements
<1>2. /\ q \in Seq(ClientPackets) /\ Len(q) = Len(t) + 2 /\ Len(t) \in Nat
      /\ q[1] = QueryPacket(call + 1, s, c)
      /\ BlocksAt(q, 2, Len(q), c)
  BY <1>1, QueryScript
<1> HIDE DEF q
<1>3. Len(q) \in Nat \ {0}
  BY <1>2
<1>4. /\ q[1].req = call + 1 /\ q[1].type = "Query"
      /\ q[1].body = s /\ q[1].comp = c
  BY <1>2 DEF QueryPacket
<1>5. Begin(loop, q)
  BY DEF q
<1> QED BY <1>2, <1>3, <1>4, <1>5, BeginInStep

LEMMA CallerInStep ==
  ASSUME Protocol, IInv, TypeOK', ~tainted', CallerStep
  PROVE  InStep'
<1>0. ~tainted /\ call \in Nat
  BY DEF CallerStep, Ping, QueryWith, InsertBlocksWith, Begin,
         RefuseCompressedInsert, Drop, IInv, TypeOK
<1>1. CASE Ping
  <2> DEFINE q == <<PingPacket(call + 1)>>
  <2>1. /\ Len(q) = 1 /\ q[1].req = call + 1 /\ q[1].type = "Ping"
        /\ q \in Seq(ClientPackets)
    BY <1>0 DEF PingPacket, ClientPackets
  <2>2. Begin("pong", q)
    BY <1>1 DEF Ping
  <2> HIDE DEF q
  <2> QED BY <1>0, <2>1, <2>2, BeginInStep
<1>2. ASSUME NEW s \in QueryStatements, NEW c \in BOOLEAN, NEW t \in Inputs,
             QueryWith(s, c, t)
      PROVE  InStep'
  <2>1. s \in Expected("select")
    BY ConstantsAssumption DEF Protocol, Expected
  <2> QED BY <1>0, <1>2, <2>1, BeginQueryInStep DEF QueryWith
<1>3. ASSUME NEW s \in InsertStatements, NEW t \in Inputs, NEW b \in Inputs,
             InsertBlocksWith(s, t, b)
      PROVE  InStep'
  <2>1. s \in Expected("schema")
    BY ConstantsAssumption DEF Protocol, Expected
  <2>2. PICK c \in BOOLEAN : c = FALSE
    OBVIOUS
  <2>3. Begin("schema", QueryAndTables(call + 1, s, c, t))
    BY <1>3, <2>2, Zenon DEF InsertBlocksWith
  <2>4. query_compression' = c
    BY <1>3, <2>2, Zenon DEF InsertBlocksWith
  <2> QED BY <1>0, <2>1, <2>3, <2>4, BeginQueryInStep
<1>4. CASE RefuseCompressedInsert \/ Drop
  <2>1. /\ pc = "idle" /\ pc' \in {"idle", "dropped"}
        /\ call' = call \/ call' = call + 1
        /\ UNCHANGED <<write_chunked, todo, write_buf, c2s, s2c, srv, serving>>
    BY <1>4 DEF RefuseCompressedInsert, Drop, MayCall, settled, issued, place,
                server
  <2>2. Out' = Out /\ Quiet
    BY <1>0, <2>1 DEF Out, IInv, InStep
  <2>3. Left(Len(Out))'
    BY <2>1, <2>2 DEF Quiet, Left, BlocksAt
  <2>4. serving'.req <= call'
    BY <1>0, <2>1, <2>2 DEF Quiet, IInv, TypeOK
  <2>5. Quiet'
    BY <2>1, <2>2, <2>3, <2>4 DEF Quiet
  <2>6. Written'
    BY <1>0, <2>1 DEF IInv, InStep, Written, Consistent
  <2> QED BY <2>1, <2>5, <2>6 DEF InStep
<1> QED BY <1>1, <1>2, <1>3, <1>4 DEF CallerStep

-----------------------------------------------------------------------------
(* The invariant, and the theorems. *)

LEMMA IInvInit == Init => IInv
<1> SUFFICES ASSUME Init PROVE IInv
  OBVIOUS
<1>1. /\ c2s = <<>> /\ write_buf = <<>> /\ todo = <<>> /\ s2c = <<>>
      /\ pc = "idle" /\ srv = "idle" /\ call = 0 /\ serving.req = 0
  BY DEF Init
<1>2. Len(Out) = 0
  <2>1. Len(c2s) = 0 /\ Len(write_buf) = 0 /\ Len(todo) = 0
    BY <1>1, EmptySeq
  <2> QED BY <2>1, OutType, TypeInit
<1>3. Quiet
  BY <1>1, <1>2 DEF Quiet, Left
<1>4. Written
  BY <1>1 DEF Written, Consistent
<1> QED BY <1>1, <1>3, <1>4, TypeInit DEF IInv, InStep, Init

LEMMA IInvStep == Protocol /\ IInv /\ [Next]_vars => IInv'
<1> SUFFICES ASSUME Protocol, IInv, [Next]_vars PROVE IInv'
  OBVIOUS
<1>1. TypeOK'
  BY TypeStep DEF IInv
<1>2. UNCHANGED protocol
  <2> USE DEF settled
  <2>1. CASE CallerStep
    BY <2>1 DEF CallerStep, Ping, QueryWith, InsertBlocksWith, Begin,
                RefuseCompressedInsert, Drop
  <2>2. CASE ClientStep
    BY <2>2 DEF ClientStep, Write, Flush, BrokenPipe, ReadPong,
                ReadQueryResponse, ReadSchema, ReadInsertResponse, DecodeError,
                ReadFragment, ReadEof
  <2>3. CASE ServerStep \/ GiveUp \/ Close
    BY <2>3 DEF ServerStep, SendBlock, SendUndecodable, SendProgress, SendSide,
                Extra, SendSchema, Finish, Throw, TakePing, TakeQuery,
                TakeBlock, TakeMarker, Take, Surprised, Swallow, GiveUp, Close
  <2> QED BY <2>1, <2>2, <2>3 DEF Next, Gone, vars
<1>3. ASSUME ~tainted' PROVE InStep'
  <2>1. CASE CallerStep
    BY <1>1, <1>3, <2>1, CallerInStep
  <2>2. CASE ClientStep
    BY <1>1, <1>3, <2>2, WritingInStep, ReadingInStep DEF ClientStep
  <2>3. CASE ServerStep
    <3>1. CASE Surprised \/ Swallow
      <4>1. ~tainted
        BY <1>3, <3>1 DEF Surprised, Swallow, client, returned
      <4> QED BY <3>1, <4>1, NeverSurprisedStep, NotBroken DEF Swallow
    <3> QED BY <1>1, <1>3, <2>3, <3>1, RepliesInStep, TakePingInStep,
               TakeQueryInStep, TakeBlockInStep, TakeMarkerInStep
            DEF ServerStep
  <2>4. CASE GiveUp
    <3>1. ~tainted
      BY <1>3, <2>4 DEF GiveUp, client, returned
    <3> QED BY <2>4, <3>1, NotBroken DEF GiveUp
  <2>5. CASE Close \/ Gone \/ UNCHANGED vars
    <3>1. /\ UNCHANGED <<pc, wait, todo, call, query_compression, protocol,
                         write_chunked, write_buf, tainted, c2s, s2c>>
          /\ UNCHANGED <<srv, serving>>
      BY <2>5 DEF Close, Gone, vars, settled, client, issued, place, returned,
                  server
    <3>2. InStep
      BY <1>3, <3>1 DEF IInv
    <3>3. Out' = Out
      BY <3>1 DEF Out
    <3>4. (Before => Before') /\ (During => During')
      BY <3>1, <3>3, PlaceKept
    <3>5. Quiet => Quiet'
      <4>1. Left(Len(Out)) => Left(Len(Out))'
        BY <3>1, <3>3 DEF Left, BlocksAt
      <4> QED BY <3>1, <4>1 DEF Quiet
    <3>6. Written'
      BY <3>1, <3>2 DEF InStep, Written, Consistent
    <3> QED BY <3>1, <3>2, <3>4, <3>5, <3>6 DEF InStep
  <2> QED BY <2>1, <2>2, <2>3, <2>4, <2>5 DEF Next
<1> QED BY <1>1, <1>2, <1>3 DEF IInv

LEMMA Invariance == ASSUME Protocol PROVE Spec => []IInv
<1>1. Init => IInv
  BY IInvInit
<1>2. IInv /\ [Next]_vars => IInv'
  BY IInvStep
<1> QED BY <1>1, <1>2, PTL DEF Spec

(* What the invariant says of the packets the client has not read yet. *)
LEMMA Unread ==
  ASSUME IInv, ~tainted
  PROVE  \A i \in DOMAIN s2c : /\ s2c[i].req = call
                               /\ s2c[i].comp = ReadCompressed(s2c[i].type)
<1>1. s2c = <<>> \/ Answers
  BY DEF IInv, TypeOK, InStep, Quiet, Before, During
<1> QED BY <1>1 DEF Answers

(* No loop of Connection returns before the end of its answer, goes on past *)
(* it, or lets a request out before the last one is answered: whatever the  *)
(* client reads in a call, the server sent for that call, as long as no     *)
(* call has failed on the client's side.                                    *)
THEOREM RepliesAreOwn == ASSUME Protocol PROVE Spec => []OwnReplies
<1>1. IInv => OwnReplies
  BY Unread DEF OwnReplies
<1> QED BY <1>1, Invariance, PTL

(* ping, query_with and insert_blocks_with drain their answers and flush    *)
(* their requests: a call that returns Ok or the server's Exception leaves  *)
(* no packet to read and none in ChunkedStream's buffer.                    *)
THEOREM ReturnsQuiet == ASSUME Protocol PROVE Spec => []QuietWhenIdle
<1>1. IInv => QuietWhenIdle
  BY DEF IInv, InStep, Quiet, QuietWhenIdle
<1> QED BY <1>1, Invariance, PTL

(* The client sends a packet only where the server can take it, also if an  *)
(* INSERT fails while its blocks are on the way and the next call follows   *)
(* at once.                                                                 *)
THEOREM ServerKeepsUp == ASSUME Protocol PROVE Spec => []NeverSurprised
<1>1. IInv => NeverSurprised
  BY NotBroken DEF NeverSurprised
<1> QED BY <1>1, Invariance, PTL

(* read_response picks the CompressedReader for exactly the blocks the      *)
(* server compressed, whichever side is older than the version gates of Log *)
(* and ProfileEvents.                                                       *)
THEOREM CompressionIsAgreed ==
  ASSUME Protocol PROVE Spec => []CompressionAgrees
<1>1. IInv => CompressionAgrees
  BY Unread DEF CompressionAgrees
<1> QED BY <1>1, Invariance, PTL

(* The two ends block on each other's full buffers only where the client    *)
(* writes the blocks of an INSERT without reading (client.rs, steps 4 and   *)
(* 5 of insert_blocks_with), whatever the sizes of the buffers: a query and *)
(* its external tables are all taken before the server answers.             *)
THEOREM BlockedInInsert ==
  ASSUME Protocol PROVE Spec => []BlockedOnlyInInsertBody
<1>1. ASSUME IInv, MutualBlock, ~tainted
      PROVE  wait = "drain" /\ srv \in {"body", "skip"}
  <2>1. c2s # <<>> /\ s2c # <<>>
    <3>1. /\ CapC2S \in Nat /\ CapS2C \in Nat
          /\ Len(<<>>) = 0
      BY ConstantsAssumption
    <3>2. Len(c2s) > CapC2S /\ Len(s2c) > CapS2C
      BY <1>1 DEF MutualBlock
    <3> QED BY <3>1, <3>2
  <2>2. Out # <<>>
    <3>1. /\ c2s \in Seq(ClientPackets) /\ write_buf \in Seq(ClientPackets)
          /\ todo \in Seq(ClientPackets)
      BY <1>1 DEF IInv, TypeOK
    <3>2. c2s \o write_buf \in Seq(ClientPackets) /\ c2s \o write_buf # <<>>
      BY <2>1, <3>1, ConcatProperties, ConcatEqualIffEmpty
    <3> QED BY <3>1, <3>2, ConcatEqualIffEmpty DEF Out
  <2>3. During
    BY <1>1, <2>1 DEF IInv, TypeOK, InStep, Quiet, Before
  <2> QED BY <2>1, <2>2, <2>3 DEF During, Progressed
<1>2. IInv => BlockedOnlyInInsertBody
  BY <1>1 DEF BlockedOnlyInInsertBody
<1> QED BY <1>2, Invariance, PTL

=============================================================================
