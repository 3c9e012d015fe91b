----------------------------- MODULE Connection -----------------------------
(***************************************************************************)
(* An established connection of the client library (src/client.rs): the    *)
(* calls ping, query_with and insert_blocks_with, the one thread that runs *)
(* them, the two byte streams as FIFO queues of packets, and the server as *)
(* NATIVE_PROTOCOL.md and the client's loops describe it (external).       *)
(*                                                                         *)
(* A call is a script of packets to write (todo), a flush, and the loop    *)
(* that reads the answer (wait names the loop).  The client blocks while   *)
(* it writes: a queue longer than its capacity ends in a packet whose      *)
(* writer is still inside the write call and can do nothing else.          *)
(*                                                                         *)
(* call, answered and tainted are history: how many calls were started,    *)
(* whose request the packet answered that ended the last one, and whether  *)
(* any call has returned an error that was not an Exception the server     *)
(* sent.  Each packet carries, as history, the call it belongs to (req).   *)
(***************************************************************************)
EXTENDS Sequences, Feature

CONSTANTS
  ServerVersion,    \* protocol version of the server, as its Hello declared it
  MaxCalls,         \* bound: calls made on the connection
  MaxBlocks,        \* bound: external tables of a call, and blocks of an INSERT
  MaxReplies,       \* bound: packets the server sends besides schema and end
  CapC2S, CapS2C,   \* packets the socket buffers of each direction hold
  BlockKinds,       \* what a caller's block may be: "rows", "inconsistent",
                    \* or "empty", which a caller should leave out
  QueryStatements,  \* statements query_with is given: "select" answers with
                    \* blocks, "insert" asks for them, "command" does neither
  InsertStatements, \* statements insert_blocks_with is given; one that is no
                    \* INSERT is a mistake of the caller
  SideTypes,        \* metadata packets the server may interleave
  ServerFaults,     \* subset of {"undecodable", "close"}
  ReuseAfterError,  \* whether the caller goes on after an error of the client
  None              \* Option::None

AllSideTypes == {"ProfileInfo", "Log", "ProfileEvents", "TableColumns",
                 "TimezoneUpdate", "Totals", "Extremes"}

ASSUME ConstantsAssumption ==
  /\ ServerVersion \in Nat
  /\ {MaxCalls, MaxBlocks, MaxReplies, CapC2S, CapS2C} \subseteq Nat
  /\ BlockKinds \subseteq {"rows", "inconsistent", "empty"}
  /\ QueryStatements \subseteq {"select", "insert", "command"}
  /\ InsertStatements \subseteq {"select", "insert", "command"}
  /\ SideTypes \subseteq AllSideTypes
  /\ ServerFaults \subseteq {"undecodable", "close"}
  /\ ReuseAfterError \in BOOLEAN
  /\ None \notin Nat

VARIABLES
  \* the client's thread and its Connection
  pc, wait, todo, blocks, protocol, write_chunked, write_buf,
  query_compression, insert_progress, result, outcome,
  call, answered, tainted,
  \* the streams
  c2s, s2c, closed,
  \* the server's handler of this connection
  srv, serving, budget, sent

settled  == <<protocol, write_chunked>>               \* by the handshake
issued   == <<blocks, query_compression, call>>       \* by the call's start
place    == <<wait, todo>>                            \* in its script
returned == <<pc, outcome, answered, tainted>>        \* by its return
gathered == <<result, insert_progress>>               \* what it collects
client   == <<issued, place, returned, gathered, write_buf>>
server   == <<srv, serving, budget, sent>>
vars     == <<settled, client, c2s, s2c, closed, server>>

-----------------------------------------------------------------------------
(* Packets. *)

PingPacket(r) == [type |-> "Ping", req |-> r, body |-> "none", comp |-> FALSE]

QueryPacket(r, statement, compression) ==
  [type |-> "Query", req |-> r, body |-> statement, comp |-> compression]

(* A Data packet; one whose block turns out inconsistent stops after the   *)
(* packet code, the table name and the start of the block.                 *)
DataPacket(r, kind, compression) ==
  [type |-> "Data", req |-> r, body |-> kind, comp |-> compression]

DataPackets(r, kinds, compression) ==
  [i \in 1..Len(kinds) |-> DataPacket(r, kinds[i], compression)]

EmptyMarker(r, compression) == DataPacket(r, "empty", compression)

(* The blocks with rows, by their numbers in the order of the answer. *)
EmptyResult == [header |-> FALSE, rows |-> <<>>, side |-> {}]

(* Bug: Progress packets taken for running totals. *)
Accumulate_Totals(total, delta) == delta

(* Progress::accumulate into Option<Progress>, for the one summed counter. *)
Accumulate(total, delta) == IF total = None THEN delta ELSE total + delta

(* Bug: no version gate for Log and ProfileEvents. *)
ReadCompressed_Ungated(type) ==
  /\ type \in {"Data", "Totals", "Extremes", "Log", "ProfileEvents"}
  /\ query_compression

(* Whether read_response reads a block through a CompressedReader. *)
ReadCompressed(type) ==
  \/ type \in {"Data", "Totals", "Extremes"} /\ query_compression
  \/ /\ type \in {"Log", "ProfileEvents"}
     /\ query_compression
     /\ InVersion(COMPRESSED_LOGS_PROFILE_EVENTS_COLUMNS, protocol)

ClientFree == Len(c2s) <= CapC2S
ServerFree == ~closed /\ pc # "dropped" /\ Len(s2c) <= CapS2C

-----------------------------------------------------------------------------
(* The connection as the handshake leaves it. *)

Init ==
  /\ protocol = Negotiated(ClientVersion, ServerVersion)
  /\ write_chunked \in BOOLEAN
  /\ pc = "idle" /\ wait = "pong" /\ todo = <<>> /\ blocks = <<>>
  /\ write_buf = <<>>
  /\ query_compression = FALSE /\ insert_progress = None
  /\ result = EmptyResult /\ outcome = "none"
  /\ call = 0 /\ answered = 0 /\ tainted = FALSE
  /\ c2s = <<>> /\ s2c = <<>> /\ closed = FALSE
  /\ srv = "idle" /\ serving = [req |-> 0, body |-> "none", comp |-> FALSE]
  /\ budget = 0
  /\ sent = [result |-> EmptyResult, drain |-> None,
             end |-> "none"]

-----------------------------------------------------------------------------
(* Calls.  Their inputs are the caller's. *)

Inputs == UNION {[1..n -> BlockKinds] : n \in 0..MaxBlocks}

MayCall == pc = "idle" /\ call < MaxCalls /\ (tainted => ReuseAfterError)

Begin(loop, packets) ==
  /\ MayCall
  /\ call' = call + 1
  /\ pc' = "write" /\ wait' = loop /\ todo' = packets
  /\ result' = EmptyResult /\ outcome' = "none"
  /\ UNCHANGED <<settled, answered, tainted, write_buf, c2s, s2c, closed,
                 server>>

(* send_query_and_tables: Query, the external tables, the empty marker.    *)
QueryAndTables(r, statement, compression, tables) ==
  <<QueryPacket(r, statement, compression)>>
    \o DataPackets(r, tables, compression)
    \o <<EmptyMarker(r, compression)>>

Ping ==
  /\ Begin("pong", <<PingPacket(call + 1)>>)
  /\ UNCHANGED <<blocks, query_compression, insert_progress>>

QueryWith(statement, compression, tables) ==
  /\ Begin("select",
           QueryAndTables(call + 1, statement, compression, tables))
  /\ query_compression' = compression
  /\ UNCHANGED <<blocks, insert_progress>>

(* Bug: no empty block after the last one. *)
InsertBody_Unterminated(r, kinds, compression) ==
  DataPackets(r, kinds, compression)

(* Steps 4 and 5 of an INSERT. *)
InsertBody(r, kinds, compression) ==
  DataPackets(r, kinds, compression) \o <<EmptyMarker(r, compression)>>

(* Bug: the blocks follow the query without waiting for the schema. *)
InsertBlocksWith_Pipelined(statement, tables, inserted) ==
  /\ Begin("schema", QueryAndTables(call + 1, statement, FALSE, tables)
                       \o DataPackets(call + 1, inserted, FALSE))
  /\ query_compression' = FALSE
  /\ insert_progress' = None
  /\ blocks' = <<>>

InsertBlocksWith(statement, tables, inserted) ==
  /\ Begin("schema", QueryAndTables(call + 1, statement, FALSE, tables))
  /\ query_compression' = FALSE
  /\ insert_progress' = None
  /\ blocks' = inserted

(* A compressed INSERT is refused before anything is touched. *)
RefuseCompressedInsert ==
  /\ MayCall
  /\ call' = call + 1 /\ outcome' = "unsupported"
  /\ UNCHANGED <<settled, blocks, query_compression, place, pc, answered,
                 tainted, gathered, write_buf, c2s, s2c, closed, server>>

(* The caller drops the Connection, closing the socket. *)
Drop ==
  /\ pc = "idle" /\ pc' = "dropped"
  /\ UNCHANGED <<settled, issued, place, outcome, answered, tainted, gathered,
                 write_buf, c2s, s2c, closed, server>>

CallerStep ==
  \/ Ping
  \/ \E s \in QueryStatements, c \in BOOLEAN, t \in Inputs : QueryWith(s, c, t)
  \/ \E s \in InsertStatements, t, b \in Inputs : InsertBlocksWith(s, t, b)
  \/ RefuseCompressedInsert
  \/ Drop

-----------------------------------------------------------------------------
(* Writing. *)

(* The call returns to its caller. *)
Return(o, req) ==
  /\ pc' = "idle" /\ outcome' = o /\ answered' = req
  /\ tainted' = (tainted \/ o = "error")

(* ChunkedStream::write of one packet, and, for a whole compressed block,  *)
(* the CompressedWriter's flush, which also flushes the stream under it.   *)
PutPacket(p) ==
  IF ~write_chunked
    THEN c2s' = Append(c2s, p) /\ UNCHANGED write_buf
  ELSE IF p.type = "Data" /\ p.comp /\ p.body # "inconsistent"
    THEN c2s' = c2s \o Append(write_buf, p) /\ write_buf' = <<>>
  ELSE write_buf' = Append(write_buf, p) /\ UNCHANGED c2s

Write ==
  /\ pc = "write" /\ todo # <<>> /\ ClientFree
  /\ PutPacket(Head(todo))
  /\ IF Head(todo).body = "inconsistent"
       THEN Return("error", 0) /\ todo' = <<>>
       ELSE todo' = Tail(todo) /\ UNCHANGED returned
  /\ UNCHANGED <<settled, issued, wait, gathered, s2c, closed, server>>

(* Bug: the chunk buffer is written out and kept. *)
FlushBuffer_Kept == c2s' = c2s \o write_buf /\ UNCHANGED write_buf

(* ChunkedStream::flush. *)
FlushBuffer == c2s' = c2s \o write_buf /\ write_buf' = <<>>

(* The last write of a script, then the loop that reads the answer. *)
Flush ==
  /\ pc = "write" /\ todo = <<>> /\ ClientFree
  /\ FlushBuffer
  /\ pc' = "read"
  /\ UNCHANGED <<settled, issued, place, outcome, answered, tainted, gathered,
                 s2c, closed, server>>

(* A write to, or one still blocked on, a socket the peer has closed. *)
BrokenPipe ==
  /\ closed
  /\ pc = "write" \/ (pc = "read" /\ ~ClientFree)
  /\ Return("error", 0) /\ todo' = <<>>
  /\ UNCHANGED <<settled, issued, wait, gathered, write_buf, c2s, s2c, closed,
                 server>>

-----------------------------------------------------------------------------
(* Reading: read_response and the four loops around it. *)

Metadata == {"ProfileInfo", "Log", "ProfileEvents", "TableColumns",
             "TimezoneUpdate"}

PongVerdict(type) ==
  CASE type = "Pong"      -> "ok"
    [] type = "Exception" -> "exception"
    [] OTHER              -> "error"

(* Bug: the arm for Data copied from an INSERT's loop. *)
SelectVerdict_Schema(type) ==
  CASE type = "EndOfStream" -> "ok"
    [] type = "Exception"   -> "exception"
    [] type = "Data"        -> "schema"
    [] OTHER                -> "more"

(* Bug: the totals taken for the end of the answer. *)
SelectVerdict_TotalsEnd(type) ==
  CASE type \in {"EndOfStream", "Totals"} -> "ok"
    [] type = "Exception"                 -> "exception"
    [] type = "Pong"                      -> "error"
    [] OTHER                              -> "more"

(* Bug: an Exception is one more packet of the answer. *)
SelectVerdict_PastException(type) ==
  CASE type = "EndOfStream" -> "ok"
    [] type = "Pong"        -> "error"
    [] OTHER                -> "more"

SelectVerdict(type) ==
  CASE type = "EndOfStream" -> "ok"
    [] type = "Exception"   -> "exception"
    [] type = "Pong"        -> "error"
    [] OTHER                -> "more"

SchemaVerdict(type) ==
  CASE type = "Data"                       -> "schema"
    [] type = "Exception"                  -> "exception"
    [] type \in Metadata \cup {"Progress"} -> "more"
    [] OTHER                               -> "error"

(* Bug: a failed INSERT reported as done. *)
DrainVerdict_Swallowed(type) ==
  CASE type \in {"EndOfStream", "Exception"} -> "ok"
    [] type \in Metadata \cup {"Progress"}   -> "more"
    [] OTHER                                 -> "error"

DrainVerdict(type) ==
  CASE type = "EndOfStream"                -> "ok"
    [] type = "Exception"                  -> "exception"
    [] type \in Metadata \cup {"Progress"} -> "more"
    [] OTHER                               -> "error"

(* Bug: the empty boundary block counted as a block of rows. *)
Collect_Boundary(res, p) ==
  CASE p.type = "Data" /\ ~res.header -> [res EXCEPT !.header = TRUE]
    [] p.type = "Data" /\ res.header  -> [res EXCEPT !.rows = Append(@, p.delta)]
    [] OTHER                          -> res

(* read_query_response, per packet. *)
Collect(res, p) ==
  CASE p.type = "Data" /\ ~res.header       -> [res EXCEPT !.header = TRUE]
    [] p.type = "Data" /\ res.header /\ p.body # "empty"
                                            -> [res EXCEPT !.rows = Append(@, p.delta)]
    [] p.type \in {"Totals", "Extremes", "ProfileInfo", "Log",
                   "ProfileEvents"}         -> [res EXCEPT !.side = @ \cup {p.type}]
    [] OTHER                                -> res

Readable(p) ==
  /\ p.type # "Fragment" /\ p.body # "undecodable"
  /\ p.comp = ReadCompressed(p.type)

Receiving == pc = "read" /\ ClientFree /\ s2c # <<>>

CanRead(loop) == wait = loop /\ Receiving /\ Readable(Head(s2c))

(* What a loop does with a verdict that keeps it or ends it. *)
Settle(verdict) ==
  IF verdict = "more"
    THEN UNCHANGED returned
    ELSE Return(verdict, Head(s2c).req)

ReadPong ==
  /\ CanRead("pong")
  /\ s2c' = Tail(s2c)
  /\ Settle(PongVerdict(Head(s2c).type))
  /\ UNCHANGED <<settled, issued, place, gathered, write_buf, c2s, closed,
                 server>>

ReadQueryResponse ==
  /\ CanRead("select")
  /\ s2c' = Tail(s2c)
  /\ Settle(SelectVerdict(Head(s2c).type))
  /\ result' = Collect(result, Head(s2c))
  /\ UNCHANGED <<settled, issued, place, insert_progress, write_buf, c2s,
                 closed, server>>

(* The end of an INSERT's step 3. *)
SendBlocks ==
  /\ pc' = "write" /\ wait' = "drain"
  /\ todo' = InsertBody(call, blocks, query_compression)
  /\ UNCHANGED <<outcome, answered, tainted>>

ReadSchema ==
  /\ CanRead("schema")
  /\ s2c' = Tail(s2c)
  /\ IF SchemaVerdict(Head(s2c).type) = "schema"
       THEN SendBlocks
       ELSE Settle(SchemaVerdict(Head(s2c).type)) /\ UNCHANGED place
  /\ UNCHANGED <<settled, issued, gathered, write_buf, c2s, closed, server>>

(* Step 6 of an INSERT. *)
ReadInsertResponse ==
  /\ CanRead("drain")
  /\ s2c' = Tail(s2c)
  /\ Settle(DrainVerdict(Head(s2c).type))
  /\ insert_progress' = IF Head(s2c).type = "Progress"
                          THEN Accumulate(insert_progress, Head(s2c).delta)
                          ELSE insert_progress
  /\ UNCHANGED <<settled, issued, place, result, write_buf, c2s, closed,
                 server>>

(* A block the decoder gives up on.  The rest of its bytes stay unread, if  *)
(* any are left: the last frame of a compressed block is always used up.   *)
DecodeError(used) ==
  /\ Receiving /\ Head(s2c).type # "Fragment" /\ ~Readable(Head(s2c))
  /\ s2c' = IF used THEN Tail(s2c)
            ELSE <<[Head(s2c) EXCEPT !.type = "Fragment"]>> \o Tail(s2c)
  /\ Return("error", Head(s2c).req)
  /\ UNCHANGED <<settled, issued, place, gathered, write_buf, c2s, closed,
                 server>>

(* Bytes from the middle of a packet read as a packet: anything may come   *)
(* of it, and the rest of the packet may be used up or not.                *)
ReadFragment(verdict, used) ==
  /\ Receiving /\ Head(s2c).type = "Fragment"
  /\ s2c' = IF used THEN Tail(s2c) ELSE s2c
  /\ IF verdict = "ok" /\ wait = "schema"
       THEN SendBlocks
       ELSE Settle(verdict) /\ UNCHANGED place
  /\ UNCHANGED <<settled, issued, gathered, write_buf, c2s, closed, server>>

ReadEof ==
  /\ pc = "read" /\ ClientFree /\ s2c = <<>> /\ closed
  /\ Return("error", 0)
  /\ UNCHANGED <<settled, issued, place, gathered, write_buf, c2s, s2c, closed,
                 server>>

ClientStep ==
  \/ Write \/ Flush \/ BrokenPipe
  \/ ReadPong \/ ReadQueryResponse \/ ReadSchema \/ ReadInsertResponse
  \/ \E used \in BOOLEAN :
       \/ DecodeError(used)
       \/ \E verdict \in {"ok", "exception", "error", "more"} :
            ReadFragment(verdict, used)
  \/ ReadEof

-----------------------------------------------------------------------------
(* The server (external).  It takes one packet at a time, answers a Ping   *)
(* at once, runs a query when it has read the empty marker, and sends for  *)
(* each request any number of packets that end in one Pong, EndOfStream or *)
(* Exception.  An INSERT that fails midway still reads the client's blocks *)
(* up to the marker.                                                       *)

ServerCompressed(type) ==
  \/ type \in {"Data", "Totals", "Extremes"} /\ serving.comp
  \/ /\ type \in {"Log", "ProfileEvents"}
     /\ serving.comp
     /\ InVersion(COMPRESSED_LOGS_PROFILE_EVENTS_COLUMNS,
                  Negotiated(ClientVersion, ServerVersion))

(* delta: the increment of a Progress, the number of a block with rows. *)
ServerPacket(type, body, delta) ==
  [type |-> type, req |-> serving.req, body |-> body,
   comp |-> ServerCompressed(type), delta |-> delta]

Answering == srv \in {"answer", "setup", "body", "finish"}

Post(type, body, delta) == s2c' = Append(s2c, ServerPacket(type, body, delta))

(* A packet the request may have any number of. *)
Extra(type, body, delta) ==
  /\ ServerFree /\ Answering /\ budget > 0
  /\ budget' = budget - 1
  /\ Post(type, body, delta)
  /\ UNCHANGED <<settled, client, c2s, closed, srv, serving>>

(* The number of the next block with rows; the others have none. *)
BlockNumber(body) == IF body = "rows" THEN Len(sent.result.rows) + 1 ELSE 0

SendBlock(body) ==
  /\ srv = "answer" /\ serving.body = "select"
  /\ body = "header" <=> ~sent.result.header
  /\ Extra("Data", body, BlockNumber(body))
  /\ sent' = [sent EXCEPT !.result.header = TRUE,
                          !.result.rows = IF body = "rows" THEN Append(@, BlockNumber(body)) ELSE @]

(* A block in a form the client's decoder refuses. *)
SendUndecodable ==
  /\ "undecodable" \in ServerFaults
  /\ srv = "answer" /\ serving.body = "select"
  /\ Extra("Data", "undecodable", 0)
  /\ sent' = [sent EXCEPT !.result.header = TRUE]

Tally(count) == IF count = None THEN 1 ELSE count + 1

SendProgress ==
  /\ Extra("Progress", "none", 1)
  /\ sent' = IF srv \in {"body", "finish"}
               THEN [sent EXCEPT !.drain = Tally(@)]
               ELSE sent

SendSide(type) ==
  /\ type \in {"Totals", "Extremes"} =>
       srv = "answer" /\ serving.body = "select" /\ sent.result.header
  /\ Extra(type, "none", 0)
  /\ sent' = [sent EXCEPT !.result.side = @ \cup {type}]

SendSchema(body) ==
  /\ body = "header" \/ "undecodable" \in ServerFaults
  /\ ServerFree /\ srv = "setup"
  /\ srv' = "body"
  /\ Post("Data", body, 0)
  /\ UNCHANGED <<settled, client, c2s, closed, serving, budget, sent>>

Finish ==
  /\ ServerFree /\ srv \in {"answer", "finish"}
  /\ srv' = "idle"
  /\ Post("EndOfStream", "none", 0)
  /\ sent' = [sent EXCEPT !.end = "ok"]
  /\ UNCHANGED <<settled, client, c2s, closed, serving, budget>>

Throw ==
  /\ ServerFree /\ Answering
  /\ srv' = IF srv = "body" THEN "skip" ELSE "idle"
  /\ Post("Exception", "none", 0)
  /\ sent' = [sent EXCEPT !.end = "exception"]
  /\ UNCHANGED <<settled, client, c2s, closed, serving, budget>>

(* The server takes the packet at the head of the client's stream. *)
Take(type) ==
  /\ ServerFree /\ c2s # <<>> /\ Head(c2s).type = type
  /\ c2s' = Tail(c2s)
  /\ UNCHANGED <<settled, client, closed>>

Serve(p) ==
  /\ serving' = [req |-> p.req, body |-> p.body, comp |-> p.comp]
  /\ sent' = [result |-> EmptyResult, drain |-> None,
              end |-> IF p.type = "Ping" THEN "ok" ELSE "none"]

TakePing ==
  /\ srv = "idle" /\ Take("Ping")
  /\ Serve(Head(c2s))
  /\ s2c' = Append(s2c, [type |-> "Pong", req |-> Head(c2s).req,
                         body |-> "none", comp |-> FALSE, delta |-> 0])
  /\ UNCHANGED <<srv, budget>>

TakeQuery ==
  /\ srv = "idle" /\ Take("Query")
  /\ Serve(Head(c2s))
  /\ srv' = "tables" /\ budget' = MaxReplies
  /\ UNCHANGED s2c

(* A client block the server can make sense of where it is. *)
Welcome(p) ==
  /\ srv \in {"tables", "body", "skip"}
  /\ p.type = "Data" /\ p.body # "inconsistent" /\ p.comp = serving.comp

TakeBlock ==
  /\ Take("Data") /\ Welcome(Head(c2s)) /\ Head(c2s).body = "rows"
  /\ UNCHANGED <<s2c, server>>

TakeMarker ==
  /\ Take("Data") /\ Welcome(Head(c2s)) /\ Head(c2s).body = "empty"
  /\ srv' = CASE srv = "tables" /\ serving.body = "insert" -> "setup"
               [] srv = "tables" /\ serving.body # "insert" -> "answer"
               [] srv = "body"                              -> "finish"
               [] srv = "skip"                              -> "idle"
  /\ UNCHANGED <<s2c, serving, budget, sent>>

(* Anything else ends the conversation: the server reads on for the rest   *)
(* of a packet that never comes, or answers it with an Exception and hangs *)
(* up.                                                                     *)
Surprised ==
  /\ ServerFree /\ c2s # <<>>
  /\ srv \in {"idle", "tables", "body", "skip"}
  /\ ~Welcome(Head(c2s))
  /\ ~(srv = "idle" /\ Head(c2s).type \in {"Ping", "Query"})
  /\ srv' = "broken"
  /\ serving' = [serving EXCEPT !.req = Head(c2s).req]
  /\ sent' = [sent EXCEPT !.end = "none"]
  /\ UNCHANGED <<settled, client, c2s, s2c, closed, budget>>

Swallow ==
  /\ ServerFree /\ srv = "broken" /\ c2s # <<>>
  /\ c2s' = Tail(c2s)
  /\ UNCHANGED <<settled, client, s2c, closed, server>>

GiveUp ==
  /\ ServerFree /\ srv = "broken"
  /\ Post("Exception", "none", 0) /\ closed' = TRUE
  /\ sent' = [sent EXCEPT !.end = "exception"]
  /\ UNCHANGED <<settled, client, c2s, srv, serving, budget>>

Close ==
  /\ "close" \in ServerFaults /\ ~closed /\ pc # "dropped"
  /\ closed' = TRUE
  /\ UNCHANGED <<settled, client, c2s, s2c, server>>

ServerStep ==
  \/ \E body \in {"header", "rows", "empty"} : SendBlock(body)
  \/ SendUndecodable \/ SendProgress
  \/ \E type \in SideTypes : SendSide(type)
  \/ \E body \in {"header", "undecodable"} : SendSchema(body)
  \/ Finish \/ Throw
  \/ TakePing \/ TakeQuery \/ TakeBlock \/ TakeMarker
  \/ Surprised \/ Swallow

-----------------------------------------------------------------------------
(* Nothing happens after the connection is dropped. *)
Gone == pc = "dropped" /\ UNCHANGED vars

Next ==
  \/ CallerStep \/ ClientStep \/ ServerStep \/ GiveUp \/ Close
  \/ Gone

Spec == Init /\ [][Next]_vars

(* The client's thread runs, and the server works on what it was sent. *)
FairSpec == Spec /\ WF_vars(ClientStep) /\ WF_vars(ServerStep)

-----------------------------------------------------------------------------
(* Properties. *)

Statements == {"select", "insert", "command"}
Kinds == {"rows", "inconsistent", "empty"}

ClientPackets ==
  [type : {"Ping"}, req : Nat, body : {"none"}, comp : {FALSE}]
    \cup [type : {"Query"}, req : Nat, body : Statements, comp : BOOLEAN]
    \cup [type : {"Data"}, req : Nat, body : Kinds, comp : BOOLEAN]

ServerPackets ==
  [type : {"Pong", "Data", "Progress", "EndOfStream", "Exception", "Fragment"}
            \cup AllSideTypes,
   req : Nat, body : {"none", "header", "rows", "empty", "undecodable"},
   comp : BOOLEAN, delta : Nat]

Results == [header : BOOLEAN, rows : Seq(Nat), side : SUBSET AllSideTypes]

(* Every variable has its type. *)
TypeOK ==
  /\ pc \in {"idle", "write", "read", "dropped"}
  /\ wait \in {"pong", "select", "schema", "drain"}
  /\ todo \in Seq(ClientPackets) /\ blocks \in Seq(BlockKinds)
  /\ protocol \in Nat /\ write_chunked \in BOOLEAN
  /\ write_buf \in Seq(ClientPackets)
  /\ query_compression \in BOOLEAN /\ insert_progress \in Nat \cup {None}
  /\ result \in Results
  /\ outcome \in {"none", "ok", "exception", "error", "unsupported"}
  /\ call \in Nat /\ answered \in Nat /\ tainted \in BOOLEAN
  /\ c2s \in Seq(ClientPackets) /\ s2c \in Seq(ServerPackets)
  /\ closed \in BOOLEAN
  /\ srv \in {"idle", "tables", "answer", "setup", "body", "finish", "skip",
              "broken"}
  /\ serving \in [req : Nat, comp : BOOLEAN, body : Statements \cup {"none"}]
  /\ budget \in Nat
  /\ sent \in [result : Results, drain : Nat \cup {None}, end : {"none", "ok", "exception"}]

(* Until a call fails on the client's side, whatever waits to be read      *)
(* answers the call in progress: no loop returns early, or goes on past    *)
(* the end of its answer, or sends a request before the last one is done.  *)
OwnReplies == ~tainted => \A i \in DOMAIN s2c : s2c[i].req = call

(* A call that returns leaves nothing behind: nothing of its answer unread *)
(* (SELECT's and INSERT's loops drain up to EndOfStream or Exception), and *)
(* nothing of its request in the chunk buffer.                             *)
QuietWhenIdle ==
  pc \in {"idle", "dropped"} /\ ~tainted => s2c = <<>> /\ write_buf = <<>>

(* The server is never sent a packet it cannot take where it is: no block  *)
(* outside a query or an INSERT's body, no request inside one, no block    *)
(* compressed for a query that is not, also when an INSERT fails while its *)
(* blocks are still on the way.                                            *)
NeverSurprised == ~tainted => srv # "broken"

(* Each block is read through a CompressedReader exactly if the server     *)
(* compressed it, Log and ProfileEvents by their own version gate.         *)
CompressionAgrees ==
  ~tainted => \A i \in DOMAIN s2c : s2c[i].comp = ReadCompressed(s2c[i].type)

(* A query that returns Ok returns all of its answer: the header, every    *)
(* block with rows, each of them once and in the order they were sent in,  *)
(* and each kind of metadata that QueryResult keeps.                       *)
ResultIsComplete ==
  pc = "idle" /\ ~tainted /\ outcome = "ok" /\ wait = "select"
    => result = [sent.result EXCEPT !.side = @ \ {"TableColumns",
                                                  "TimezoneUpdate"}]

(* After an INSERT, insert_progress is the sum of the increments the       *)
(* server sent after the schema block, and nothing of an earlier call's.   *)
ProgressSinceSchema ==
  pc = "idle" /\ ~tainted /\ outcome = "ok" /\ wait = "drain"
    => insert_progress = sent.drain

(* The connection keeps the promise of Session: a call returns what the    *)
(* server decided on that very call, or an error after which, if the       *)
(* caller heeds it, no call is made.                                       *)
Promise == INSTANCE Session WITH
  phase    <- CASE pc = "dropped"          -> "closed"
                [] pc \in {"write", "read"} -> "busy"
                [] pc = "idle" /\ tainted   -> "failed"
                [] OTHER                    -> "ready",
  decision <- IF serving.req = call /\ ~tainted THEN sent.end ELSE "none"

KeepsPromise == Promise!Spec

(* Client and server block on each other's full buffers only while an      *)
(* INSERT writes its blocks, which it does without reading.                *)
MutualBlock == ~closed /\ Len(c2s) > CapC2S /\ Len(s2c) > CapS2C

BlockedOnlyInInsertBody ==
  MutualBlock /\ ~tainted => wait = "drain" /\ srv \in {"body", "skip"}

(* The server waits for the blocks of an INSERT that query() was given,    *)
(* and which the client therefore never sends.                             *)
StarvedInsert ==
  LET outgoing == c2s \o write_buf \o todo IN
  /\ srv \in {"body", "skip"}
  /\ \A i \in DOMAIN outgoing : outgoing[i].req # serving.req
  /\ ~(serving.req = call /\ wait = "schema")

(* Every call returns, unless the server waits for such an INSERT's blocks *)
(* (or has lost its place when a later call followed one), both ends are   *)
(* blocked while an INSERT writes, or an earlier error was not heeded.     *)
CallsReturn ==
  pc \in {"write", "read"} ~>
    \/ pc = "idle" \/ tainted
    \/ StarvedInsert \/ srv = "broken" \/ MutualBlock

(* A query that returns rows returns its own, whatever went before it.  It *)
(* does if a connection is given up once a block on it could not be        *)
(* decoded, as IMPLEMENTATION_NOTES.md 2.4 demands.                        *)
RowsAreItsOwn ==
  pc = "idle" /\ outcome = "ok" /\ wait = "select" /\ result.header
    => answered = call
=============================================================================
