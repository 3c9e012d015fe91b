----------------------------- MODULE Transport -----------------------------
(***************************************************************************)
(* One direction of a connection below the packets: ProtoWrite's writes,   *)
(* CompressedWriter, ChunkedStream, the socket, ChunkedStream again,       *)
(* CompressedReader and the consumer that decodes packet by packet         *)
(* (src/proto/chunked.rs, compression.rs, wire.rs, read_block and          *)
(* write_block of client.rs).  When dir is "send" the code is the writer   *)
(* and the server the reader; when it is "receive" the server writes: it   *)
(* cuts chunks and frames where its buffers end.                           *)
(*                                                                         *)
(* A packet is a code that says what follows, some values written raw (the *)
(* table name) and a block, compressed or not.  The values of all packets  *)
(* are numbered 1, 2, 3... in the order they are written; a value is one   *)
(* unit of length, as is a packet code, a frame's 25 byte header and a     *)
(* chunk's 4 byte header.  A frame's checksum is what it was taken over.   *)
(***************************************************************************)
EXTENDS Integers, Sequences, SequencesExt, FiniteSetsExt

CONSTANTS
  Dirs,         \* directions to look at, of {"send", "receive"}
  Framings,     \* what the negotiation may have settled on, of BOOLEAN
  ShortWrites,  \* may the socket take less than it is given?
  SizeBits,     \* width of a chunk's size: 32 in the code
  Bodies,       \* bodies of packets, records [plain, block, compressed]
  MaxRequest,   \* bound: units between two flushes, which must fit that width
  MaxPackets,   \* bound: packets written
  MaxCorrupt    \* bound: frames damaged on the way

ASSUME TransportAssumption ==
  /\ Dirs \subseteq {"send", "receive"}
  /\ Framings \subseteq BOOLEAN /\ ShortWrites \in BOOLEAN
  /\ SizeBits \in Nat /\ MaxPackets \in Nat /\ MaxCorrupt \in Nat
  /\ MaxRequest \in Nat
  /\ Bodies \subseteq [plain : Nat, block : Nat \ {0}, compressed : BOOLEAN]

VARIABLES
  dir, framed,
  \* the writer: what is left of its packet, values handed over, flushed
  job, sent, flushed, packets, write_buf, corrupted,
  wire,
  \* the reader: ChunkedStream, CompressedReader, the consumer
  read_remaining, frame, buf, stage, plan, want, got

fixed  == <<dir, framed>>
writer == <<job, sent, flushed, packets, write_buf, corrupted>>
reader == <<read_remaining, frame, buf, stage, plan, want, got>>
vars   == <<fixed, writer, wire, reader>>

-----------------------------------------------------------------------------
(* Units on the wire. *)

Damaged == 0
Value(v)           == [tag |-> "value", v |-> v]
Code(b)            == [tag |-> "code", body |-> b]
(* Bug: the checksum taken before the body is there. *)
FrameHeader_Bug(body) == [tag |-> "frame", size |-> Len(body), checksum |-> <<>>]

FrameHeader(body) == [tag |-> "frame", size |-> Len(body), checksum |-> body]

ChunkHeader(size) == [tag |-> "chunk", size |-> size]

Values(n) == [i \in 1 .. n |-> Value(sent + i)]

Size(b) == 1 + b.plain + b.block + (IF b.compressed THEN 1 ELSE 0)

(* How ChunkedStream::flush frames what it has: the size is cast to u32.   *)
Packet(units) ==
  <<ChunkHeader(Len(units) % 2^SizeBits)>> \o units \o <<ChunkHeader(0)>>

(* encode_frame, of the values of a block. *)
Frame(values) == <<FrameHeader([i \in DOMAIN values |-> values[i].v])>> \o values

(* The same frame with one value of its body changed on the way. *)
DamagedFrame(values) ==
  <<Frame(values)[1], Value(Damaged)>> \o Tail(values)

-----------------------------------------------------------------------------
(* Writing. *)

(* ChunkedStream::write, reached by write_all or by the writes of          *)
(* ProtoWrite, which drop the count that write returns.                    *)
Put(units, all) ==
  IF framed
  THEN write_buf' = write_buf \o units /\ UNCHANGED wire
  ELSE /\ UNCHANGED write_buf
       /\ \E k \in IF all \/ ~ShortWrites \/ dir = "receive"
                 THEN {Len(units)} ELSE 1 .. Len(units) :
            wire' = wire \o SubSeq(units, 1, k)

(* A packet's code, read_varuint of one byte on the other side. *)
StartPacket ==
  /\ job = <<>> /\ packets < MaxPackets
  /\ \E b \in Bodies :
       /\ Len(write_buf) + Size(b) <= MaxRequest
       /\ job' = IF b.plain = 0 THEN <<[what |-> "block", body |-> b]>>
                 ELSE <<[what |-> "plain", body |-> b], [what |-> "block", body |-> b]>>
       /\ Put(<<Code(b)>>, FALSE)
  /\ packets' = packets + 1
  /\ UNCHANGED <<fixed, sent, flushed, corrupted, reader>>

(* ProtoWrite::write_string, of the table name. *)
WritePlain ==
  /\ job # <<>> /\ Head(job).what = "plain"
  /\ Put(Values(Head(job).body.plain), FALSE)
  /\ sent' = sent + Head(job).body.plain
  /\ job' = Tail(job)
  /\ UNCHANGED <<fixed, flushed, packets, corrupted, reader>>

(* Connection::write_block without compression. *)
WriteRawBlock ==
  /\ job # <<>> /\ Head(job).what = "block" /\ ~Head(job).body.compressed
  /\ Put(Values(Head(job).body.block), FALSE)
  /\ sent' = sent + Head(job).body.block
  /\ job' = <<>>
  /\ UNCHANGED <<fixed, flushed, packets, corrupted, reader>>

(* Connection::write_block with compression: the block gathers in          *)
(* CompressedWriter.buf, its flush writes one frame and flushes the        *)
(* ChunkedStream under it.                                                 *)
WriteCompressedBlock ==
  /\ dir = "send" /\ job # <<>>
  /\ Head(job).what = "block" /\ Head(job).body.compressed
  /\ LET block == Values(Head(job).body.block) IN
     \E units \in {Frame(block)}
                  \cup (IF corrupted < MaxCorrupt THEN {DamagedFrame(block)} ELSE {}) :
       /\ wire' = wire \o (IF framed THEN Packet(write_buf \o units) ELSE units)
       /\ corrupted' = corrupted + (IF units = Frame(block) THEN 0 ELSE 1)
  /\ write_buf' = <<>>
  /\ sent' = sent + Head(job).body.block /\ flushed' = sent'
  /\ job' = <<>>
  /\ UNCHANGED <<fixed, packets, reader>>

(* Bug: only the inner stream is flushed. *)
Flush_Bug ==
  /\ dir = "send" /\ job = <<>> /\ flushed # sent
  /\ flushed' = sent
  /\ UNCHANGED <<fixed, job, sent, packets, write_buf, corrupted, wire, reader>>

(* ChunkedStream::flush, at the end of a request: several packets may have *)
(* been written since the last one.                                        *)
Flush ==
  /\ dir = "send" /\ job = <<>> /\ (flushed # sent \/ write_buf # <<>>)
  /\ wire' = IF framed /\ write_buf # <<>> THEN wire \o Packet(write_buf) ELSE wire
  /\ write_buf' = IF framed THEN <<>> ELSE write_buf
  /\ flushed' = sent
  /\ UNCHANGED <<fixed, job, sent, packets, corrupted, reader>>

(* The server's writer: a block leaves in frames of any size, the last one *)
(* ending with the block.                                                  *)
ServerFrame ==
  /\ dir = "receive" /\ job # <<>>
  /\ Head(job).what = "block" /\ Head(job).body.compressed
  /\ \E n \in 1 .. Head(job).body.block :
       /\ \E units \in {Frame(Values(n))}
                       \cup (IF corrupted < MaxCorrupt THEN {DamagedFrame(Values(n))} ELSE {}) :
            /\ Put(units, TRUE)
            /\ corrupted' = corrupted + (IF units = Frame(Values(n)) THEN 0 ELSE 1)
       /\ sent' = sent + n
       /\ job' = IF n = Head(job).body.block THEN <<>>
                 ELSE <<[Head(job) EXCEPT !.body.block = @ - n]>>
  /\ UNCHANGED <<fixed, flushed, packets, reader>>

(* ... and sends what it has as a chunk whenever its buffer is full, ...   *)
ServerChunk ==
  /\ dir = "receive" /\ framed
  /\ \E k \in 1 .. Min({Len(write_buf), 2^SizeBits - 1}) :
       /\ wire' = wire \o <<ChunkHeader(k)>> \o SubSeq(write_buf, 1, k)
       /\ write_buf' = SubSeq(write_buf, k + 1, Len(write_buf))
  /\ UNCHANGED <<fixed, job, sent, flushed, packets, corrupted, reader>>

(* ... and ends the packet behind the last of its chunks. *)
ServerFlush ==
  /\ dir = "receive" /\ job = <<>> /\ flushed # sent
  /\ write_buf = <<>>
  /\ wire' = IF framed THEN Append(wire, ChunkHeader(0)) ELSE wire
  /\ flushed' = sent
  /\ UNCHANGED <<fixed, job, sent, packets, write_buf, corrupted, reader>>

-----------------------------------------------------------------------------
(* Reading. *)

NoFrame == [size |-> 0, checksum |-> <<>>, body |-> <<>>, open |-> FALSE]
NoBody  == [plain |-> 0, block |-> 0, compressed |-> FALSE]

(* Bug: the table name read through the CompressedReader as well. *)
Decompresses_Bug == stage \in {"plain", "block"} /\ plan.compressed

Decompresses == stage = "block" /\ plan.compressed

(* How many units the consumer asks its stream for: read_exact loops until *)
(* it has as many.                                                         *)
Asked ==
  CASE stage = "code" -> 1
    [] Decompresses /\ frame.open -> frame.size - Len(frame.body)
    [] Decompresses /\ ~frame.open -> IF buf = <<>> THEN 1 ELSE 0
    [] stage \in {"plain", "block"} /\ ~Decompresses -> want
    [] OTHER -> 0

(* ChunkedStream::read, its loop over headers: a terminator is skipped.    *)
ReadHeader ==
  /\ framed /\ Asked > 0 /\ read_remaining = 0 /\ wire # <<>>
  /\ wire' = Tail(wire)
  /\ IF Head(wire).tag = "chunk"
     THEN read_remaining' = Head(wire).size /\ UNCHANGED stage
     ELSE stage' = "garbled" /\ UNCHANGED read_remaining
  /\ UNCHANGED <<fixed, writer, frame, buf, plan, want, got>>

(* Once the plain values, or the block, are complete. *)
EnterBlock == stage' = "block" /\ want' = plan.block
EnterCode  == stage' = "code" /\ want' = 0

(* The packet code: which packet, so what to decode next. *)
TakeCode(units) ==
  /\ plan' = units[1].body
  /\ IF units[1].body.plain > 0
     THEN stage' = "plain" /\ want' = units[1].body.plain
     ELSE stage' = "block" /\ want' = units[1].body.block
  /\ UNCHANGED <<frame, buf, got>>

(* Values read from the ChunkedStream itself. *)
TakeValues(units) ==
  /\ got' = got \o [i \in DOMAIN units |-> units[i].v]
  /\ IF want > Len(units) THEN want' = want - Len(units) /\ UNCHANGED stage
     ELSE IF stage = "plain" THEN EnterBlock ELSE EnterCode
  /\ UNCHANGED <<frame, buf, plan>>

(* decode_frame: header first, then a body as long as the header says. *)
TakeFrameHeader(units) ==
  /\ frame' = [size |-> units[1].size, checksum |-> units[1].checksum,
               body |-> <<>>, open |-> TRUE]
  /\ UNCHANGED <<buf, stage, plan, want, got>>

(* Bug: the checksum is read and not compared. *)
TakeFrameBody_Bug(units) ==
  LET body == frame.body \o [i \in DOMAIN units |-> units[i].v]
      whole == Len(body) = frame.size
  IN /\ frame' = IF whole THEN NoFrame ELSE [frame EXCEPT !.body = body]
     /\ buf' = IF whole THEN body ELSE buf
     /\ UNCHANGED <<stage, plan, want, got>>

TakeFrameBody(units) ==
  LET body == frame.body \o [i \in DOMAIN units |-> units[i].v]
      whole == Len(body) = frame.size
      intact == body = frame.checksum
  IN /\ frame' = IF whole THEN NoFrame ELSE [frame EXCEPT !.body = body]
     /\ buf' = IF whole /\ intact THEN body ELSE buf
     /\ stage' = IF whole /\ ~intact THEN "corrupt" ELSE stage
     /\ UNCHANGED <<plan, want, got>>

(* Bug: a read is not cut at the end of the chunk. *)
Available_Bug == Min({Asked, Len(wire)})

(* What is asked for, cut at the end of the chunk, as far as the socket    *)
(* has it.                                                                 *)
Available ==
  Min({Asked, Len(wire)} \cup (IF framed THEN {read_remaining} ELSE {}))

(* Bug: what was asked for is counted off, not what was read. *)
Remaining_Bug(k) ==
  IF framed THEN read_remaining - Min({Asked, read_remaining}) ELSE read_remaining

Remaining(k) == IF framed THEN read_remaining - k ELSE read_remaining

(* ChunkedStream::read behind the header: the socket may give less.        *)
Read ==
  /\ Asked > 0 /\ (framed => read_remaining > 0) /\ wire # <<>>
  /\ \E k \in 1 .. Available :
       LET units == SubSeq(wire, 1, k)
           all(tag) == \A i \in 1 .. k : units[i].tag = tag
       IN /\ wire' = SubSeq(wire, k + 1, Len(wire))
          /\ read_remaining' = Remaining(k)
          /\ CASE stage = "code" /\ all("code") -> TakeCode(units)
               [] Decompresses /\ ~frame.open /\ all("frame") -> TakeFrameHeader(units)
               [] Decompresses /\ frame.open /\ all("value") -> TakeFrameBody(units)
               [] stage # "code" /\ ~Decompresses /\ all("value") -> TakeValues(units)
               [] OTHER -> stage' = "garbled" /\ UNCHANGED <<frame, buf, plan, want, got>>
  /\ UNCHANGED <<fixed, writer>>

(* CompressedReader::read from its buffer; when the block is decoded the   *)
(* reader is dropped, with whatever it still holds.                        *)
ReadBuffered ==
  /\ Decompresses /\ ~frame.open /\ buf # <<>>
  /\ LET n == Min({Len(buf), want}) IN
     /\ got' = got \o SubSeq(buf, 1, n)
     /\ buf' = IF n = want THEN <<>> ELSE SubSeq(buf, n + 1, Len(buf))
     /\ IF n = want THEN EnterCode ELSE want' = want - n /\ UNCHANGED stage
  /\ UNCHANGED <<fixed, writer, wire, read_remaining, frame, plan>>

-----------------------------------------------------------------------------
Init ==
  /\ dir \in Dirs /\ framed \in Framings
  /\ job = <<>> /\ sent = 0 /\ flushed = 0 /\ packets = 0
  /\ write_buf = <<>> /\ corrupted = 0 /\ wire = <<>>
  /\ read_remaining = 0 /\ frame = NoFrame /\ buf = <<>>
  /\ stage = "code" /\ plan = NoBody /\ want = 0 /\ got = <<>>

Write == StartPacket \/ WritePlain \/ WriteRawBlock \/ WriteCompressedBlock
         \/ Flush \/ ServerFrame \/ ServerChunk \/ ServerFlush
Reads == ReadHeader \/ Read \/ ReadBuffered
Next  == Write \/ Reads

(* A started packet is finished and flushed: the calls of client.rs do not *)
(* return before, and so does the server.  The reader keeps reading.       *)
FinishWriting == WritePlain \/ WriteRawBlock \/ WriteCompressedBlock
                 \/ Flush \/ ServerFrame \/ ServerChunk \/ ServerFlush

Spec == Init /\ [][Next]_vars /\ WF_vars(FinishWriting) /\ WF_vars(Reads)

-----------------------------------------------------------------------------
(* Properties. *)

TypeOK ==
  /\ dir \in Dirs /\ framed \in Framings
  /\ sent \in Nat /\ flushed \in 0 .. sent /\ packets \in 0 .. MaxPackets
  /\ corrupted \in 0 .. MaxCorrupt /\ read_remaining \in 0 .. 2^SizeBits - 1
  /\ stage \in {"code", "plain", "block", "garbled", "corrupt"}
  /\ want \in Nat /\ buf \in Seq(Nat) /\ got \in Seq(Nat)
  /\ dir = "send" => Len(write_buf) <= MaxRequest
  /\ Len(job) <= 2 /\ plan \in Bodies \cup {NoBody}

(* ChunkedStream::read keeps its count in step with the stream: behind the *)
(* units it still counts to the chunk comes a header, and none among them,  *)
(* wherever the reads and the chunks ended.                                 *)
InStep ==
  framed => /\ Len(wire) >= read_remaining
            /\ \A i \in 1 .. Min({Len(wire), read_remaining + 1}) :
                 wire[i].tag = "chunk" <=> i > read_remaining

(* No reader meets another kind of unit than the one it decodes there: a    *)
(* frame header where a block is, a packet code where a packet starts.      *)
NeverGarbled == stage # "garbled"

(* A frame that does not have the checksum it came with stops the reader    *)
(* (decode_frame), and nothing but damage does.                             *)
StopsOnlyOnDamage ==
  [][stage' = "corrupt" /\ stage # "corrupt" => corrupted > 0 /\ got' = got]_vars

(* The values come out of CompressedReader and ChunkedStream::read once     *)
(* each and in the order they were written; Pipe has the promise.           *)
P == INSTANCE Pipe WITH received <- got

ImplementsPipe == P!Spec

(* Nothing that a call flushed stays behind, in write_buf, in a chunk or in *)
(* a CompressedReader that is dropped.                                      *)
FlushedArrives ==
  flushed > Len(got) ~> Len(got) >= flushed \/ corrupted > 0

(* Once a call has flushed what it wrote and the socket is drained, no value *)
(* is left in write_buf, behind a chunk's end or in a frame that waits for   *)
(* more: the consumer has all of them, or CompressedReader has, decoded.     *)
NothingStranded ==
  job = <<>> /\ flushed = sent /\ wire = <<>> /\ stage # "corrupt" =>
    got \o buf = [i \in 1 .. sent |-> i] /\ ~frame.open

(* What a reader of ProtoWrite's and ChunkedStream's contract takes for     *)
(* granted, whatever the socket accepts at a time.                          *)
ReadsWhatWasWritten == got = [i \in 1 .. Len(got) |-> i]
=============================================================================
