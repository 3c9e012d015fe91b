--------------------------- MODULE Transport_proof ---------------------------
(***************************************************************************)
(* Theorems of Transport on ChunkedStream: its count of what is left of a  *)
(* chunk stays in step with the stream, whatever the sizes of the buffers, *)
(* of the chunks the other side cuts and of what the socket gives a read.  *)
(*                                                                         *)
(* The invariant is of the whole wire and not of its beginning: every      *)
(* header on it is followed by as many units as it announces, and then by  *)
(* the next header or by nothing yet.                                      *)
(*                                                                         *)
(* From there on, that Transport implements Pipe: what is written into one *)
(* end of a connection comes out of the other, each value once and in      *)
(* order, whatever chunks, frames, buffers and reads are in between; no    *)
(* reader meets a unit that it does not expect, and only damage stops it.  *)
(* The invariant of that walks from the reader to the writer: there is a   *)
(* place for each gap between two units of wire and write_buf, each unit   *)
(* is one that may come at the place before it and leads to the place      *)
(* behind it, the first place is the reader's and the last the writer's.   *)
(***************************************************************************)
EXTENDS Transport, SequenceTheorems, WellFoundedInduction, TLAPS

(* What the size of a chunk is cast to can hold what is gathered between    *)
(* two flushes: nobody writes 4 GiB.                                        *)
Fits == 2^SizeBits \in Nat /\ MaxRequest < 2^SizeBits

Units ==
  [tag : {"value"}, v : Nat] \cup [tag : {"code"}, body : Bodies]
    \cup [tag : {"frame"}, size : Nat, checksum : Seq(Nat)]

Headers == [tag : {"chunk"}, size : 0 .. 2^SizeBits - 1]

AllUnits == Units \cup Headers

(* Every header is followed by its chunk. *)
Chunks(q) ==
  \A i \in 1 .. Len(q) : q[i].tag = "chunk" =>
    /\ i + q[i].size <= Len(q)
    /\ \A j \in i + 1 .. i + q[i].size : q[j].tag # "chunk"
    /\ i + q[i].size < Len(q) => q[i + q[i].size + 1].tag = "chunk"

(* The first r units are the rest of a chunk. *)
RestFirst(q, r) ==
  /\ r <= Len(q)
  /\ \A j \in 1 .. r : q[j].tag # "chunk"
  /\ r < Len(q) => q[r + 1].tag = "chunk"

Chunked(q, r) == Chunks(q) /\ RestFirst(q, r)

-----------------------------------------------------------------------------
(* Chunks on the wire. *)

LEMMA MinOfTwo ==
  ASSUME NEW a \in Int, NEW b \in Int
  PROVE  Min({a, b}) = IF a <= b THEN a ELSE b
BY DEF Min

LEMMA UnitTags ==
  /\ \A u \in Units : u.tag # "chunk"
  /\ \A u \in AllUnits : u.tag = "chunk" => u.size \in 0 .. 2^SizeBits - 1
BY DEF Units, Headers, AllUnits

LEMMA ChunkAppended ==
  ASSUME NEW q \in Seq(AllUnits), NEW r \in Nat, Chunked(q, r),
         NEW u \in Seq(Units), ChunkHeader(Len(u)) \in Headers
  PROVE  /\ q \o <<ChunkHeader(Len(u))>> \o u \in Seq(AllUnits)
         /\ Chunked(q \o <<ChunkHeader(Len(u))>> \o u, r)
<1> DEFINE h == ChunkHeader(Len(u))
           s == q \o <<h>>
           t == s \o u
<1>1. PICK n \in Nat, m \in Nat : n = Len(q) /\ m = Len(u)
  BY LenProperties
<1>2. h \in AllUnits /\ h.tag = "chunk" /\ h.size = m
  BY <1>1 DEF ChunkHeader, AllUnits
<1>3. /\ u \in Seq(AllUnits) /\ \A j \in 1 .. m : u[j].tag # "chunk"
  <2>1. \A j \in 1 .. m : u[j] \in Units
    BY <1>1, ElementOfSeq
  <2>2. u \in Seq(AllUnits)
    BY DEF AllUnits
  <2> QED BY <2>1, <2>2, UnitTags
<1> HIDE DEF h
<1>4. /\ s \in Seq(AllUnits) /\ Len(s) = n + 1 /\ s[n + 1] = h
      /\ \A i \in 1 .. n : s[i] = q[i]
  <2>1. s = Append(q, h)
    BY <1>2, AppendIsConcat
  <2> QED BY <1>1, <1>2, <2>1, AppendProperties
<1> HIDE DEF s
<1>5. /\ t \in Seq(AllUnits) /\ Len(t) = n + 1 + m
      /\ \A i \in 1 .. n + 1 : t[i] = s[i]
      /\ \A j \in 1 .. m : t[n + 1 + j] = u[j]
  <2>1. /\ t \in Seq(AllUnits) /\ Len(t) = Len(s) + Len(u)
        /\ \A i \in 1 .. Len(s) + Len(u) :
             t[i] = IF i <= Len(s) THEN s[i] ELSE u[i - Len(s)]
    BY <1>3, <1>4, ConcatProperties
  <2>2. \A j \in 1 .. m : /\ n + 1 + j \in 1 .. n + 1 + m
                          /\ ~(n + 1 + j <= n + 1) /\ n + 1 + j - (n + 1) = j
    OBVIOUS
  <2>3. Len(s) + Len(u) = n + 1 + m
    BY <1>1, <1>4
  <2> QED BY <1>1, <1>4, <2>1, <2>2, <2>3
<1> HIDE DEF t
<1>6. /\ \A i \in 1 .. n : t[i] = q[i]
      /\ t[n + 1] = h
      /\ \A j \in n + 2 .. n + 1 + m : t[j].tag # "chunk"
  <2>1. \A j \in n + 2 .. n + 1 + m :
          j - (n + 1) \in 1 .. m /\ n + 1 + (j - (n + 1)) = j
    OBVIOUS
  <2>2. \A j \in n + 2 .. n + 1 + m : t[j] = u[j - (n + 1)]
    BY <1>5, <2>1
  <2> QED BY <1>3, <1>4, <1>5, <2>1, <2>2
<1>7. Chunks(t)
  <2> SUFFICES ASSUME NEW i \in 1 .. n + 1 + m, t[i].tag = "chunk"
               PROVE  /\ i + t[i].size <= n + 1 + m
                      /\ \A j \in i + 1 .. i + t[i].size : t[j].tag # "chunk"
                      /\ i + t[i].size < n + 1 + m =>
                           t[i + t[i].size + 1].tag = "chunk"
    BY <1>5 DEF Chunks
  <2>1. CASE i <= n
    <3>1. /\ i \in 1 .. n /\ t[i] = q[i] /\ q[i].tag = "chunk"
      BY <1>6, <2>1
    <3>2. PICK k \in Nat : k = q[i].size
      BY <1>1, <3>1, ElementOfSeq, UnitTags
    <3>3. /\ i + k <= n
          /\ \A j \in i + 1 .. i + k : q[j].tag # "chunk"
          /\ i + k < n => q[i + k + 1].tag = "chunk"
      BY <1>1, <3>1, <3>2 DEF Chunked, Chunks
    <3>4. \A j \in i + 1 .. i + k : t[j] = q[j]
      <4>1. \A j \in i + 1 .. i + k : j \in 1 .. n
        BY <3>3
      <4> QED BY <1>6, <4>1
    <3>5. i + k < n => t[i + k + 1] = q[i + k + 1]
      BY <1>6, <3>3
    <3>6. i + k = n => t[i + k + 1] = h
      BY <1>6
    <3>7. /\ i + k <= n + 1 + m
          /\ \A j \in i + 1 .. i + k : t[j].tag # "chunk"
      BY <3>3, <3>4
    <3>8. t[i + k + 1].tag = "chunk"
      <4>1. i + k < n \/ i + k = n
        BY <3>3
      <4> QED BY <1>2, <3>3, <3>5, <3>6, <4>1
    <3>9. t[i].size = k
      BY <3>1, <3>2
    <3> QED BY <3>7, <3>8, <3>9
  <2>2. CASE i = n + 1
    BY <1>2, <1>6, <2>2
  <2>3. CASE i > n + 1
    BY <1>6, <2>3
  <2> QED BY <2>1, <2>2, <2>3
<1>8. RestFirst(t, r)
  <2>1. /\ r <= n /\ \A j \in 1 .. r : q[j].tag # "chunk"
        /\ r < n => q[r + 1].tag = "chunk"
    BY <1>1 DEF Chunked, RestFirst
  <2>2. r < n => t[r + 1] = q[r + 1]
    BY <1>6
  <2>3. r = n => t[r + 1] = h
    BY <1>6
  <2>4. t[r + 1].tag = "chunk"
    <3>1. r < n \/ r = n
      BY <2>1
    <3> QED BY <1>2, <2>1, <2>2, <2>3, <3>1
  <2>5. \A j \in 1 .. r : t[j].tag # "chunk"
    BY <1>6, <2>1
  <2>6. r <= Len(t)
    BY <1>5, <2>1
  <2> QED BY <2>4, <2>5, <2>6 DEF RestFirst
<1>9. t \in Seq(AllUnits) /\ Chunked(t, r)
  BY <1>5, <1>7, <1>8 DEF Chunked
<1> QED BY <1>9 DEF t, s, h

LEMMA PacketAppended ==
  ASSUME Fits, NEW q \in Seq(AllUnits), NEW r \in Nat, Chunked(q, r),
         NEW u \in Seq(Units), Len(u) <= MaxRequest
  PROVE  /\ q \o Packet(u) \in Seq(AllUnits)
         /\ Chunked(q \o Packet(u), r)
<1>1. Len(u) \in Nat /\ MaxRequest \in Nat /\ 2^SizeBits \in Nat
  BY LenProperties, TransportAssumption DEF Fits
<1>2. Len(u) \in 0 .. 2^SizeBits - 1 /\ 0 \in 0 .. 2^SizeBits - 1
  BY <1>1 DEF Fits
<1>3. Len(u) % 2^SizeBits = Len(u)
  BY <1>1, <1>2
<1> DEFINE h == <<ChunkHeader(Len(u))>>
           e == <<ChunkHeader(0)>>
<1>4. ChunkHeader(Len(u)) \in Headers /\ ChunkHeader(0) \in Headers
  BY <1>2 DEF ChunkHeader, Headers
<1>5. /\ h \in Seq(AllUnits) /\ e \in Seq(AllUnits) /\ u \in Seq(AllUnits)
      /\ h \o u \in Seq(AllUnits)
  BY <1>4, ConcatProperties DEF AllUnits
<1>6. q \o h \o u \in Seq(AllUnits) /\ Chunked(q \o h \o u, r)
  BY <1>4, ChunkAppended
<1>7. /\ (q \o h \o u) \o e \in Seq(AllUnits)
      /\ Chunked((q \o h \o u) \o e, r)
  <2>1. <<>> \in Seq(Units) /\ Len(<<>>) = 0
    OBVIOUS
  <2>2. /\ (q \o h \o u) \o <<ChunkHeader(Len(<<>>))>> \o <<>> \in Seq(AllUnits)
        /\ Chunked((q \o h \o u) \o <<ChunkHeader(Len(<<>>))>> \o <<>>, r)
    BY <1>4, <1>6, <2>1, ChunkAppended
  <2>3. (q \o h \o u) \o e \in Seq(AllUnits)
    BY <1>5, <1>6, ConcatProperties
  <2>4. ((q \o h \o u) \o e) \o <<>> = (q \o h \o u) \o e
    BY <2>3, ConcatEmptySeq
  <2> QED BY <2>1, <2>2, <2>3, <2>4
<1>8. (q \o h \o u) \o e = q \o (h \o u \o e)
  <2>1. q \o h \o u = q \o (h \o u)
    BY <1>5, ConcatAssociative
  <2>2. (q \o (h \o u)) \o e = q \o ((h \o u) \o e)
    BY <1>5, ConcatAssociative
  <2> QED BY <2>1, <2>2
<1>9. Packet(u) = h \o u \o e
  BY <1>3 DEF Packet
<1> QED BY <1>7, <1>8, <1>9

(* A suffix of the wire, k units shorter. *)
LEMMA ChunksOfSuffix ==
  ASSUME NEW q \in Seq(AllUnits), NEW t \in Seq(AllUnits), Chunks(q),
         NEW k \in Nat, Len(q) = Len(t) + k,
         \A i \in 1 .. Len(t) : t[i] = q[i + k]
  PROVE  Chunks(t)
<1>1. PICK n \in Nat : n = Len(t)
  BY LenProperties
<1> SUFFICES ASSUME NEW i \in 1 .. n, t[i].tag = "chunk"
             PROVE  /\ i + t[i].size <= n
                    /\ \A j \in i + 1 .. i + t[i].size : t[j].tag # "chunk"
                    /\ i + t[i].size < n => t[i + t[i].size + 1].tag = "chunk"
  BY <1>1 DEF Chunks
<1>2. i + k \in 1 .. n + k /\ t[i] = q[i + k]
  BY <1>1
<1>3. PICK c \in Nat : c = t[i].size
  BY <1>1, ElementOfSeq, UnitTags
<1>4. /\ i + k + c <= n + k
      /\ \A j \in i + k + 1 .. i + k + c : q[j].tag # "chunk"
      /\ i + k + c < n + k => q[i + k + c + 1].tag = "chunk"
  BY <1>1, <1>2, <1>3 DEF Chunks
<1>5. i + c <= n
  BY <1>4
<1>6. ASSUME NEW j \in i + 1 .. i + c PROVE t[j].tag # "chunk"
  <2>1. j \in 1 .. n /\ j + k \in i + k + 1 .. i + k + c
    BY <1>5
  <2> QED BY <1>1, <1>4, <2>1
<1>7. ASSUME i + c < n PROVE t[i + c + 1].tag = "chunk"
  <2>1. i + c + 1 \in 1 .. n /\ i + c + 1 + k = i + k + c + 1
    BY <1>7
  <2>2. t[i + c + 1] = q[i + k + c + 1]
    BY <1>1, <2>1
  <2> QED BY <1>4, <1>7, <2>2
<1> QED BY <1>3, <1>5, <1>6, <1>7

(* ChunkedStream::read takes a header, ... *)
LEMMA HeaderRead ==
  ASSUME NEW q \in Seq(AllUnits), q # <<>>, Chunked(q, 0)
  PROVE  /\ Head(q) \in Headers /\ Head(q).tag = "chunk"
         /\ Tail(q) \in Seq(AllUnits) /\ Chunked(Tail(q), Head(q).size)
<1>1. PICK n \in Nat : Len(q) = n + 1
  <2>1. Len(q) - 1 \in Nat /\ Len(q) = Len(q) - 1 + 1
    BY EmptySeq, LenProperties
  <2> QED BY <2>1
<1>2. /\ Tail(q) \in Seq(AllUnits) /\ Len(Tail(q)) = n /\ Head(q) = q[1]
      /\ \A i \in 1 .. n : Tail(q)[i] = q[i + 1]
  BY <1>1, HeadTailProperties
<1>3. q[1].tag = "chunk"
  BY <1>1 DEF Chunked, RestFirst
<1>4. q[1] \in Headers
  <2>1. q[1] \in AllUnits
    BY <1>1, ElementOfSeq
  <2> QED BY <1>3, <2>1, UnitTags DEF AllUnits
<1>5. Chunks(Tail(q))
  BY <1>1, <1>2, ChunksOfSuffix DEF Chunked
<1>6. PICK c \in Nat : c = q[1].size
  BY <1>4 DEF Headers
<1>7. /\ 1 + c <= n + 1
      /\ \A j \in 1 + 1 .. 1 + c : q[j].tag # "chunk"
      /\ 1 + c < n + 1 => q[1 + c + 1].tag = "chunk"
  BY <1>1, <1>3, <1>6 DEF Chunked, Chunks
<1>8. RestFirst(Tail(q), c)
  <2>1. \A j \in 1 .. c : j \in 1 .. n /\ j + 1 \in 1 + 1 .. 1 + c
    BY <1>7
  <2>2. c < n => c + 1 \in 1 .. n /\ c + 1 + 1 = 1 + c + 1
    OBVIOUS
  <2>3. c < n => Tail(q)[c + 1].tag = "chunk"
    BY <1>2, <1>7, <2>2
  <2>4. \A j \in 1 .. c : Tail(q)[j].tag # "chunk"
    BY <1>2, <1>7, <2>1
  <2>5. c <= Len(Tail(q))
    BY <1>2, <1>7
  <2> QED BY <1>2, <2>3, <2>4, <2>5 DEF RestFirst
<1> QED BY <1>2, <1>3, <1>4, <1>5, <1>6, <1>8 DEF Chunked

(* ... or some of the units behind it. *)
LEMMA UnitsRead ==
  ASSUME NEW q \in Seq(AllUnits), NEW r \in Nat, Chunked(q, r), NEW k \in 1 .. r
  PROVE  /\ SubSeq(q, 1, k) \in Seq(Units) /\ Len(SubSeq(q, 1, k)) = k
         /\ SubSeq(q, k + 1, Len(q)) \in Seq(AllUnits)
         /\ Chunked(SubSeq(q, k + 1, Len(q)), r - k)
<1>1. PICK n \in Nat : n = Len(q)
  BY LenProperties
<1>2. /\ r <= n /\ \A j \in 1 .. r : q[j].tag # "chunk"
      /\ r < n => q[r + 1].tag = "chunk"
  BY <1>1 DEF Chunked, RestFirst
<1> DEFINE u == SubSeq(q, 1, k)
           t == SubSeq(q, k + 1, Len(q))
<1>3. /\ Len(u) = k /\ \A i \in 1 .. k : u[i] = q[i]
      /\ u = [i \in 1 .. k |-> q[i]]
  BY <1>1, <1>2, SubSeqProperties
<1>4. u \in Seq(Units)
  <2>1. \A i \in 1 .. k : q[i] \in Units
    <3>1. \A i \in 1 .. k : q[i] \in AllUnits /\ q[i].tag # "chunk"
      BY <1>1, <1>2, ElementOfSeq
    <3>2. \A x \in AllUnits : x.tag # "chunk" => x \in Units
      BY DEF AllUnits, Headers
    <3> QED BY <3>1, <3>2
  <2> QED BY <1>3, <2>1
<1>5. /\ t \in Seq(AllUnits) /\ Len(t) = n - k
      /\ \A i \in 1 .. n - k : t[i] = q[i + k]
  <2>1. k + 1 \in 1 .. n + 1 /\ n <= Len(q)
    BY <1>1, <1>2
  <2>2. /\ t \in Seq(AllUnits)
        /\ Len(t) = IF k + 1 <= n THEN n - (k + 1) + 1 ELSE 0
        /\ \A i \in 1 .. n - (k + 1) + 1 : t[i] = q[k + 1 + i - 1]
    BY <1>1, <2>1, SubSeqProperties
  <2>3. \A i \in 1 .. n - k : k + 1 + i - 1 = i + k /\ i \in 1 .. n - (k + 1) + 1
    OBVIOUS
  <2>4. Len(t) = n - k
    BY <1>2, <2>2
  <2> QED BY <2>2, <2>3, <2>4
<1> HIDE DEF u, t
<1>6. Chunks(t)
  <2>1. Len(q) = Len(t) + k
    BY <1>1, <1>5
  <2> QED BY <1>5, <2>1, ChunksOfSuffix DEF Chunked
<1>7. RestFirst(t, r - k)
  <2>1. \A j \in 1 .. r - k : j \in 1 .. n - k /\ j + k \in 1 .. r
    BY <1>2
  <2>2. \A j \in 1 .. r - k : t[j].tag # "chunk"
    BY <1>2, <1>5, <2>1
  <2>3. ASSUME r - k < n - k PROVE t[r - k + 1].tag = "chunk"
    <3>1. r - k + 1 \in 1 .. n - k /\ r - k + 1 + k = r + 1 /\ r < n
      BY <2>3
    <3> QED BY <1>2, <1>5, <3>1
  <2>4. r - k <= Len(t)
    BY <1>2, <1>5
  <2> QED BY <1>5, <2>2, <2>3, <2>4 DEF RestFirst
<1> QED BY <1>3, <1>4, <1>5, <1>6, <1>7 DEF Chunked, u, t

-----------------------------------------------------------------------------
(* What is written. *)

SomeBody == [plain : Nat, block : Nat \ {0}, compressed : BOOLEAN]

(* What is left of the packet that is being written. *)
JobShape(j) ==
  \/ j = <<>>
  \/ \E b \in SomeBody : j = <<[what |-> "block", body |-> b]>>
  \/ \E b \in SomeBody :
       j = <<[what |-> "plain", body |-> b], [what |-> "block", body |-> b]>>

BlockSize(b) == b.block + (IF b.compressed THEN 1 ELSE 0)

(* The units that it will still put in write_buf. *)
OwedBy(j) ==
  IF j = <<>> THEN 0
  ELSE BlockSize(Head(j).body)
         + (IF Head(j).what = "plain" THEN Head(j).body.plain ELSE 0)

Frames == [size : Nat, checksum : Seq(Nat), body : Seq(Nat), open : BOOLEAN]

FixedInv == dir \in Dirs /\ framed \in Framings

WriterInv ==
  /\ sent \in Nat /\ flushed \in 0 .. sent /\ packets \in 0 .. MaxPackets
  /\ corrupted \in 0 .. MaxCorrupt
  /\ JobShape(job) /\ write_buf \in Seq(Units)
  /\ dir = "send" => Len(write_buf) + OwedBy(job) <= MaxRequest

WireInv ==
  wire \in Seq(AllUnits) /\ (framed => Chunked(wire, read_remaining))

ReaderInv ==
  /\ read_remaining \in 0 .. 2^SizeBits - 1
  /\ stage \in {"code", "plain", "block", "garbled", "corrupt"}
  /\ want \in Nat /\ buf \in Seq(Nat) /\ got \in Seq(Nat)
  /\ plan \in Bodies \cup {NoBody} /\ frame \in Frames

SInv == FixedInv /\ WriterInv /\ WireInv /\ ReaderInv

LEMMA SequencesFit ==
  ASSUME TransportAssumption
  PROVE  /\ Bodies \subseteq SomeBody
         /\ Seq(Units) \subseteq Seq(AllUnits)
         /\ \A b \in SomeBody : BlockSize(b) \in Nat
         /\ \A b \in SomeBody : Size(b) = 1 + b.plain + BlockSize(b)
         /\ NoBody.block \in Nat
BY DEF TransportAssumption, SomeBody, AllUnits, BlockSize, Size, NoBody

LEMMA ValuesType ==
  ASSUME sent \in Nat, NEW n \in Nat
  PROVE  /\ Values(n) \in Seq(Units) /\ Len(Values(n)) = n
         /\ DOMAIN Values(n) = 1 .. n
         /\ \A i \in 1 .. n : Values(n)[i].v \in Nat
<1>1. \A i \in 1 .. n : Value(sent + i) \in Units /\ Value(sent + i).v \in Nat
  BY DEF Value, Units
<1> QED BY <1>1 DEF Values

LEMMA FrameType ==
  ASSUME sent \in Nat, NEW n \in Nat \ {0}
  PROVE  /\ Frame(Values(n)) \in Seq(Units) /\ Len(Frame(Values(n))) = n + 1
         /\ DamagedFrame(Values(n)) \in Seq(Units)
         /\ Len(DamagedFrame(Values(n))) = n + 1
<1> DEFINE x == Values(n)
           h == FrameHeader([i \in DOMAIN x |-> x[i].v])
<1>1. /\ x \in Seq(Units) /\ Len(x) = n /\ DOMAIN x = 1 .. n
      /\ \A i \in 1 .. n : x[i].v \in Nat
  BY ValuesType
<1>2. x # <<>>
  BY <1>1, EmptySeq
<1> HIDE DEF x
<1>3. h \in Units
  <2> DEFINE c == [i \in DOMAIN x |-> x[i].v]
  <2>1. c \in Seq(Nat)
    BY <1>1
  <2>2. Len(c) \in Nat
    BY <2>1, LenProperties
  <2> HIDE DEF c
  <2>3. FrameHeader(c) \in Units
    BY <2>1, <2>2 DEF FrameHeader, Units
  <2> QED BY <2>3 DEF c
<1> HIDE DEF h
<1>4. Frame(x) = <<h>> \o x
  BY DEF Frame, h
<1>5. <<h>> \in Seq(Units) /\ Len(<<h>>) = 1 /\ <<h>>[1] = h
  BY <1>3
<1>6. /\ <<h>> \o x \in Seq(Units) /\ Len(<<h>> \o x) = 1 + Len(x)
      /\ \A i \in 1 .. 1 + Len(x) :
           (<<h>> \o x)[i] = IF i <= 1 THEN <<h>>[i] ELSE x[i - 1]
  BY <1>1, <1>5, ConcatProperties
<1>7. Frame(x)[1] = h
  BY <1>1, <1>4, <1>5, <1>6
<1>8. DamagedFrame(x) = <<h, Value(Damaged)>> \o Tail(x)
  BY <1>7 DEF DamagedFrame
<1>9. Value(Damaged) \in Units
  BY DEF Value, Damaged, Units
<1>10. <<h, Value(Damaged)>> \in Seq(Units) /\ Len(<<h, Value(Damaged)>>) = 2
  BY <1>3, <1>9
<1>11. Tail(x) \in Seq(Units) /\ Len(Tail(x)) = n - 1
  BY <1>1, <1>2, HeadTailProperties
<1>12. /\ <<h, Value(Damaged)>> \o Tail(x) \in Seq(Units)
       /\ Len(<<h, Value(Damaged)>> \o Tail(x)) = 2 + (n - 1)
  BY <1>10, <1>11, ConcatProperties
<1>13. Frame(x) \in Seq(Units) /\ Len(Frame(x)) = n + 1
  BY <1>1, <1>4, <1>6
<1>14. DamagedFrame(x) \in Seq(Units) /\ Len(DamagedFrame(x)) = n + 1
  BY <1>8, <1>12
<1> QED BY <1>13, <1>14 DEF x

LEMMA PutType ==
  ASSUME SInv, NEW units \in Seq(Units), NEW all, Put(units, all)
  PROVE  /\ write_buf' \in Seq(Units) /\ wire' \in Seq(AllUnits)
         /\ Len(write_buf') <= Len(write_buf) + Len(units)
         /\ Len(write_buf) \in Nat /\ Len(write_buf') \in Nat
         /\ framed => wire' = wire
<1>1. /\ write_buf \in Seq(Units) /\ wire \in Seq(AllUnits)
      /\ Len(write_buf) \in Nat /\ Len(units) \in Nat
  BY LenProperties DEF SInv, WriterInv, WireInv
<1>2. CASE framed
  <2>1. write_buf' = write_buf \o units /\ wire' = wire
    BY <1>2 DEF Put
  <2>2. /\ write_buf \o units \in Seq(Units)
        /\ Len(write_buf \o units) = Len(write_buf) + Len(units)
    BY <1>1, ConcatProperties
  <2> QED BY <1>1, <2>1, <2>2
<1>3. CASE ~framed
  <2>0. \E k \in IF all \/ ~ShortWrites \/ dir = "receive"
                 THEN {Len(units)} ELSE 1 .. Len(units) :
          write_buf' = write_buf /\ wire' = wire \o SubSeq(units, 1, k)
    BY <1>3, Zenon DEF Put
  <2> DEFINE Whole == all \/ ~ShortWrites \/ dir = "receive"
             S == IF Whole THEN {Len(units)} ELSE 1 .. Len(units)
  <2>a. PICK k \in S : write_buf' = write_buf /\ wire' = wire \o SubSeq(units, 1, k)
    BY <2>0, Zenon
  <2>b. S \subseteq 0 .. Len(units)
    <3> HIDE DEF Whole
    <3>1. CASE Whole
      <4>1. S = {Len(units)}
        BY <3>1, Zenon
      <4> QED BY <1>1, <4>1
    <3>2. CASE ~Whole
      <4>1. S = 1 .. Len(units)
        BY <3>2, Zenon
      <4> QED BY <1>1, <4>1
    <3> QED BY <3>1, <3>2
  <2> HIDE DEF S
  <2>1. /\ k \in 0 .. Len(units)
        /\ write_buf' = write_buf /\ wire' = wire \o SubSeq(units, 1, k)
    BY <2>a, <2>b
  <2>2. SubSeq(units, 1, k) \in Seq(Units)
    <3>1. \A i \in 1 .. k : units[i] \in Units
      BY <1>1, <2>1, ElementOfSeq
    <3> QED BY <1>1, <2>1, <3>1, SubSeqProperties
  <2>3. SubSeq(units, 1, k) \in Seq(AllUnits)
    BY <2>2, TransportAssumption, SequencesFit
  <2>4. wire \o SubSeq(units, 1, k) \in Seq(AllUnits)
    BY <1>1, <2>3, ConcatProperties
  <2> QED BY <1>1, <1>3, <2>1, <2>4
<1> QED BY <1>2, <1>3

LEMMA JobOwed ==
  /\ \A j : JobShape(j) => OwedBy(j) \in Nat /\ Len(j) <= 2
  /\ JobShape(<<>>) /\ OwedBy(<<>>) = 0
  /\ \A b \in SomeBody :
       LET block == <<[what |-> "block", body |-> b]>>
           both == <<[what |-> "plain", body |-> b], [what |-> "block", body |-> b]>>
       IN /\ JobShape(block) /\ OwedBy(block) = BlockSize(b)
          /\ JobShape(both) /\ OwedBy(both) = BlockSize(b) + b.plain
<1> DEFINE block(b) == <<[what |-> "block", body |-> b]>>
           both(b) == <<[what |-> "plain", body |-> b], [what |-> "block", body |-> b]>>
<1>1. JobShape(<<>>) /\ OwedBy(<<>>) = 0 /\ Len(<<>>) = 0
  BY DEF JobShape, OwedBy
<1>2. ASSUME NEW b \in SomeBody
      PROVE  /\ JobShape(block(b)) /\ OwedBy(block(b)) = BlockSize(b)
             /\ JobShape(both(b)) /\ OwedBy(both(b)) = BlockSize(b) + b.plain
             /\ OwedBy(block(b)) \in Nat /\ OwedBy(both(b)) \in Nat
             /\ Len(block(b)) = 1 /\ Len(both(b)) = 2
  <2>1. BlockSize(b) \in Nat /\ b.plain \in Nat
    BY DEF BlockSize, SomeBody
  <2>2. /\ block(b) # <<>> /\ Head(block(b)) = [what |-> "block", body |-> b]
        /\ Len(block(b)) = 1
    OBVIOUS
  <2>3. /\ both(b) # <<>> /\ Head(both(b)) = [what |-> "plain", body |-> b]
        /\ Len(both(b)) = 2
    OBVIOUS
  <2>4. JobShape(block(b)) /\ JobShape(both(b))
    BY DEF JobShape
  <2> HIDE DEF block, both
  <2>5. OwedBy(block(b)) = BlockSize(b) + 0
    BY <2>2 DEF OwedBy
  <2>6. OwedBy(both(b)) = BlockSize(b) + b.plain
    BY <2>3 DEF OwedBy
  <2> QED BY <2>1, <2>2, <2>3, <2>4, <2>5, <2>6
<1>3. ASSUME NEW j, JobShape(j) PROVE OwedBy(j) \in Nat /\ Len(j) <= 2
  <2>1. j = <<>> \/ (\E b \in SomeBody : j = block(b)) \/ (\E b \in SomeBody : j = both(b))
    BY <1>3 DEF JobShape
  <2> HIDE DEF block, both
  <2>2. CASE j = <<>>
    BY <1>1, <2>2
  <2>3. CASE \E b \in SomeBody : j = block(b)
    <3>1. PICK b \in SomeBody : j = block(b)
      BY <2>3
    <3>2. OwedBy(block(b)) \in Nat /\ Len(block(b)) = 1
      BY <1>2
    <3> QED BY <3>1, <3>2
  <2>4. CASE \E b \in SomeBody : j = both(b)
    <3>1. PICK b \in SomeBody : j = both(b)
      BY <2>4
    <3>2. OwedBy(both(b)) \in Nat /\ Len(both(b)) = 2
      BY <1>2
    <3> QED BY <3>1, <3>2
  <2> QED BY <2>1, <2>2, <2>3, <2>4
<1> QED BY <1>1, <1>2, <1>3

LEMMA JobHead ==
  ASSUME NEW j, JobShape(j), j # <<>>
  PROVE  \E b \in SomeBody :
           /\ Head(j).body = b
           /\ Head(j).what = "block" => j = <<[what |-> "block", body |-> b]>>
           /\ Head(j).what = "plain" =>
                /\ Tail(j) = <<[what |-> "block", body |-> b]>>
                /\ j = <<[what |-> "plain", body |-> b], [what |-> "block", body |-> b]>>
<1>1. CASE \E b \in SomeBody : j = <<[what |-> "block", body |-> b]>>
  <2>1. PICK b \in SomeBody : j = <<[what |-> "block", body |-> b]>>
    BY <1>1
  <2>2. Head(j) = [what |-> "block", body |-> b]
    BY <2>1
  <2>3. Head(j).what = "block" /\ Head(j).body = b
    BY <2>2
  <2> QED BY <2>1, <2>3
<1>2. CASE \E b \in SomeBody :
             j = <<[what |-> "plain", body |-> b], [what |-> "block", body |-> b]>>
  <2>1. PICK b \in SomeBody :
          j = <<[what |-> "plain", body |-> b], [what |-> "block", body |-> b]>>
    BY <1>2
  <2>2. /\ Head(j) = [what |-> "plain", body |-> b]
        /\ Tail(j) = <<[what |-> "block", body |-> b]>>
    BY <2>1
  <2>3. Head(j).what = "plain" /\ Head(j).body = b
    BY <2>2
  <2> QED BY <2>1, <2>2, <2>3
<1> QED BY <1>1, <1>2 DEF JobShape

(* What TypeOK and InStep say follows from the invariant. *)
LEMMA SInvTypes ==
  ASSUME SInv
  PROVE  TypeOK
<1>1. OwedBy(job) \in Nat /\ Len(job) <= 2
  BY JobOwed DEF SInv, WriterInv
<1>2. Len(write_buf) \in Nat /\ MaxRequest \in Nat
  BY LenProperties, TransportAssumption DEF SInv, WriterInv, TransportAssumption
<1>3. dir = "send" => Len(write_buf) <= MaxRequest
  BY <1>1, <1>2 DEF SInv, WriterInv
<1> QED BY <1>1, <1>3 DEF SInv, FixedInv, WriterInv, ReaderInv, TypeOK

LEMMA SInvInStep ==
  ASSUME SInv
  PROVE  InStep
<1> SUFFICES ASSUME framed PROVE InStep
  BY DEF InStep
<1>1. PICK n \in Nat, r \in Nat : n = Len(wire) /\ r = read_remaining
  BY LenProperties DEF SInv, WireInv, ReaderInv
<1>2. /\ r <= n /\ \A j \in 1 .. r : wire[j].tag # "chunk"
      /\ r < n => wire[r + 1].tag = "chunk"
  BY <1>1 DEF SInv, WireInv, Chunked, RestFirst
<1>3. Min({n, r + 1}) = IF n <= r + 1 THEN n ELSE r + 1
  BY MinOfTwo
<1>4. ASSUME NEW i \in 1 .. Min({n, r + 1}) PROVE wire[i].tag = "chunk" <=> i > r
  <2>1. CASE i <= r
    <3>1. i \in 1 .. r
      BY <1>3, <2>1
    <3> QED BY <1>2, <2>1, <3>1
  <2>2. CASE i > r
    <3>1. i = r + 1 /\ r < n
      BY <1>3, <2>2
    <3> QED BY <1>2, <2>2, <3>1
  <2> QED BY <1>3, <2>1, <2>2
<1> QED BY <1>1, <1>2, <1>4 DEF InStep

-----------------------------------------------------------------------------
(* The writer's steps. *)

(* A step of the writer that hands over its units with Put. *)
LEMMA PutInv ==
  ASSUME SInv, NEW units \in Seq(Units), NEW all, Put(units, all),
         UNCHANGED <<fixed, flushed, reader>>,
         sent' \in Nat, sent' >= sent, packets' \in 0 .. MaxPackets,
         corrupted' \in 0 .. MaxCorrupt, JobShape(job'),
         dir = "send" => Len(write_buf) + Len(units) + OwedBy(job') <= MaxRequest
  PROVE  SInv'
<1>1. /\ write_buf' \in Seq(Units) /\ wire' \in Seq(AllUnits)
      /\ Len(write_buf') <= Len(write_buf) + Len(units)
      /\ Len(write_buf) \in Nat /\ Len(write_buf') \in Nat
      /\ framed => wire' = wire
  BY PutType
<1>2. /\ OwedBy(job') \in Nat /\ Len(units) \in Nat /\ MaxRequest \in Nat
  BY JobOwed, LenProperties, TransportAssumption DEF TransportAssumption
<1>3. dir = "send" => Len(write_buf') + OwedBy(job') <= MaxRequest
  BY <1>1, <1>2
<1>4. FixedInv'
  BY DEF SInv, FixedInv, fixed
<1>5. WriterInv'
  BY <1>1, <1>3 DEF SInv, WriterInv, fixed
<1>6. WireInv'
  <2>1. read_remaining' = read_remaining /\ framed' = framed
    BY DEF fixed, reader
  <2>2. framed => Chunked(wire, read_remaining)
    BY DEF SInv, WireInv
  <2>3. framed => Chunked(wire', read_remaining')
    BY <1>1, <2>1, <2>2
  <2> QED BY <1>1, <2>1, <2>3 DEF WireInv
<1>7. ReaderInv'
  BY DEF SInv, ReaderInv, reader
<1> QED BY <1>4, <1>5, <1>6, <1>7 DEF SInv

LEMMA StartPacketInv == ASSUME SInv, StartPacket PROVE SInv'
<1>1. PICK b \in Bodies :
        /\ Len(write_buf) + Size(b) <= MaxRequest
        /\ job' = IF b.plain = 0 THEN <<[what |-> "block", body |-> b]>>
                  ELSE <<[what |-> "plain", body |-> b], [what |-> "block", body |-> b]>>
        /\ Put(<<Code(b)>>, FALSE)
  BY DEF StartPacket
<1>2. b \in SomeBody /\ b.plain \in Nat /\ BlockSize(b) \in Nat
      /\ Size(b) = 1 + b.plain + BlockSize(b)
  BY TransportAssumption, SequencesFit DEF SomeBody
<1>3. /\ JobShape(job') /\ OwedBy(job') \in Nat
      /\ OwedBy(job') <= BlockSize(b) + b.plain
  <2> DEFINE block == <<[what |-> "block", body |-> b]>>
             both == <<[what |-> "plain", body |-> b], [what |-> "block", body |-> b]>>
  <2>0. /\ JobShape(block) /\ OwedBy(block) = BlockSize(b)
        /\ JobShape(both) /\ OwedBy(both) = BlockSize(b) + b.plain
    BY <1>2, JobOwed
  <2>a. job' = block \/ job' = both
    BY <1>1
  <2> HIDE DEF block, both
  <2>1. CASE job' = block
    BY <1>2, <2>0, <2>1
  <2>2. CASE job' = both
    BY <1>2, <2>0, <2>2
  <2> QED BY <2>a, <2>1, <2>2
<1>4. <<Code(b)>> \in Seq(Units) /\ Len(<<Code(b)>>) = 1
  BY DEF Code, Units
<1>5. Len(write_buf) \in Nat /\ MaxRequest \in Nat
  BY LenProperties, TransportAssumption DEF SInv, WriterInv, TransportAssumption
<1>6. Len(write_buf) + Len(<<Code(b)>>) + OwedBy(job') <= MaxRequest
  BY <1>1, <1>2, <1>3, <1>4, <1>5
<1>7. packets' \in 0 .. MaxPackets
  BY TransportAssumption DEF StartPacket, SInv, WriterInv, TransportAssumption
<1>8. /\ UNCHANGED <<fixed, flushed, reader>> /\ sent' = sent
      /\ corrupted' = corrupted
  BY DEF StartPacket
<1>9. sent' \in Nat /\ sent' >= sent /\ corrupted' \in 0 .. MaxCorrupt
  BY <1>8 DEF SInv, WriterInv
<1> QED BY <1>1, <1>3, <1>4, <1>6, <1>7, <1>8, <1>9, PutInv

LEMMA WritePlainInv == ASSUME SInv, WritePlain PROVE SInv'
<1>1. PICK b \in SomeBody :
        /\ Head(job).body = b
        /\ Tail(job) = <<[what |-> "block", body |-> b]>>
        /\ job = <<[what |-> "plain", body |-> b], [what |-> "block", body |-> b]>>
  BY JobHead DEF SInv, WriterInv, WritePlain
<1>2. /\ JobShape(Tail(job)) /\ OwedBy(Tail(job)) = BlockSize(b)
      /\ OwedBy(job) = BlockSize(b) + b.plain /\ BlockSize(b) \in Nat
  BY <1>1, JobOwed, TransportAssumption, SequencesFit
<1>3. b.plain \in Nat /\ sent \in Nat /\ Len(write_buf) \in Nat
      /\ MaxRequest \in Nat
  BY LenProperties, TransportAssumption
     DEF SInv, WriterInv, SomeBody, TransportAssumption
<1>4. Values(b.plain) \in Seq(Units) /\ Len(Values(b.plain)) = b.plain
  BY <1>3, ValuesType
<1>5. dir = "send" =>
        Len(write_buf) + Len(Values(b.plain)) + OwedBy(Tail(job)) <= MaxRequest
  BY <1>2, <1>3, <1>4 DEF SInv, WriterInv
<1>6. /\ UNCHANGED <<fixed, flushed, reader>> /\ sent' = sent + b.plain
      /\ corrupted' = corrupted /\ packets' = packets
      /\ job' = Tail(job) /\ Put(Values(b.plain), FALSE)
  BY <1>1 DEF WritePlain
<1>7. /\ sent' \in Nat /\ sent' >= sent /\ corrupted' \in 0 .. MaxCorrupt
      /\ packets' \in 0 .. MaxPackets
  BY <1>3, <1>6 DEF SInv, WriterInv
<1>8. JobShape(job') /\ (dir = "send" =>
        Len(write_buf) + Len(Values(b.plain)) + OwedBy(job') <= MaxRequest)
  BY <1>2, <1>5, <1>6
<1> QED BY <1>4, <1>6, <1>7, <1>8, PutInv

LEMMA WriteRawBlockInv == ASSUME SInv, WriteRawBlock PROVE SInv'
<1>1. PICK b \in SomeBody :
        /\ Head(job).body = b /\ job = <<[what |-> "block", body |-> b]>>
  BY JobHead DEF SInv, WriterInv, WriteRawBlock
<1>2. /\ JobShape(<<>>) /\ OwedBy(<<>>) = 0
      /\ OwedBy(job) = BlockSize(b) /\ BlockSize(b) \in Nat
  BY <1>1, JobOwed, TransportAssumption, SequencesFit
<1>3. /\ b.block \in Nat /\ sent \in Nat /\ Len(write_buf) \in Nat
      /\ MaxRequest \in Nat /\ b.block <= BlockSize(b)
  BY LenProperties, TransportAssumption
     DEF SInv, WriterInv, SomeBody, TransportAssumption, BlockSize
<1>4. Values(b.block) \in Seq(Units) /\ Len(Values(b.block)) = b.block
  BY <1>3, ValuesType
<1>5. dir = "send" =>
        Len(write_buf) + Len(Values(b.block)) + OwedBy(<<>>) <= MaxRequest
  BY <1>2, <1>3, <1>4 DEF SInv, WriterInv
<1>6. /\ UNCHANGED <<fixed, flushed, reader>> /\ sent' = sent + b.block
      /\ corrupted' = corrupted /\ packets' = packets
      /\ job' = <<>> /\ Put(Values(b.block), FALSE)
  BY <1>1 DEF WriteRawBlock
<1>7. /\ sent' \in Nat /\ sent' >= sent /\ corrupted' \in 0 .. MaxCorrupt
      /\ packets' \in 0 .. MaxPackets
  BY <1>3, <1>6 DEF SInv, WriterInv
<1>8. JobShape(job') /\ (dir = "send" =>
        Len(write_buf) + Len(Values(b.block)) + OwedBy(job') <= MaxRequest)
  BY <1>2, <1>5, <1>6
<1> QED BY <1>4, <1>6, <1>7, <1>8, PutInv

LEMMA Constants ==
  ASSUME SInv
  PROVE  /\ MaxRequest \in Nat /\ MaxCorrupt \in Nat /\ sent \in Nat
         /\ Len(write_buf) \in Nat /\ OwedBy(job) \in Nat
         /\ read_remaining \in Nat
BY TransportAssumption, JobOwed, LenProperties
   DEF TransportAssumption, SInv, WriterInv, ReaderInv

(* A step of the writer that fills the wire itself. *)
LEMMA WireFilled ==
  ASSUME SInv, UNCHANGED <<fixed, packets, reader>>,
         JobShape(job'), sent' \in Nat, flushed' \in 0 .. sent',
         corrupted' \in 0 .. MaxCorrupt, write_buf' \in Seq(Units),
         dir = "send" => Len(write_buf') + OwedBy(job') <= MaxRequest,
         wire' \in Seq(AllUnits), framed => Chunked(wire', read_remaining)
  PROVE  SInv'
<1>1. FixedInv'
  BY DEF SInv, FixedInv, fixed
<1>2. WriterInv'
  BY DEF SInv, WriterInv, fixed
<1>3. WireInv'
  <2>1. read_remaining' = read_remaining /\ framed' = framed
    BY DEF fixed, reader
  <2> QED BY <2>1 DEF WireInv
<1>4. ReaderInv'
  BY DEF SInv, ReaderInv, reader
<1> QED BY <1>1, <1>2, <1>3, <1>4 DEF SInv

LEMMA WriteCompressedBlockInv ==
  ASSUME Fits, SInv, WriteCompressedBlock
  PROVE  SInv'
<1>1. PICK b \in SomeBody :
        /\ Head(job).body = b /\ job = <<[what |-> "block", body |-> b]>>
  BY JobHead DEF SInv, WriterInv, WriteCompressedBlock
<1>2. /\ dir = "send" /\ b.compressed = TRUE
      /\ UNCHANGED <<fixed, packets, reader>>
      /\ write_buf' = <<>> /\ sent' = sent + b.block /\ flushed' = sent'
      /\ job' = <<>>
  BY <1>1 DEF WriteCompressedBlock
<1>3. PICK units \in {Frame(Values(b.block))}
                     \cup (IF corrupted < MaxCorrupt
                           THEN {DamagedFrame(Values(b.block))} ELSE {}) :
        /\ wire' = wire \o (IF framed THEN Packet(write_buf \o units) ELSE units)
        /\ corrupted' = corrupted + (IF units = Frame(Values(b.block)) THEN 0 ELSE 1)
  BY <1>1 DEF WriteCompressedBlock
<1>4. b.block \in Nat \ {0} /\ BlockSize(b) = b.block + 1
  BY <1>2 DEF SomeBody, BlockSize
<1>5. units \in Seq(Units) /\ Len(units) = b.block + 1
  BY <1>3, <1>4, FrameType, Constants
<1>6. /\ write_buf \in Seq(Units) /\ wire \in Seq(AllUnits)
      /\ Len(write_buf) + OwedBy(job) <= MaxRequest
      /\ framed => Chunked(wire, read_remaining)
  BY <1>2 DEF SInv, WriterInv, WireInv
<1>7. OwedBy(job) = b.block + 1 /\ JobShape(<<>>) /\ OwedBy(<<>>) = 0
  BY <1>1, <1>4, JobOwed
<1>8. /\ write_buf \o units \in Seq(Units)
      /\ Len(write_buf \o units) <= MaxRequest
  BY <1>4, <1>5, <1>6, <1>7, ConcatProperties, Constants
<1>9. wire' \in Seq(AllUnits) /\ (framed => Chunked(wire', read_remaining))
  <2>1. CASE framed
    <3>1. wire' = wire \o Packet(write_buf \o units)
      BY <1>3, <2>1
    <3> QED BY <1>6, <1>8, <2>1, <3>1, PacketAppended, Constants
  <2>2. CASE ~framed
    <3>1. wire' = wire \o units
      BY <1>3, <2>2
    <3>2. units \in Seq(AllUnits)
      BY <1>5, TransportAssumption, SequencesFit
    <3> QED BY <1>6, <2>2, <3>1, <3>2, ConcatProperties
  <2> QED BY <2>1, <2>2
<1>10. corrupted' \in 0 .. MaxCorrupt
  <2>1. corrupted \in 0 .. MaxCorrupt
    BY DEF SInv, WriterInv
  <2>2. units = Frame(Values(b.block)) \/ corrupted < MaxCorrupt
    BY <1>3
  <2> QED BY <1>3, <2>1, <2>2, Constants
<1>11. sent' \in Nat /\ flushed' \in 0 .. sent'
  BY <1>2, <1>4, Constants
<1>12. write_buf' \in Seq(Units) /\ Len(write_buf') = 0
  BY <1>2
<1>13. dir = "send" => Len(write_buf') + OwedBy(job') <= MaxRequest
  BY <1>2, <1>7, <1>12, Constants
<1>14. JobShape(job')
  BY <1>2, <1>7
<1> QED BY <1>2, <1>9, <1>10, <1>11, <1>12, <1>13, <1>14, WireFilled

LEMMA FlushInv == ASSUME Fits, SInv, Flush PROVE SInv'
<1>1. /\ UNCHANGED <<fixed, packets, reader>>
      /\ sent' = sent /\ flushed' = sent /\ job' = job /\ corrupted' = corrupted
      /\ wire' = IF framed /\ write_buf # <<>> THEN wire \o Packet(write_buf) ELSE wire
      /\ write_buf' = IF framed THEN <<>> ELSE write_buf
      /\ dir = "send"
  BY DEF Flush
<1>2. /\ write_buf \in Seq(Units) /\ wire \in Seq(AllUnits)
      /\ Len(write_buf) + OwedBy(job) <= MaxRequest
      /\ framed => Chunked(wire, read_remaining)
      /\ JobShape(job) /\ corrupted \in 0 .. MaxCorrupt
  BY <1>1 DEF SInv, WriterInv, WireInv
<1>3. Len(write_buf) <= MaxRequest
  BY <1>2, Constants
<1>4. wire' \in Seq(AllUnits) /\ (framed => Chunked(wire', read_remaining))
  <2>1. CASE framed /\ write_buf # <<>>
    <3>1. wire' = wire \o Packet(write_buf)
      BY <1>1, <2>1
    <3> QED BY <1>2, <1>3, <2>1, <3>1, PacketAppended, Constants
  <2>2. CASE ~(framed /\ write_buf # <<>>)
    BY <1>1, <1>2, <2>2
  <2> QED BY <2>1, <2>2
<1>5. write_buf' \in Seq(Units) /\ Len(write_buf') <= Len(write_buf)
      /\ Len(write_buf') \in Nat
  <2>1. CASE write_buf' = <<>>
    BY <2>1, Constants
  <2>2. CASE write_buf' = write_buf
    BY <1>2, <2>2, Constants
  <2> QED BY <1>1, <2>1, <2>2
<1>6. dir = "send" => Len(write_buf') + OwedBy(job') <= MaxRequest
  BY <1>1, <1>2, <1>5, Constants
<1>7. /\ sent' \in Nat /\ flushed' \in 0 .. sent' /\ JobShape(job')
      /\ corrupted' \in 0 .. MaxCorrupt
  BY <1>1, <1>2, Constants
<1> QED BY <1>1, <1>4, <1>5, <1>6, <1>7, WireFilled

LEMMA ServerFrameInv == ASSUME SInv, ServerFrame PROVE SInv'
<1>1. PICK b \in SomeBody :
        /\ Head(job).body = b /\ job = <<[what |-> "block", body |-> b]>>
  BY JobHead DEF SInv, WriterInv, ServerFrame
<1>2. PICK n \in 1 .. b.block :
       /\ \E units \in {Frame(Values(n))}
                       \cup (IF corrupted < MaxCorrupt THEN {DamagedFrame(Values(n))} ELSE {}) :
            /\ Put(units, TRUE)
            /\ corrupted' = corrupted + (IF units = Frame(Values(n)) THEN 0 ELSE 1)
       /\ sent' = sent + n
       /\ job' = IF n = b.block THEN <<>>
                 ELSE <<[Head(job) EXCEPT !.body.block = @ - n]>>
  BY <1>1 DEF ServerFrame
<1>3. PICK units \in {Frame(Values(n))}
                     \cup (IF corrupted < MaxCorrupt THEN {DamagedFrame(Values(n))} ELSE {}) :
            /\ Put(units, TRUE)
            /\ corrupted' = corrupted + (IF units = Frame(Values(n)) THEN 0 ELSE 1)
  BY <1>2
<1>4. b.block \in Nat \ {0} /\ n \in Nat \ {0}
  BY DEF SomeBody
<1>5. units \in Seq(Units)
  BY <1>3, <1>4, FrameType, Constants
<1>6. JobShape(job')
  <2>1. CASE n = b.block
    BY <1>2, <2>1, JobOwed
  <2>2. CASE n # b.block
    <3>1. Head(job) = [what |-> "block", body |-> b]
      BY <1>1
    <3> DEFINE rest == [b EXCEPT !.block = @ - n]
    <3>2. rest \in SomeBody
      <4>1. b.block - n \in Nat \ {0}
        BY <1>4, <2>2
      <4> QED BY <4>1 DEF SomeBody
    <3>3. [Head(job) EXCEPT !.body.block = @ - n] = [what |-> "block", body |-> rest]
      BY <3>1
    <3>4. job' = <<[what |-> "block", body |-> rest]>>
      BY <1>2, <2>2, <3>3
    <3> HIDE DEF rest
    <3> QED BY <3>2, <3>4, JobOwed
  <2> QED BY <2>1, <2>2
<1>7. corrupted' \in 0 .. MaxCorrupt
  <2>1. corrupted \in 0 .. MaxCorrupt
    BY DEF SInv, WriterInv
  <2>2. units = Frame(Values(n)) \/ corrupted < MaxCorrupt
    BY <1>3
  <2> QED BY <1>3, <2>1, <2>2, Constants
<1>8. UNCHANGED <<fixed, flushed, reader>> /\ packets' = packets /\ dir # "send"
  BY DEF ServerFrame
<1>9. sent' \in Nat /\ sent' >= sent /\ packets' \in 0 .. MaxPackets
  BY <1>2, <1>4, <1>8, Constants DEF SInv, WriterInv
<1> QED BY <1>3, <1>5, <1>6, <1>7, <1>8, <1>9, PutInv

LEMMA ServerChunkInv == ASSUME Fits, SInv, ServerChunk PROVE SInv'
<1>1. PICK k \in 1 .. Min({Len(write_buf), 2^SizeBits - 1}) :
       /\ wire' = wire \o <<ChunkHeader(k)>> \o SubSeq(write_buf, 1, k)
       /\ write_buf' = SubSeq(write_buf, k + 1, Len(write_buf))
  BY DEF ServerChunk
<1>2. k \in 1 .. Len(write_buf) /\ k \in 0 .. 2^SizeBits - 1
  BY MinOfTwo, Constants DEF Fits
<1>3. write_buf \in Seq(Units) /\ wire \in Seq(AllUnits)
  BY DEF SInv, WriterInv, WireInv
<1>4. SubSeq(write_buf, 1, k) \in Seq(Units) /\ Len(SubSeq(write_buf, 1, k)) = k
  BY <1>2, <1>3, Constants, SubSeqProperties
<1>5. SubSeq(write_buf, k + 1, Len(write_buf)) \in Seq(Units)
  BY <1>2, <1>3, Constants, SubSeqProperties
<1>6. ChunkHeader(k) \in Headers
  BY <1>2 DEF ChunkHeader, Headers
<1>7. framed => Chunked(wire, read_remaining)
  BY DEF SInv, WireInv
<1>8. framed /\ dir # "send" /\ UNCHANGED <<fixed, packets, reader>>
      /\ sent' = sent /\ flushed' = flushed /\ job' = job /\ corrupted' = corrupted
  BY DEF ServerChunk
<1>9. wire' \in Seq(AllUnits) /\ Chunked(wire', read_remaining)
  BY <1>1, <1>3, <1>4, <1>6, <1>7, <1>8, ChunkAppended, Constants
<1>10. /\ sent' \in Nat /\ flushed' \in 0 .. sent' /\ JobShape(job')
       /\ corrupted' \in 0 .. MaxCorrupt /\ write_buf' \in Seq(Units)
  BY <1>1, <1>5, <1>8 DEF SInv, WriterInv
<1> QED BY <1>8, <1>9, <1>10, WireFilled

LEMMA ServerFlushInv == ASSUME Fits, SInv, ServerFlush PROVE SInv'
<1>1. /\ dir # "send" /\ UNCHANGED <<fixed, packets, reader>>
      /\ sent' = sent /\ flushed' = sent /\ job' = job /\ corrupted' = corrupted
      /\ write_buf' = write_buf
      /\ wire' = IF framed THEN Append(wire, ChunkHeader(0)) ELSE wire
  BY DEF ServerFlush
<1>2. wire \in Seq(AllUnits) /\ (framed => Chunked(wire, read_remaining))
  BY DEF SInv, WireInv
<1>3. wire' \in Seq(AllUnits) /\ (framed => Chunked(wire', read_remaining))
  <2>1. CASE framed
    <3>1. ChunkHeader(0) \in Headers
      BY Constants DEF Fits, ChunkHeader, Headers
    <3>2. <<>> \in Seq(Units) /\ Len(<<>>) = 0
      OBVIOUS
    <3> DEFINE w == wire \o <<ChunkHeader(0)>>
    <3>3. /\ wire \o <<ChunkHeader(Len(<<>>))>> \o <<>> \in Seq(AllUnits)
          /\ Chunked(wire \o <<ChunkHeader(Len(<<>>))>> \o <<>>, read_remaining)
      BY <1>2, <2>1, <3>1, <3>2, ChunkAppended, Constants
    <3>4. ChunkHeader(0) \in AllUnits /\ <<ChunkHeader(0)>> \in Seq(AllUnits)
      BY <3>1 DEF AllUnits
    <3>5. w \in Seq(AllUnits)
      BY <1>2, <3>4, ConcatProperties
    <3>6. w \o <<>> = w
      BY <3>5, ConcatEmptySeq
    <3>7. wire' = w
      BY <1>1, <1>2, <2>1, <3>4, AppendIsConcat
    <3> QED BY <3>2, <3>3, <3>6, <3>7
  <2>2. CASE ~framed
    BY <1>1, <1>2, <2>2
  <2> QED BY <2>1, <2>2
<1>4. /\ sent' \in Nat /\ flushed' \in 0 .. sent' /\ JobShape(job')
      /\ corrupted' \in 0 .. MaxCorrupt /\ write_buf' \in Seq(Units)
  BY <1>1 DEF SInv, WriterInv
<1> QED BY <1>1, <1>3, <1>4, WireFilled

-----------------------------------------------------------------------------
(* The reader's steps. *)

LEMMA MinOfThree ==
  ASSUME NEW a \in Int, NEW b \in Int, NEW c \in Int, NEW k \in Int,
         k <= Min({a, b} \cup {c})
  PROVE  k <= a /\ k <= b /\ k <= c
<1> DEFINE S == {a, b} \cup {c}
<1>1. \E x \in S : \A y \in S : x <= y
  <2>1. CASE a <= b /\ a <= c
    BY <2>1
  <2>2. CASE b <= a /\ b <= c
    BY <2>2
  <2>3. CASE c <= a /\ c <= b
    BY <2>3
  <2> QED BY <2>1, <2>2, <2>3
<1>2. Min(S) \in S /\ \A y \in S : Min(S) <= y
  BY <1>1, Zenon DEF Min
<1> QED BY <1>2

LEMMA AskedInt == ASSUME SInv PROVE Asked \in Int
<1>1. /\ want \in Nat /\ frame.size \in Nat /\ Len(frame.body) \in Nat
  BY LenProperties DEF SInv, ReaderInv, Frames
<1>2. frame.size - Len(frame.body) \in Int
  BY <1>1
<1> QED BY <1>1, <1>2 DEF Asked

(* A read stays within what was asked for and within the chunk. *)
LEMMA ReadBounded ==
  ASSUME SInv, NEW k \in 1 .. Available
  PROVE  k \in Nat \ {0} /\ k <= Asked /\ k <= Len(wire)
         /\ (framed => k <= read_remaining)
<1>1. Asked \in Int /\ Len(wire) \in Nat /\ read_remaining \in Nat
  BY AskedInt, Constants, LenProperties DEF SInv, WireInv
<1>2. CASE framed
  <2>1. Available = Min({Asked, Len(wire)} \cup {read_remaining})
    BY <1>2 DEF Available
  <2>2. k \in Int /\ k >= 1 /\ k <= Available
    OBVIOUS
  <2>3. k <= Min({Asked, Len(wire)} \cup {read_remaining})
    BY <2>1, <2>2
  <2>4. k <= Asked /\ k <= Len(wire) /\ k <= read_remaining
    BY <1>1, <2>2, <2>3, MinOfThree
  <2> QED BY <2>2, <2>4
<1>3. CASE ~framed
  <2>1. Available = Min({Asked, Len(wire)})
    BY <1>3 DEF Available
  <2>2. Available = IF Asked <= Len(wire) THEN Asked ELSE Len(wire)
    BY <1>1, <2>1, MinOfTwo
  <2> QED BY <1>1, <1>3, <2>2
<1> QED BY <1>2, <1>3

LEMMA ReadHeaderInv == ASSUME SInv, ReadHeader PROVE SInv'
<1>1. /\ framed /\ read_remaining = 0 /\ wire # <<>> /\ wire' = Tail(wire)
      /\ UNCHANGED <<fixed, writer, frame, buf, plan, want, got>>
      /\ IF Head(wire).tag = "chunk"
         THEN read_remaining' = Head(wire).size /\ UNCHANGED stage
         ELSE stage' = "garbled" /\ UNCHANGED read_remaining
  BY DEF ReadHeader
<1>2. wire \in Seq(AllUnits) /\ Chunked(wire, 0)
  BY <1>1 DEF SInv, WireInv
<1>3. /\ Head(wire) \in Headers /\ Head(wire).tag = "chunk"
      /\ Tail(wire) \in Seq(AllUnits) /\ Chunked(Tail(wire), Head(wire).size)
  BY <1>1, <1>2, HeaderRead
<1>4. /\ read_remaining' = Head(wire).size /\ stage' = stage
      /\ Head(wire).size \in 0 .. 2^SizeBits - 1
  BY <1>1, <1>3 DEF Headers
<1>5. WireInv'
  BY <1>1, <1>3, <1>4 DEF WireInv
<1>6. ReaderInv'
  BY <1>1, <1>4 DEF SInv, ReaderInv
<1>7. FixedInv' /\ WriterInv'
  BY <1>1 DEF SInv, FixedInv, WriterInv, fixed, writer
<1> QED BY <1>5, <1>6, <1>7 DEF SInv

LEMMA AppendedValues ==
  ASSUME NEW q \in Seq(Nat), NEW u \in Seq(AllUnits),
         \A i \in 1 .. Len(u) : u[i].tag = "value"
  PROVE  q \o [i \in DOMAIN u |-> u[i].v] \in Seq(Nat)
<1>1. /\ Len(u) \in Nat /\ DOMAIN u = 1 .. Len(u)
      /\ \A i \in 1 .. Len(u) : u[i] \in AllUnits
  BY LenProperties, ElementOfSeq
<1>2. \A x \in AllUnits : x.tag = "value" => x.v \in Nat
  BY DEF AllUnits, Units, Headers
<1>3. \A i \in 1 .. Len(u) : u[i].v \in Nat
  BY <1>1, <1>2
<1> DEFINE c == [i \in 1 .. Len(u) |-> u[i].v]
<1>4. c \in Seq(Nat)
  BY <1>1, <1>3
<1>5. [i \in DOMAIN u |-> u[i].v] = c
  BY <1>1
<1> QED BY <1>4, <1>5, ConcatProperties

LEMMA ReadInv == ASSUME Fits, SInv, Read PROVE SInv'
<1>1. UNCHANGED <<fixed, writer>> /\ (framed => read_remaining > 0)
  BY DEF Read
<1> DEFINE units(k) == SubSeq(wire, 1, k)
           all(k, tag) == \A i \in 1 .. k : units(k)[i].tag = tag
<1>2. PICK k \in 1 .. Available :
        /\ wire' = SubSeq(wire, k + 1, Len(wire))
        /\ read_remaining' = Remaining(k)
        /\ CASE stage = "code" /\ all(k, "code") -> TakeCode(units(k))
             [] Decompresses /\ ~frame.open /\ all(k, "frame") -> TakeFrameHeader(units(k))
             [] Decompresses /\ frame.open /\ all(k, "value") -> TakeFrameBody(units(k))
             [] stage # "code" /\ ~Decompresses /\ all(k, "value") -> TakeValues(units(k))
             [] OTHER -> stage' = "garbled" /\ UNCHANGED <<frame, buf, plan, want, got>>
  BY DEF Read
<1>3. k \in Nat \ {0} /\ k <= Asked /\ k <= Len(wire)
      /\ (framed => k <= read_remaining)
  BY ReadBounded
<1>4. wire \in Seq(AllUnits) /\ Len(wire) \in Nat
  BY LenProperties DEF SInv, WireInv
<1> DEFINE u == units(k)
<1>5. u \in Seq(AllUnits) /\ Len(u) = k
      /\ SubSeq(wire, k + 1, Len(wire)) \in Seq(AllUnits)
  BY <1>3, <1>4, SubSeqProperties
<1>6. u[1] \in AllUnits
  BY <1>3, <1>5, ElementOfSeq
<1>7. WireInv'
  <2>1. CASE framed
    <3>1. k \in 1 .. read_remaining /\ Chunked(wire, read_remaining)
          /\ read_remaining \in Nat
      BY <1>3, <2>1, Constants DEF SInv, WireInv
    <3>2. Chunked(SubSeq(wire, k + 1, Len(wire)), read_remaining - k)
      BY <1>4, <3>1, UnitsRead
    <3>3. read_remaining' = read_remaining - k
      BY <1>2, <2>1 DEF Remaining
    <3> QED BY <1>2, <1>5, <3>2, <3>3 DEF WireInv
  <2>2. CASE ~framed
    <3>1. ~framed'
      BY <1>1, <2>2 DEF fixed
    <3> QED BY <1>2, <1>5, <3>1 DEF WireInv
  <2> QED BY <2>1, <2>2
<1>8. read_remaining' \in 0 .. 2^SizeBits - 1
  <2>1. read_remaining \in 0 .. 2^SizeBits - 1
    BY DEF SInv, ReaderInv
  <2>2. CASE framed
    BY <1>2, <1>3, <2>1, <2>2 DEF Remaining, Fits
  <2>3. CASE ~framed
    BY <1>2, <2>1, <2>3 DEF Remaining
  <2> QED BY <2>2, <2>3
<1>9. /\ stage \in {"code", "plain", "block", "garbled", "corrupt"}
      /\ want \in Nat /\ buf \in Seq(Nat) /\ got \in Seq(Nat)
      /\ plan \in Bodies \cup {NoBody} /\ frame \in Frames
  BY DEF SInv, ReaderInv
<1> DEFINE Read2 ==
      /\ stage' \in {"code", "plain", "block", "garbled", "corrupt"}
      /\ want' \in Nat /\ buf' \in Seq(Nat) /\ got' \in Seq(Nat)
      /\ plan' \in Bodies \cup {NoBody} /\ frame' \in Frames
<1> HIDE DEF units
<1>10. \/ all(k, "code") /\ TakeCode(u)
       \/ all(k, "frame") /\ TakeFrameHeader(u)
       \/ all(k, "value") /\ TakeFrameBody(u)
       \/ all(k, "value") /\ TakeValues(u)
       \/ stage' = "garbled" /\ UNCHANGED <<frame, buf, plan, want, got>>
  <2> HIDE DEF all, u
  <2> QED BY <1>2 DEF u
<1>11. ASSUME all(k, "code") /\ TakeCode(u) PROVE Read2
  <2>1. u[1].tag = "code"
    BY <1>3, <1>11
  <2>2. u[1].body \in Bodies
    BY <1>6, <2>1 DEF AllUnits, Units, Headers
  <2>3. u[1].body.plain \in Nat /\ u[1].body.block \in Nat
    BY <2>2, TransportAssumption DEF TransportAssumption
  <2> QED BY <1>9, <1>11, <2>2, <2>3 DEF TakeCode
<1>12. ASSUME all(k, "frame") /\ TakeFrameHeader(u) PROVE Read2
  <2>1. u[1].tag = "frame"
    BY <1>3, <1>12
  <2>2. u[1].size \in Nat /\ u[1].checksum \in Seq(Nat)
    BY <1>6, <2>1 DEF AllUnits, Units, Headers
  <2>3. frame' \in Frames
    BY <1>12, <2>2 DEF TakeFrameHeader, Frames
  <2> QED BY <1>9, <1>12, <2>3 DEF TakeFrameHeader
<1>13. ASSUME all(k, "value") /\ TakeFrameBody(u) PROVE Read2
  <2> DEFINE body == frame.body \o [i \in DOMAIN u |-> u[i].v]
  <2>1. body \in Seq(Nat)
    BY <1>5, <1>9, <1>13, AppendedValues DEF Frames
  <2>2. NoFrame \in Frames
    BY DEF NoFrame, Frames
  <2>3. /\ frame' = IF Len(body) = frame.size THEN NoFrame ELSE [frame EXCEPT !.body = body]
        /\ buf' = IF Len(body) = frame.size /\ body = frame.checksum THEN body ELSE buf
        /\ stage' = IF Len(body) = frame.size /\ body # frame.checksum
                    THEN "corrupt" ELSE stage
        /\ plan' = plan /\ want' = want /\ got' = got
    BY <1>13 DEF TakeFrameBody
  <2> HIDE DEF body
  <2>4. frame' \in Frames
    BY <1>9, <2>1, <2>2, <2>3 DEF Frames
  <2> QED BY <1>9, <2>1, <2>3, <2>4
<1>14. ASSUME all(k, "value") /\ TakeValues(u) PROVE Read2
  <2>1. got' \in Seq(Nat)
    BY <1>5, <1>9, <1>14, AppendedValues DEF TakeValues
  <2>2. plan.block \in Nat
    BY <1>9, TransportAssumption DEF TransportAssumption, NoBody
  <2>3. /\ IF want > k THEN want' = want - k /\ stage' = stage
           ELSE IF stage = "plain" THEN stage' = "block" /\ want' = plan.block
           ELSE stage' = "code" /\ want' = 0
        /\ frame' = frame /\ buf' = buf /\ plan' = plan
    BY <1>5, <1>14 DEF TakeValues, EnterBlock, EnterCode
  <2>4. want' \in Nat /\ stage' \in {"code", "plain", "block", "garbled", "corrupt"}
    BY <1>3, <1>9, <2>2, <2>3
  <2> QED BY <1>9, <2>1, <2>3, <2>4
<1>15. ASSUME stage' = "garbled" /\ UNCHANGED <<frame, buf, plan, want, got>>
       PROVE  Read2
  BY <1>9, <1>15
<1>16. Read2
  <2> HIDE DEF Read2, all, u
  <2> QED BY <1>10, <1>11, <1>12, <1>13, <1>14, <1>15
<1>17. ReaderInv'
  BY <1>8, <1>16 DEF ReaderInv
<1>18. FixedInv' /\ WriterInv'
  BY <1>1 DEF SInv, FixedInv, WriterInv, fixed, writer
<1> QED BY <1>7, <1>17, <1>18 DEF SInv

LEMMA ReadBufferedInv == ASSUME SInv, ReadBuffered PROVE SInv'
<1>1. UNCHANGED <<fixed, writer, wire, read_remaining, frame, plan>>
  BY DEF ReadBuffered
<1>2. /\ want \in Nat /\ buf \in Seq(Nat) /\ got \in Seq(Nat)
      /\ Len(buf) \in Nat
      /\ stage \in {"code", "plain", "block", "garbled", "corrupt"}
  BY LenProperties DEF SInv, ReaderInv
<1>3. PICK n : /\ n = Min({Len(buf), want})
               /\ got' = got \o SubSeq(buf, 1, n)
               /\ buf' = IF n = want THEN <<>> ELSE SubSeq(buf, n + 1, Len(buf))
               /\ IF n = want THEN stage' = "code" /\ want' = 0
                  ELSE want' = want - n /\ stage' = stage
  BY DEF ReadBuffered, EnterCode
<1>4. n \in 0 .. Len(buf) /\ n <= want
  <2>1. n = Min({Len(buf), want})
    BY <1>3
  <2>2. Min({Len(buf), want}) = IF Len(buf) <= want THEN Len(buf) ELSE want
    <3>1. Len(buf) \in Int /\ want \in Int
      BY <1>2
    <3> QED BY <3>1, MinOfTwo
  <2> QED BY <1>2, <2>1, <2>2
<1>5. SubSeq(buf, 1, n) \in Seq(Nat) /\ SubSeq(buf, n + 1, Len(buf)) \in Seq(Nat)
  BY <1>2, <1>4, SubSeqProperties
<1>6. got' \in Seq(Nat)
  BY <1>2, <1>3, <1>5, ConcatProperties
<1>7. /\ buf' \in Seq(Nat) /\ want' \in Nat
      /\ stage' \in {"code", "plain", "block", "garbled", "corrupt"}
  <2>1. CASE n = want
    BY <1>2, <1>3, <2>1
  <2>2. CASE n # want
    <3>1. buf' = SubSeq(buf, n + 1, Len(buf)) /\ want' = want - n /\ stage' = stage
      BY <1>3, <2>2
    <3>2. want - n \in Nat
      BY <1>2, <1>4
    <3> QED BY <1>2, <1>5, <3>1, <3>2
  <2> QED BY <2>1, <2>2
<1>8. ReaderInv'
  BY <1>1, <1>6, <1>7 DEF SInv, ReaderInv
<1>9. FixedInv' /\ WriterInv' /\ WireInv'
  BY <1>1 DEF SInv, FixedInv, WriterInv, WireInv, fixed, writer
<1> QED BY <1>8, <1>9 DEF SInv

-----------------------------------------------------------------------------
(* The invariant, and what follows from it. *)

LEMMA SInvInit == ASSUME Fits, Init PROVE SInv
<1>1. 2^SizeBits \in Nat /\ 0 < 2^SizeBits /\ MaxRequest \in Nat
      /\ MaxPackets \in Nat /\ MaxCorrupt \in Nat
  BY TransportAssumption DEF TransportAssumption, Fits
<1>2. FixedInv
  BY DEF Init, FixedInv
<1>3. Len(<<>>) = 0 /\ <<>> \in Seq(Units) /\ <<>> \in Seq(AllUnits)
      /\ <<>> \in Seq(Nat)
  OBVIOUS
<1>4. WriterInv
  <2>1. OwedBy(job) = 0 /\ JobShape(job)
    BY JobOwed DEF Init
  <2> QED BY <1>1, <1>3, <2>1 DEF Init, WriterInv
<1>5. WireInv
  BY <1>3 DEF Init, WireInv, Chunked, Chunks, RestFirst
<1>6. ReaderInv
  BY <1>1, <1>3 DEF Init, ReaderInv, NoFrame, Frames
<1> QED BY <1>2, <1>4, <1>5, <1>6 DEF SInv

LEMMA SInvStep == ASSUME Fits, SInv, [Next]_vars PROVE SInv'
<1>1. CASE StartPacket
  BY <1>1, StartPacketInv
<1>2. CASE WritePlain
  BY <1>2, WritePlainInv
<1>3. CASE WriteRawBlock
  BY <1>3, WriteRawBlockInv
<1>4. CASE WriteCompressedBlock
  BY <1>4, WriteCompressedBlockInv
<1>5. CASE Flush
  BY <1>5, FlushInv
<1>6. CASE ServerFrame
  BY <1>6, ServerFrameInv
<1>7. CASE ServerChunk
  BY <1>7, ServerChunkInv
<1>8. CASE ServerFlush
  BY <1>8, ServerFlushInv
<1>9. CASE ReadHeader
  BY <1>9, ReadHeaderInv
<1>10. CASE Read
  BY <1>10, ReadInv
<1>11. CASE ReadBuffered
  BY <1>11, ReadBufferedInv
<1>12. CASE UNCHANGED vars
  BY <1>12 DEF vars, fixed, writer, reader, SInv, FixedInv, WriterInv, WireInv,
               ReaderInv
<1> QED BY <1>1, <1>2, <1>3, <1>4, <1>5, <1>6, <1>7, <1>8, <1>9, <1>10, <1>11,
           <1>12 DEF Next, Write, Reads

LEMMA SInvAlways == ASSUME Fits PROVE Spec => []SInv
BY SInvInit, SInvStep, PTL DEF Spec

(* The count of the stream, of the gathered packet and of what is asked for *)
(* have their types: in particular no chunk's size and no write_buf         *)
(* outgrows the width that ChunkedStream::flush casts to.                   *)
THEOREM CountsFit == ASSUME Fits PROVE Spec => []TypeOK
BY SInvAlways, SInvTypes, PTL

(* ChunkedStream::read stays in step: behind the units its read_remaining   *)
(* still counts comes a chunk's header and never one among them, for every  *)
(* size of buffer, chunk, request and read, and every damage to the values. *)
THEOREM StaysInStep == ASSUME Fits PROVE Spec => []InStep
BY SInvAlways, SInvInStep, PTL

-----------------------------------------------------------------------------
(* What a socket that takes less than it is given can cut short is a write  *)
(* of the code that no chunk gathers: ChunkedStream::flush writes all.      *)
WritesWhole ==
  ShortWrites => Dirs \subseteq {"receive"} \/ Framings \subseteq {TRUE}

(* Where in the packets a stream is: how many values came before, what is   *)
(* being written or read there and how much of it is left, what follows it, *)
(* and how much is left of an open frame.                                   *)
Places ==
  {x \in [v : Nat, stage : {"code", "plain", "block"}, want : Nat, next : Nat,
          compressed : BOOLEAN, left : Nat] :
     /\ (x.stage = "code") = (x.want = 0)
     /\ (x.stage = "plain") = (x.next > 0)
     /\ x.stage = "code" => ~x.compressed
     /\ x.left > 0 => x.stage = "block" /\ x.compressed /\ x.left <= x.want}

AtCode(v) ==
  [v |-> v, stage |-> "code", want |-> 0, next |-> 0, compressed |-> FALSE, left |-> 0]

AtBlock(v, n, compressed, left) ==
  IF n = 0 THEN AtCode(v)
  ELSE [v |-> v, stage |-> "block", want |-> n, next |-> 0,
        compressed |-> compressed, left |-> left]

AtPlain(v, n, next, compressed) ==
  IF n = 0 THEN AtBlock(v, next, compressed, 0)
  ELSE [v |-> v, stage |-> "plain", want |-> n, next |-> next,
        compressed |-> compressed, left |-> 0]

(* Some values further on, within the frame if one is open. *)
Along(x, n) ==
  IF x.stage = "plain" THEN AtPlain(x.v + n, x.want - n, x.next, x.compressed)
  ELSE AtBlock(x.v + n, x.want - n, x.compressed,
               IF x.left > 0 THEN x.left - n ELSE 0)

Numbers(v, n) == [i \in 1 .. n |-> v + i]

(* Values may be there, and the next one or, in a damaged frame, another. *)
HasValues(x) ==
  \/ x.stage = "plain"
  \/ x.stage = "block" /\ (x.compressed => x.left > 0)

Numbered(c, x, i, v) == v = x.v + i \/ (x.left > 0 /\ c > 0 /\ v = Damaged)

(* The units that may come at a place, ... *)
Allowed(c, x, u) ==
  \/ u.tag = "chunk"
  \/ u.tag = "code" /\ x.stage = "code"
  \/ /\ u.tag = "frame" /\ x.stage = "block" /\ x.compressed /\ x.left = 0
     /\ u.size \in 1 .. x.want /\ u.checksum = Numbers(x.v, u.size)
  \/ u.tag = "value" /\ HasValues(x) /\ Numbered(c, x, 1, u.v)

(* ... and the place behind them. *)
After(x, u) ==
  CASE u.tag = "chunk" -> x
    [] u.tag = "code" -> AtPlain(x.v, u.body.plain, u.body.block, u.body.compressed)
    [] u.tag = "frame" -> AtBlock(x.v, x.want, TRUE, u.size)
    [] u.tag = "value" -> Along(x, 1)

ReaderPlace ==
  CASE stage = "code"  -> AtCode(Len(got))
    [] stage = "plain" -> AtPlain(Len(got), want, plan.block, plan.compressed)
    [] OTHER -> AtBlock(Len(got) + Len(buf) + Len(frame.body),
                        want - Len(buf) - Len(frame.body), plan.compressed,
                        IF frame.open THEN frame.size - Len(frame.body) ELSE 0)

PlaceOf(j, v) ==
  IF j = <<>> THEN AtCode(v)
  ELSE LET b == Head(j).body IN
       IF Head(j).what = "plain" THEN AtPlain(v, b.plain, b.block, b.compressed)
       ELSE AtBlock(v, b.block, b.compressed, 0)

WriterPlace == PlaceOf(job, sent)

(* What CompressedReader holds. *)
FrameOpen ==
  /\ stage = "block" /\ plan.compressed /\ buf = <<>>
  /\ Len(frame.body) < frame.size /\ frame.size <= want
  /\ frame.checksum = Numbers(Len(got), frame.size)
  /\ \A i \in 1 .. Len(frame.body) :
       frame.body[i] = Len(got) + i \/ (corrupted > 0 /\ frame.body[i] = Damaged)

HeldOK ==
  /\ IF frame.open THEN FrameOpen ELSE frame = NoFrame
  /\ buf = Numbers(Len(got), Len(buf)) /\ Len(buf) <= want
  /\ buf # <<>> => stage = "block" /\ plan.compressed
  /\ IF stage = "code" THEN want = 0 ELSE want > 0 /\ plan \in Bodies

(* A walk over the units q. *)
IsWalk(c, q, r) ==
  /\ r \in [0 .. Len(q) -> Places]
  /\ \A i \in 1 .. Len(q) :
       Allowed(c, r[i - 1], q[i]) /\ r[i] = After(r[i - 1], q[i])

Walked(c, q, x, y) == \E r : IsWalk(c, q, r) /\ r[0] = x /\ r[Len(q)] = y

LInv ==
  /\ stage # "garbled" /\ got = Numbers(0, Len(got))
  /\ ~framed => write_buf = <<>> /\ wire \in Seq(Units)
  /\ stage # "corrupt" =>
       HeldOK /\ Walked(corrupted, wire \o write_buf, ReaderPlace, WriterPlace)

-----------------------------------------------------------------------------
(* The least of some numbers. *)
LEMMA Least ==
  ASSUME NEW S \in SUBSET Nat, S # {}
  PROVE  \E m \in S : \A k \in S : m <= k
<1>1. PICK m \in S : \A k \in S : ~ (<<k, m>> \in OpToRel(<, Nat))
  BY WFMin, NatLessThanWellFounded, Zenon
<1>2. \A k \in S : ~ (k < m)
  BY <1>1, Zenon DEF OpToRel
<1> QED BY <1>2

(* Induction over the places of a walk. *)
LEMMA UpTo ==
  ASSUME NEW n \in Nat, NEW S, 0 \in S,
         \A i \in 0 .. n : i < n /\ i \in S => i + 1 \in S
  PROVE  0 .. n \subseteq S
<1> DEFINE T == {i \in 0 .. n : i \notin S}
<1> SUFFICES ASSUME T # {} PROVE FALSE
  OBVIOUS
<1>1. T \in SUBSET Nat
  OBVIOUS
<1>2. PICK m \in T : \A k \in T : m <= k
  <2> HIDE DEF T
  <2> QED BY <1>1, Least
<1>3. m \in 0 .. n /\ m \notin S /\ m # 0
  BY <1>2
<1>4. m - 1 \in 0 .. n /\ m - 1 < n /\ m - 1 + 1 = m
  BY <1>3
<1>5. m - 1 \notin S
  BY <1>3, <1>4
<1>6. m - 1 \in T
  BY <1>4, <1>5
<1> QED BY <1>2, <1>3, <1>6

-----------------------------------------------------------------------------
(* Places. *)

LEMMA PlaceTypes ==
  /\ \A v \in Nat : AtCode(v) \in Places
  /\ \A v, n, k \in Nat, b \in BOOLEAN :
       /\ (k > 0 => b /\ k <= n) => AtBlock(v, n, b, k) \in Places
       /\ k > 0 => AtPlain(v, n, k, b) \in Places
BY DEF Places, AtCode, AtBlock, AtPlain

LEMMA AlongTypes ==
  ASSUME NEW x \in Places, HasValues(x), NEW n \in 0 .. x.want,
         x.left > 0 => n <= x.left
  PROVE  /\ Along(x, n) \in Places /\ Along(x, n).v = x.v + n
         /\ n < x.want =>
              /\ Along(x, n).stage = x.stage /\ Along(x, n).want = x.want - n
              /\ Along(x, n).next = x.next
              /\ Along(x, n).compressed = x.compressed
              /\ Along(x, n).left = IF x.left > 0 THEN x.left - n ELSE 0
<1>1. /\ x.v \in Nat /\ x.want \in Nat /\ x.next \in Nat /\ x.left \in Nat
      /\ x.compressed \in BOOLEAN /\ x.stage \in {"code", "plain", "block"}
      /\ x.want > 0 /\ (x.stage = "plain") = (x.next > 0)
      /\ x.left > 0 => x.stage = "block" /\ x.compressed /\ x.left <= x.want
  BY DEF Places, HasValues
<1>2. x.v + n \in Nat /\ x.want - n \in Nat
  BY <1>1
<1>3. CASE x.stage = "plain"
  <2>1. x.next > 0 /\ x.left = 0
    BY <1>1, <1>3
  <2>2. Along(x, n) = AtPlain(x.v + n, x.want - n, x.next, x.compressed)
    BY <1>3 DEF Along
  <2>3. Along(x, n) \in Places
    BY <1>1, <1>2, <2>1, <2>2, PlaceTypes
  <2>4. CASE n = x.want
    <3>1. Along(x, n) = [v |-> x.v + n, stage |-> "block", want |-> x.next,
                         next |-> 0, compressed |-> x.compressed, left |-> 0]
      BY <1>1, <2>1, <2>2, <2>4 DEF AtPlain, AtBlock
    <3> QED BY <1>1, <2>3, <2>4, <3>1
  <2>5. CASE n < x.want
    <3>1. Along(x, n) = [v |-> x.v + n, stage |-> "plain", want |-> x.want - n,
                         next |-> x.next, compressed |-> x.compressed, left |-> 0]
      BY <1>1, <2>1, <2>2, <2>5 DEF AtPlain
    <3> QED BY <1>1, <1>3, <2>1, <2>3, <2>5, <3>1
  <2> QED BY <1>1, <2>4, <2>5
<1>4. CASE x.stage # "plain"
  <2>1. x.next = 0 /\ x.stage = "block"
    BY <1>1, <1>4 DEF HasValues
  <2>2. PICK k \in Nat : k = IF x.left > 0 THEN x.left - n ELSE 0
    BY <1>1
  <2>3. Along(x, n) = AtBlock(x.v + n, x.want - n, x.compressed, k)
    BY <1>4, <2>2 DEF Along
  <2>4. k > 0 => x.compressed /\ k <= x.want - n
    BY <1>1, <2>2
  <2>5. Along(x, n) \in Places
    BY <1>1, <1>2, <2>3, <2>4, PlaceTypes
  <2>6. CASE n = x.want
    <3>1. Along(x, n) = AtCode(x.v + n)
      BY <1>1, <2>3, <2>6 DEF AtBlock
    <3>2. Along(x, n).v = x.v + n
      BY <3>1 DEF AtCode
    <3>3. ~ (n < x.want)
      BY <1>1, <2>6
    <3> QED BY <2>5, <3>2, <3>3
  <2>7. CASE n < x.want
    <3>1. Along(x, n) = [v |-> x.v + n, stage |-> "block", want |-> x.want - n,
                         next |-> 0, compressed |-> x.compressed, left |-> k]
      BY <1>1, <2>3, <2>7 DEF AtBlock
    <3> QED BY <2>1, <2>2, <2>5, <3>1
  <2> QED BY <1>1, <2>6, <2>7
<1> QED BY <1>3, <1>4

(* One value further, and then others. *)
LEMMA AlongAgain ==
  ASSUME NEW x \in Places, HasValues(x), NEW n \in Nat, n < x.want,
         x.left > 0 => n < x.left
  PROVE  /\ Along(x, 0) = x
         /\ HasValues(Along(x, n))
         /\ Along(Along(x, n), 1) = Along(x, n + 1)
         /\ Along(x, n) \in Places
         /\ \A c, v : Numbered(c, Along(x, n), 1, v) <=> Numbered(c, x, n + 1, v)
<1>1. /\ x.v \in Nat /\ x.want \in Nat /\ x.next \in Nat /\ x.left \in Nat
      /\ x.compressed \in BOOLEAN /\ x.stage \in {"plain", "block"}
      /\ x.want > 0 /\ (x.stage = "plain") = (x.next > 0)
      /\ x.left > 0 => x.stage = "block" /\ x.compressed /\ x.left <= x.want
      /\ x = [v |-> x.v, stage |-> x.stage, want |-> x.want, next |-> x.next,
              compressed |-> x.compressed, left |-> x.left]
  BY DEF Places, HasValues
<1>2. Along(x, 0) = x
  <2>1. CASE x.stage = "plain"
    BY <1>1, <2>1 DEF Along, AtPlain
  <2>2. CASE x.stage = "block"
    BY <1>1, <2>2 DEF Along, AtBlock
  <2> QED BY <1>1, <2>1, <2>2
<1> DEFINE y == Along(x, n)
<1>3. /\ y \in Places /\ y.v = x.v + n /\ y.stage = x.stage
      /\ y.want = x.want - n /\ y.next = x.next /\ y.compressed = x.compressed
      /\ y.left = IF x.left > 0 THEN x.left - n ELSE 0
  BY <1>1, AlongTypes
<1> HIDE DEF y
<1>4. HasValues(y)
  BY <1>1, <1>3 DEF HasValues
<1>5. Along(y, 1) = Along(x, n + 1)
  <2>1. y.v + 1 = x.v + (n + 1) /\ y.want - 1 = x.want - (n + 1)
    BY <1>1, <1>3
  <2>2. (IF y.left > 0 THEN y.left - 1 ELSE 0)
          = IF x.left > 0 THEN x.left - (n + 1) ELSE 0
    BY <1>1, <1>3
  <2> QED BY <1>3, <2>1, <2>2 DEF Along
<1>6. \A c, v : Numbered(c, y, 1, v) <=> Numbered(c, x, n + 1, v)
  <2>1. y.v + 1 = x.v + (n + 1) /\ (y.left > 0 <=> x.left > 0)
    BY <1>1, <1>3
  <2> QED BY <2>1, Zenon DEF Numbered
<1> QED BY <1>2, <1>3, <1>4, <1>5, <1>6 DEF y

(* A unit leads from a place to a place. *)
LEMMA AfterType ==
  ASSUME NEW c, NEW x \in Places, NEW u \in AllUnits, Allowed(c, x, u)
  PROVE  After(x, u) \in Places /\ x.v <= After(x, u).v
<1>1. /\ x.v \in Nat /\ x.want \in Nat
  BY DEF Places
<1>2. CASE u.tag = "chunk"
  BY <1>1, <1>2 DEF After
<1>3. CASE u.tag = "code"
  <2>1. u.body \in Bodies
    BY <1>3 DEF AllUnits, Units, Headers
  <2>2. /\ u.body.plain \in Nat /\ u.body.block \in Nat /\ u.body.block > 0
        /\ u.body.compressed \in BOOLEAN
    BY <2>1, TransportAssumption DEF TransportAssumption
  <2>3. After(x, u) = AtPlain(x.v, u.body.plain, u.body.block, u.body.compressed)
    BY <1>3 DEF After
  <2>4. After(x, u).v = x.v
    BY <2>2, <2>3 DEF AtPlain, AtBlock
  <2> QED BY <1>1, <2>2, <2>3, <2>4, PlaceTypes
<1>4. CASE u.tag = "frame"
  <2>1. u.size \in Nat /\ u.size <= x.want /\ x.want > 0
    BY <1>1, <1>4 DEF Allowed
  <2>2. After(x, u) = AtBlock(x.v, x.want, TRUE, u.size)
    BY <1>4 DEF After
  <2>3. After(x, u).v = x.v
    BY <1>1, <2>1, <2>2 DEF AtBlock
  <2>4. AtBlock(x.v, x.want, TRUE, u.size) \in Places
    BY <1>1, <2>1, PlaceTypes
  <2>5. After(x, u) \in Places
    BY <2>2, <2>4
  <2>6. x.v <= After(x, u).v
    BY <1>1, <2>3
  <2> QED BY <2>5, <2>6
<1>5. CASE u.tag = "value"
  <2>1. HasValues(x)
    BY <1>5 DEF Allowed
  <2>2. x.want > 0 /\ x.left \in Nat
    BY <2>1 DEF Places, HasValues
  <2>3. Along(x, 1) \in Places /\ Along(x, 1).v = x.v + 1
    BY <1>1, <2>1, <2>2, AlongTypes
  <2> QED BY <1>1, <1>5, <2>3 DEF After
<1> QED BY <1>2, <1>3, <1>4, <1>5 DEF AllUnits, Units, Headers

-----------------------------------------------------------------------------
(* Walks. *)

LEMMA WalkOne ==
  ASSUME NEW c, NEW x \in Places, NEW u \in AllUnits, Allowed(c, x, u)
  PROVE  Walked(c, <<u>>, x, After(x, u))
<1> DEFINE y == After(x, u)
           r == [i \in 0 .. 1 |-> IF i = 0 THEN x ELSE y]
<1>1. y \in Places
  BY AfterType
<1> HIDE DEF y
<1>2. r \in [0 .. 1 -> Places] /\ r[0] = x /\ r[1] = y
  BY <1>1
<1> HIDE DEF r
<1>3. Len(<<u>>) = 1 /\ <<u>>[1] = u
  OBVIOUS
<1>4. IsWalk(c, <<u>>, r)
  <2>1. \A i \in 1 .. 1 : i = 1 /\ i - 1 = 0
    OBVIOUS
  <2>2. Allowed(c, r[0], u) /\ r[1] = After(r[0], u)
    BY <1>2 DEF y
  <2> QED BY <1>2, <1>3, <2>1, <2>2 DEF IsWalk
<1> QED BY <1>2, <1>3, <1>4 DEF Walked, y

LEMMA WalkNone ==
  ASSUME NEW c, NEW x \in Places
  PROVE  Walked(c, <<>>, x, x)
<1> DEFINE r == [i \in 0 .. 0 |-> x]
<1>1. r \in [0 .. 0 -> Places] /\ r[0] = x /\ Len(<<>>) = 0
  OBVIOUS
<1> HIDE DEF r
<1>2. IsWalk(c, <<>>, r)
  BY <1>1 DEF IsWalk
<1> QED BY <1>1, <1>2 DEF Walked

LEMMA WalkJoined ==
  ASSUME NEW c, NEW p \in Seq(AllUnits), NEW q \in Seq(AllUnits),
         NEW x, NEW y, NEW z, Walked(c, p, x, y), Walked(c, q, y, z)
  PROVE  Walked(c, p \o q, x, z)
<1>1. PICK m \in Nat, n \in Nat : m = Len(p) /\ n = Len(q)
  BY LenProperties
<1>2. PICK r : IsWalk(c, p, r) /\ r[0] = x /\ r[m] = y
  BY <1>1 DEF Walked
<1>3. PICK s : IsWalk(c, q, s) /\ s[0] = y /\ s[n] = z
  BY <1>1 DEF Walked
<1> DEFINE t == [i \in 0 .. m + n |-> IF i <= m THEN r[i] ELSE s[i - m]]
<1>4. /\ Len(p \o q) = m + n
      /\ \A i \in 1 .. m : (p \o q)[i] = p[i]
      /\ \A i \in m + 1 .. m + n : (p \o q)[i] = q[i - m]
  BY <1>1, ConcatProperties
<1>5. /\ r \in [0 .. m -> Places] /\ s \in [0 .. n -> Places]
      /\ \A i \in 1 .. m : Allowed(c, r[i - 1], p[i]) /\ r[i] = After(r[i - 1], p[i])
      /\ \A i \in 1 .. n : Allowed(c, s[i - 1], q[i]) /\ s[i] = After(s[i - 1], q[i])
  BY <1>1, <1>2, <1>3 DEF IsWalk
<1>6. /\ t \in [0 .. m + n -> Places]
      /\ \A i \in 0 .. m : t[i] = r[i]
      /\ \A i \in m .. m + n : t[i] = s[i - m]
  <2>1. \A i \in 0 .. m + n : (IF i <= m THEN r[i] ELSE s[i - m]) \in Places
    <3>1. \A i \in 0 .. m + n : ~(i <= m) => i - m \in 0 .. n
      OBVIOUS
    <3> QED BY <1>5, <3>1
  <2>2. t \in [0 .. m + n -> Places] /\ \A i \in 0 .. m : t[i] = r[i]
    BY <2>1
  <2>3. t[m] = s[m - m]
    BY <1>2, <1>3, <2>2
  <2>4. \A i \in m + 1 .. m + n : t[i] = s[i - m]
    OBVIOUS
  <2> HIDE DEF t
  <2>5. ASSUME NEW i \in m .. m + n PROVE t[i] = s[i - m]
    <3>1. i = m \/ i \in m + 1 .. m + n
      OBVIOUS
    <3> QED BY <2>3, <2>4, <3>1
  <2> QED BY <2>2, <2>5
<1> HIDE DEF t
<1>7. ASSUME NEW i \in 1 .. m + n
      PROVE  /\ Allowed(c, t[i - 1], (p \o q)[i])
             /\ t[i] = After(t[i - 1], (p \o q)[i])
  <2>1. CASE i <= m
    <3>1. i \in 1 .. m /\ i - 1 \in 0 .. m /\ i \in 0 .. m
      BY <2>1
    <3>2. t[i] = r[i] /\ t[i - 1] = r[i - 1] /\ (p \o q)[i] = p[i]
      BY <1>4, <1>6, <3>1
    <3> QED BY <1>5, <3>1, <3>2
  <2>2. CASE i > m
    <3> DEFINE k == i - m
    <3>1. k \in 1 .. n /\ i \in m + 1 .. m + n /\ i \in m .. m + n
          /\ i - 1 \in m .. m + n /\ (i - 1) - m = k - 1
      BY <2>2
    <3>2. t[i] = s[k] /\ t[i - 1] = s[k - 1] /\ (p \o q)[i] = q[k]
      BY <1>4, <1>6, <3>1
    <3> HIDE DEF k
    <3> QED BY <1>5, <3>1, <3>2
  <2>3. i <= m \/ i > m
    OBVIOUS
  <2> QED BY <2>1, <2>2, <2>3
<1>8. IsWalk(c, p \o q, t)
  BY <1>4, <1>6, <1>7 DEF IsWalk
<1>9. t[0] = x /\ t[m + n] = z
  <2>1. 0 \in 0 .. m /\ m + n \in m .. m + n /\ (m + n) - m = n
    OBVIOUS
  <2> QED BY <1>2, <1>3, <1>6, <2>1
<1> QED BY <1>4, <1>8, <1>9 DEF Walked

(* A walk comes by a place between any two of its units. *)
LEMMA WalkCut ==
  ASSUME NEW c, NEW p \in Seq(AllUnits), NEW q \in Seq(AllUnits), NEW r,
         IsWalk(c, p \o q, r)
  PROVE  /\ Walked(c, p, r[0], r[Len(p)])
         /\ Walked(c, q, r[Len(p)], r[Len(p \o q)])
<1>1. PICK m \in Nat, n \in Nat : m = Len(p) /\ n = Len(q)
  BY LenProperties
<1>2. /\ Len(p \o q) = m + n
      /\ \A i \in 1 .. m : (p \o q)[i] = p[i]
      /\ \A i \in m + 1 .. m + n : (p \o q)[i] = q[i - m]
  BY <1>1, ConcatProperties
<1>3. /\ r \in [0 .. m + n -> Places]
      /\ \A i \in 1 .. m + n : /\ Allowed(c, r[i - 1], (p \o q)[i])
                               /\ r[i] = After(r[i - 1], (p \o q)[i])
  BY <1>2 DEF IsWalk
<1> DEFINE a == [i \in 0 .. m |-> r[i]]
           b == [i \in 0 .. n |-> r[i + m]]
<1>4. IsWalk(c, p, a)
  <2>1. a \in [0 .. m -> Places]
    BY <1>3
  <2>2. ASSUME NEW i \in 1 .. m
        PROVE  Allowed(c, a[i - 1], p[i]) /\ a[i] = After(a[i - 1], p[i])
    <3>1. i \in 1 .. m + n /\ i \in 0 .. m /\ i - 1 \in 0 .. m
      OBVIOUS
    <3>2. a[i] = r[i] /\ a[i - 1] = r[i - 1] /\ (p \o q)[i] = p[i]
      BY <1>2, <3>1
    <3> QED BY <1>3, <3>1, <3>2
  <2> QED BY <1>1, <2>1, <2>2 DEF IsWalk
<1>5. IsWalk(c, q, b)
  <2>1. b \in [0 .. n -> Places]
    BY <1>3
  <2>2. ASSUME NEW i \in 1 .. n
        PROVE  Allowed(c, b[i - 1], q[i]) /\ b[i] = After(b[i - 1], q[i])
    <3>1. i + m \in 1 .. m + n /\ i + m \in m + 1 .. m + n
          /\ i \in 0 .. n /\ i - 1 \in 0 .. n
          /\ (i - 1) + m = (i + m) - 1 /\ (i + m) - m = i
      OBVIOUS
    <3>2. b[i] = r[i + m] /\ b[i - 1] = r[(i + m) - 1] /\ (p \o q)[i + m] = q[i]
      BY <1>2, <3>1
    <3> QED BY <1>3, <3>1, <3>2
  <2> QED BY <1>1, <2>1, <2>2 DEF IsWalk
<1>6. a[0] = r[0] /\ a[m] = r[m] /\ b[0] = r[m] /\ b[n] = r[m + n]
  <2>1. n + m = m + n
    OBVIOUS
  <2> QED BY <2>1
<1> HIDE DEF a, b
<1> QED BY <1>1, <1>2, <1>4, <1>5, <1>6 DEF Walked

(* A header does not matter to a walk, wherever it is. *)
LEMMA HeaderPut ==
  ASSUME NEW c, NEW p \in Seq(AllUnits), NEW q \in Seq(AllUnits), NEW x, NEW y,
         Walked(c, p \o q, x, y), NEW h \in Headers
  PROVE  Walked(c, p \o <<h>> \o q, x, y)
<1>1. PICK r : IsWalk(c, p \o q, r) /\ r[0] = x /\ r[Len(p \o q)] = y
  BY DEF Walked
<1> DEFINE z == r[Len(p)]
<1>2. Walked(c, p, x, z) /\ Walked(c, q, z, y)
  BY <1>1, WalkCut
<1>3. z \in Places
  <2>1. /\ Len(p \o q) = Len(p) + Len(q) /\ Len(p) \in Nat /\ Len(q) \in Nat
    BY ConcatProperties, LenProperties
  <2>2. Len(p) \in 0 .. Len(p \o q)
    BY <2>1
  <2> QED BY <1>1, <2>2 DEF IsWalk
<1>4. h \in AllUnits /\ h.tag = "chunk"
  BY DEF AllUnits, Headers
<1>5. Walked(c, <<h>>, z, z)
  <2>1. Allowed(c, z, h) /\ After(z, h) = z
    BY <1>4 DEF Allowed, After
  <2> QED BY <1>3, <1>4, <2>1, WalkOne
<1>6. <<h>> \in Seq(AllUnits) /\ p \o <<h>> \in Seq(AllUnits)
  BY <1>4, ConcatProperties
<1> HIDE DEF z
<1>7. Walked(c, p \o <<h>>, x, z)
  BY <1>2, <1>5, <1>6, WalkJoined
<1> QED BY <1>2, <1>6, <1>7, WalkJoined

(* What may come stays so when there is damage. *)
LEMMA WalkDamaged ==
  ASSUME NEW c \in Nat, NEW d \in Nat, c <= d, NEW q, NEW x, NEW y,
         Walked(c, q, x, y)
  PROVE  Walked(d, q, x, y)
<1>1. PICK r : IsWalk(c, q, r) /\ r[0] = x /\ r[Len(q)] = y
  BY DEF Walked
<1>2. ASSUME NEW z, NEW u, Allowed(c, z, u) PROVE Allowed(d, z, u)
  <2>1. c > 0 => d > 0
    OBVIOUS
  <2>2. Numbered(c, z, 1, u.v) => Numbered(d, z, 1, u.v)
    BY <2>1, Zenon DEF Numbered
  <2> QED BY <1>2, <2>2, Zenon DEF Allowed
<1>3. IsWalk(d, q, r)
  BY <1>1, <1>2, Zenon DEF IsWalk
<1> QED BY <1>1, <1>3 DEF Walked

(* Values only become more on the way. *)
LEMMA WalkRises ==
  ASSUME NEW c, NEW q \in Seq(AllUnits), NEW x, NEW y, Walked(c, q, x, y)
  PROVE  x \in Places /\ y \in Places /\ x.v \in Nat /\ y.v \in Nat /\ x.v <= y.v
<1>1. PICK n \in Nat : n = Len(q)
  BY LenProperties
<1>2. PICK r : IsWalk(c, q, r) /\ r[0] = x /\ r[n] = y
  BY <1>1 DEF Walked
<1>3. /\ r \in [0 .. n -> Places]
      /\ \A i \in 1 .. n : Allowed(c, r[i - 1], q[i]) /\ r[i] = After(r[i - 1], q[i])
  BY <1>1, <1>2 DEF IsWalk
<1>4. \A i \in 0 .. n : r[i] \in Places /\ r[i].v \in Nat
  BY <1>3 DEF Places
<1> DEFINE S == {i \in 0 .. n : x.v <= r[i].v}
<1>5. 0 \in S
  BY <1>2, <1>4
<1>6. ASSUME NEW i \in 0 .. n, i < n, i \in S PROVE i + 1 \in S
  <2>1. i + 1 \in 1 .. n /\ i + 1 \in 0 .. n /\ (i + 1) - 1 = i
    BY <1>6
  <2>2. q[i + 1] \in AllUnits
    BY <1>1, <2>1, ElementOfSeq
  <2>3. Allowed(c, r[i], q[i + 1]) /\ r[i + 1] = After(r[i], q[i + 1])
    BY <1>3, <2>1
  <2>4. r[i].v <= r[i + 1].v
    BY <1>4, <2>2, <2>3, AfterType
  <2>5. x.v <= r[i].v
    BY <1>6
  <2>6. x.v <= r[i + 1].v
    BY <1>2, <1>4, <2>1, <2>4, <2>5
  <2> QED BY <2>1, <2>6
<1>7. 0 .. n \subseteq S
  <2> HIDE DEF S
  <2> QED BY <1>5, <1>6, UpTo
<1>8. n \in S
  BY <1>7
<1> QED BY <1>2, <1>4, <1>8

(* Values, written one after another, ... *)
LEMMA ValuesWalked ==
  ASSUME NEW c, NEW x \in Places, HasValues(x), NEW n \in 1 .. x.want,
         x.left > 0 => n <= x.left,
         NEW u \in Seq(AllUnits), Len(u) = n,
         \A i \in 1 .. n : u[i].tag = "value" /\ Numbered(c, x, i, u[i].v)
  PROVE  Walked(c, u, x, Along(x, n))
<1>1. x.want \in Nat /\ x.left \in Nat
  BY DEF Places
<1> DEFINE r == [i \in 0 .. n |-> Along(x, i)]
<1>2. r \in [0 .. n -> Places]
  <2>1. \A i \in 0 .. n : Along(x, i) \in Places
    BY <1>1, AlongTypes
  <2> QED BY <2>1
<1>3. ASSUME NEW i \in 1 .. n
      PROVE  Allowed(c, r[i - 1], u[i]) /\ r[i] = After(r[i - 1], u[i])
  <2> DEFINE m == i - 1
  <2>1. /\ m \in Nat /\ m < x.want /\ (x.left > 0 => m < x.left)
        /\ m + 1 = i /\ m \in 0 .. n /\ i \in 0 .. n
    BY <1>1
  <2>2. r[m] = Along(x, m) /\ r[i] = Along(x, i)
    BY <2>1
  <2> HIDE DEF m, r
  <2>3. /\ HasValues(Along(x, m)) /\ Along(Along(x, m), 1) = Along(x, i)
        /\ Numbered(c, Along(x, m), 1, u[i].v) <=> Numbered(c, x, i, u[i].v)
    BY <2>1, AlongAgain
  <2>4. u[i].tag = "value" /\ Numbered(c, x, i, u[i].v)
    OBVIOUS
  <2>5. Allowed(c, r[m], u[i])
    BY <2>2, <2>3, <2>4, Zenon DEF Allowed
  <2>6. r[i] = After(r[m], u[i])
    BY <2>2, <2>3, <2>4 DEF After
  <2> QED BY <2>5, <2>6 DEF m
<1>4. r[0] = x /\ r[n] = Along(x, n)
  <2>1. Along(x, 0) = x
    BY <1>1, AlongAgain
  <2> QED BY <2>1
<1> HIDE DEF r
<1>5. IsWalk(c, u, r)
  BY <1>2, <1>3 DEF IsWalk
<1> QED BY <1>4, <1>5 DEF Walked

(* ... and as they are read, of a walk that has no header there. *)
LEMMA ValuesMet ==
  ASSUME NEW c, NEW q \in Seq(AllUnits), NEW r, IsWalk(c, q, r), HasValues(r[0]),
         NEW k \in 1 .. Len(q), k <= r[0].want, r[0].left > 0 => k <= r[0].left,
         \A i \in 1 .. k : q[i].tag # "chunk"
  PROVE  /\ r[0] \in Places /\ r[k] = Along(r[0], k)
         /\ \A i \in 1 .. k : q[i].tag = "value" /\ Numbered(c, r[0], i, q[i].v)
<1> DEFINE x == r[0]
<1>1. PICK n \in Nat : n = Len(q)
  BY LenProperties
<1>2. /\ r \in [0 .. n -> Places]
      /\ \A i \in 1 .. n : Allowed(c, r[i - 1], q[i]) /\ r[i] = After(r[i - 1], q[i])
  BY <1>1 DEF IsWalk
<1>3. x \in Places /\ x.want \in Nat /\ x.left \in Nat /\ k \in Nat
  BY <1>1, <1>2 DEF Places
<1> DEFINE Met(i) == q[i + 1].tag = "value" /\ Numbered(c, x, i + 1, q[i + 1].v)
           S == {i \in 0 .. k : r[i] = Along(x, i)}
<1>4. 0 \in S
  BY <1>3, AlongAgain DEF HasValues, Places
<1>5. ASSUME NEW i \in 0 .. k, i < k, i \in S PROVE Met(i) /\ i + 1 \in S
  <2>1. /\ i \in Nat /\ i < x.want /\ (x.left > 0 => i < x.left)
        /\ i + 1 \in 1 .. k /\ i + 1 \in 1 .. n /\ i + 1 \in 0 .. k
        /\ (i + 1) - 1 = i
    BY <1>1, <1>3, <1>5
  <2>2. r[i] = Along(x, i)
    BY <1>5
  <2> HIDE DEF S
  <2>3. Allowed(c, r[i], q[i + 1]) /\ r[i + 1] = After(r[i], q[i + 1])
    BY <1>2, <2>1
  <2>4. /\ HasValues(Along(x, i)) /\ Along(Along(x, i), 1) = Along(x, i + 1)
        /\ \A v : Numbered(c, Along(x, i), 1, v) <=> Numbered(c, x, i + 1, v)
    BY <1>3, <2>1, AlongAgain
  <2>5. q[i + 1].tag # "chunk"
    BY <2>1
  <2>6. q[i + 1].tag = "value" /\ Numbered(c, r[i], 1, q[i + 1].v)
    <3>1. r[i].stage # "code"
      BY <2>2, <2>4 DEF HasValues
    <3>2. ~(r[i].stage = "block" /\ r[i].compressed /\ r[i].left = 0)
      BY <2>2, <2>4 DEF HasValues
    <3> QED BY <2>3, <2>5, <3>1, <3>2 DEF Allowed
  <2>7. Met(i)
    BY <2>2, <2>4, <2>6
  <2>8. r[i + 1] = Along(x, i + 1)
    BY <2>2, <2>3, <2>4, <2>6 DEF After
  <2> QED BY <2>1, <2>7, <2>8 DEF S
<1>6. 0 .. k \subseteq S
  <2> HIDE DEF S
  <2> QED BY <1>3, <1>4, <1>5, UpTo
<1>7. r[k] = Along(x, k)
  <2>1. k \in S
    BY <1>3, <1>6
  <2> QED BY <2>1
<1>8. ASSUME NEW i \in 1 .. k
      PROVE  q[i].tag = "value" /\ Numbered(c, x, i, q[i].v)
  <2> DEFINE m == i - 1
  <2>1. m \in 0 .. k /\ m < k /\ m + 1 = i
    BY <1>3
  <2> HIDE DEF m
  <2>2. m \in S
    BY <1>6, <2>1
  <2> HIDE DEF S
  <2>3. Met(m)
    BY <1>5, <2>1, <2>2
  <2> QED BY <2>1, <2>3
<1> QED BY <1>3, <1>7, <1>8

(* The values that are written are the next ones. *)
LEMMA ValuesNumbered ==
  ASSUME sent \in Nat, NEW n \in Nat
  PROVE  /\ \A i \in 1 .. n : Values(n)[i] = Value(sent + i)
         /\ \A i \in 1 .. n : Values(n)[i].tag = "value" /\ Values(n)[i].v = sent + i
         /\ [i \in DOMAIN Values(n) |-> Values(n)[i].v] = Numbers(sent, n)
         /\ Numbers(sent, n) \in Seq(Nat) /\ Len(Numbers(sent, n)) = n
<1>1. DOMAIN Values(n) = 1 .. n /\ \A i \in 1 .. n : Values(n)[i] = Value(sent + i)
  BY DEF Values
<1>2. \A i \in 1 .. n : Values(n)[i].tag = "value" /\ Values(n)[i].v = sent + i
  BY <1>1 DEF Value
<1>3. [i \in DOMAIN Values(n) |-> Values(n)[i].v] = Numbers(sent, n)
  BY <1>1, <1>2 DEF Numbers
<1>4. Numbers(sent, n) \in Seq(Nat) /\ Len(Numbers(sent, n)) = n
  BY DEF Numbers
<1> QED BY <1>1, <1>2, <1>3, <1>4

LEMMA FrameWalked ==
  ASSUME NEW c \in Nat, sent \in Nat, NEW w \in Nat, NEW n \in 1 .. w,
         NEW units,
         \/ units = Frame(Values(n))
         \/ units = DamagedFrame(Values(n)) /\ c > 0
  PROVE  Walked(c, units, AtBlock(sent, w, TRUE, 0), AtBlock(sent + n, w - n, TRUE, 0))
<1> DEFINE x == [v |-> sent, stage |-> "block", want |-> w, next |-> 0,
                 compressed |-> TRUE, left |-> 0]
           y == [v |-> sent, stage |-> "block", want |-> w, next |-> 0,
                 compressed |-> TRUE, left |-> n]
           h == FrameHeader(Numbers(sent, n))
<1>1. n \in Nat /\ n > 0 /\ w > 0 /\ n <= w /\ w # 0
  OBVIOUS
<1>2. /\ Values(n) \in Seq(Units) /\ Len(Values(n)) = n
      /\ Seq(Units) \subseteq Seq(AllUnits)
  BY <1>1, ValuesType, SequencesFit, TransportAssumption
<1>a. \A i \in 1 .. n : Values(n)[i].tag = "value" /\ Values(n)[i].v = sent + i
  BY <1>1, ValuesNumbered
<1>3. /\ h.tag = "frame" /\ h.size = n /\ h.checksum = Numbers(sent, n)
      /\ h \in AllUnits
  BY <1>1, ValuesNumbered DEF FrameHeader, AllUnits, Units
<1>4. AtBlock(sent, w, TRUE, 0) = x
  BY <1>1 DEF AtBlock
<1>5. x \in Places /\ y \in Places
  BY <1>1 DEF Places
<1>6. /\ y.v = sent /\ y.stage = "block" /\ y.want = w /\ y.next = 0
      /\ y.compressed /\ y.left = n
      /\ x.v = sent /\ x.stage = "block" /\ x.want = w
      /\ x.compressed /\ x.left = 0
  OBVIOUS
<1>7. AtBlock(sent, w, TRUE, n) = y
  BY <1>1 DEF AtBlock
<1>8. Along(y, n) = AtBlock(sent + n, w - n, TRUE, 0)
  <2>1. n - n = 0 /\ y.left > 0 /\ y.stage # "plain" /\ y.compressed = TRUE
    BY <1>1
  <2> HIDE DEF y
  <2> QED BY <1>6, <2>1 DEF Along
<1>9. Frame(Values(n)) = <<h>> \o Values(n)
  BY <1>1, ValuesNumbered DEF Frame
<1> HIDE DEF h, x, y
<1>10. Walked(c, <<h>>, x, y)
  <2>1. Allowed(c, x, h)
    BY <1>1, <1>3, <1>6 DEF Allowed
  <2>2. After(x, h) = y
    BY <1>3, <1>6, <1>7 DEF After
  <2> QED BY <1>3, <1>5, <2>1, <2>2, WalkOne
<1>11. HasValues(y)
  BY <1>1, <1>6 DEF HasValues
<1>12. ASSUME NEW u \in Seq(AllUnits), Len(u) = n,
              \A i \in 1 .. n : u[i].tag = "value" /\ Numbered(c, y, i, u[i].v)
       PROVE  Walked(c, <<h>> \o u, x, Along(y, n))
  <2>1. n \in 1 .. y.want /\ (y.left > 0 => n <= y.left)
    BY <1>1, <1>6
  <2>2. Walked(c, u, y, Along(y, n))
    BY <1>5, <1>11, <1>12, <2>1, ValuesWalked
  <2>3. <<h>> \in Seq(AllUnits)
    BY <1>3
  <2> QED BY <1>10, <2>2, <2>3, WalkJoined
<1>13. CASE units = Frame(Values(n))
  <2>1. ASSUME NEW i \in 1 .. n
        PROVE  Values(n)[i].tag = "value" /\ Numbered(c, y, i, Values(n)[i].v)
    <3>1. Values(n)[i].tag = "value" /\ Values(n)[i].v = y.v + i
      BY <1>a, <1>6
    <3> QED BY <3>1, Zenon DEF Numbered
  <2>2. Walked(c, <<h>> \o Values(n), x, Along(y, n))
    BY <1>2, <1>12, <2>1
  <2> QED BY <1>4, <1>8, <1>9, <1>13, <2>2
<1>14. CASE units = DamagedFrame(Values(n)) /\ c > 0
  <2> DEFINE d == <<Value(Damaged)>>
             t == Tail(Values(n))
             u == d \o t
  <2>1. /\ Value(Damaged) \in Units /\ Value(Damaged).tag = "value"
        /\ Value(Damaged).v = Damaged
    BY DEF Value, Damaged, Units
  <2>2. d \in Seq(AllUnits) /\ Len(d) = 1 /\ d[1] = Value(Damaged)
    BY <2>1 DEF AllUnits
  <2>3. Values(n) # <<>>
    BY <1>1, <1>2, EmptySeq
  <2>4. /\ t \in Seq(Units) /\ Len(t) = n - 1
        /\ \A i \in 1 .. n - 1 : t[i] = Values(n)[i + 1]
    BY <1>2, <2>3, HeadTailProperties
  <2>5. /\ u \in Seq(AllUnits) /\ Len(u) = n
        /\ u[1] = Value(Damaged)
        /\ \A i \in 2 .. n : u[i] = t[i - 1]
    <3>1. t \in Seq(AllUnits)
      BY <1>2, <2>4
    <3>2. /\ d \o t \in Seq(AllUnits) /\ Len(d \o t) = 1 + (n - 1)
          /\ \A i \in 1 .. 1 + (n - 1) :
               (d \o t)[i] = IF i <= 1 THEN d[i] ELSE t[i - 1]
      BY <2>2, <2>4, <3>1, ConcatProperties
    <3>3. 1 \in 1 .. 1 + (n - 1) /\ 1 + (n - 1) = n
      BY <1>1
    <3> QED BY <2>2, <3>2, <3>3
  <2>6. ASSUME NEW i \in 1 .. n
        PROVE  u[i].tag = "value" /\ Numbered(c, y, i, u[i].v)
    <3>1. CASE i = 1
      BY <1>1, <1>6, <1>14, <2>1, <2>5, <3>1 DEF Numbered
    <3>2. CASE i # 1
      <4>1. i \in 2 .. n /\ i - 1 \in 1 .. n - 1 /\ (i - 1) + 1 = i
        BY <3>2
      <4>2. u[i] = Values(n)[i]
        BY <2>4, <2>5, <4>1
      <4>3. Values(n)[i].tag = "value" /\ Values(n)[i].v = y.v + i
        BY <1>a, <1>6
      <4> HIDE DEF u
      <4> QED BY <4>2, <4>3, Zenon DEF Numbered
    <3> QED BY <3>1, <3>2
  <2> HIDE DEF u
  <2>7. Walked(c, <<h>> \o u, x, Along(y, n))
    BY <1>12, <2>5, <2>6
  <2>8. units = <<h>> \o u
    <3>1. Frame(Values(n))[1] = h
      <4>1. <<h>> \in Seq(AllUnits) /\ Len(<<h>>) = 1 /\ <<h>>[1] = h
        BY <1>3
      <4>2. Values(n) \in Seq(AllUnits) /\ 1 \in 1 .. 1 + n
        BY <1>2
      <4>3. \A i \in 1 .. 1 + n :
              (<<h>> \o Values(n))[i] = IF i <= 1 THEN <<h>>[i] ELSE Values(n)[i - 1]
        BY <1>2, <4>1, <4>2, ConcatProperties
      <4> QED BY <1>9, <4>1, <4>2, <4>3
    <3>2. DamagedFrame(Values(n)) = <<h, Value(Damaged)>> \o t
      BY <3>1 DEF DamagedFrame
    <3>3. <<h, Value(Damaged)>> = <<h>> \o d
      OBVIOUS
    <3>4. (<<h>> \o d) \o t = <<h>> \o (d \o t)
      <4>1. <<h>> \in Seq(AllUnits) /\ t \in Seq(AllUnits)
        BY <1>2, <1>3, <2>4
      <4> QED BY <2>2, <4>1, ConcatAssociative
    <3> QED BY <1>14, <3>2, <3>3, <3>4 DEF u
  <2> QED BY <1>4, <1>8, <2>7, <2>8
<1> QED BY <1>13, <1>14

-----------------------------------------------------------------------------
(* The writer's steps: they lengthen the walk, or do not matter to it. *)

(* ChunkedStream::flush puts two headers. *)
LEMMA PacketWalked ==
  ASSUME Fits, NEW c, NEW p \in Seq(AllUnits), NEW u \in Seq(Units),
         Len(u) <= MaxRequest, NEW x, NEW y, Walked(c, p \o u, x, y)
  PROVE  Walked(c, p \o Packet(u), x, y)
<1>1. Len(u) \in Nat /\ MaxRequest \in Nat /\ 2^SizeBits \in Nat
  BY LenProperties, TransportAssumption DEF Fits, TransportAssumption
<1>2. Len(u) \in 0 .. 2^SizeBits - 1 /\ 0 \in 0 .. 2^SizeBits - 1
  BY <1>1 DEF Fits
<1>3. Len(u) % 2^SizeBits = Len(u)
  BY <1>1, <1>2
<1> DEFINE h == ChunkHeader(Len(u))
           e == ChunkHeader(0)
<1>4. h \in Headers /\ e \in Headers
  BY <1>2 DEF ChunkHeader, Headers
<1>5. /\ <<h>> \in Seq(AllUnits) /\ <<e>> \in Seq(AllUnits)
      /\ u \in Seq(AllUnits) /\ <<>> \in Seq(AllUnits)
  <2>1. h \in AllUnits /\ e \in AllUnits
    BY <1>4 DEF AllUnits
  <2> QED BY <2>1, SequencesFit, TransportAssumption
<1>6. Packet(u) = <<h>> \o u \o <<e>>
  BY <1>3 DEF Packet
<1> HIDE DEF h, e
<1> DEFINE q == p \o <<h>> \o u
<1>7. Walked(c, q, x, y)
  BY <1>4, <1>5, HeaderPut
<1>8. q \in Seq(AllUnits) /\ <<h>> \o u \in Seq(AllUnits)
  BY <1>5, ConcatProperties
<1>9. q \o <<e>> = p \o Packet(u)
  <2>1. q = p \o (<<h>> \o u)
    BY <1>5, ConcatAssociative
  <2>2. (p \o (<<h>> \o u)) \o <<e>> = p \o ((<<h>> \o u) \o <<e>>)
    BY <1>5, <1>8, ConcatAssociative
  <2> QED BY <1>6, <2>1, <2>2
<1> HIDE DEF q
<1>10. q \o <<>> = q
  BY <1>8, ConcatEmptySeq
<1>11. Walked(c, q \o <<e>> \o <<>>, x, y)
  BY <1>4, <1>5, <1>7, <1>8, <1>10, HeaderPut
<1>12. q \o <<e>> \o <<>> = q \o <<e>>
  <2>1. q \o <<e>> \in Seq(AllUnits)
    BY <1>5, <1>8, ConcatProperties
  <2> QED BY <2>1, ConcatEmptySeq
<1> QED BY <1>9, <1>11, <1>12

(* What the reader holds does not change under it. *)
LEMMA WriterLinked ==
  ASSUME SInv, SInv', LInv, UNCHANGED <<fixed, reader>>, corrupted' >= corrupted,
         ~framed => write_buf' = <<>> /\ wire' \in Seq(Units),
         stage # "corrupt" =>
           Walked(corrupted', wire' \o write_buf', ReaderPlace, WriterPlace')
  PROVE  LInv'
<1>1. /\ UNCHANGED <<dir, framed, read_remaining, frame, buf, stage, plan, want, got>>
      /\ corrupted \in Nat /\ corrupted' \in Nat
      /\ corrupted > 0 => corrupted' > 0
  BY Constants DEF fixed, reader, SInv, WriterInv
<1>2. ReaderPlace' = ReaderPlace
  BY <1>1 DEF ReaderPlace
<1>3. HeldOK => HeldOK'
  <2>1. FrameOpen => FrameOpen'
    BY <1>1, Zenon DEF FrameOpen
  <2> QED BY <1>1, <2>1, Zenon DEF HeldOK
<1>4. stage' # "garbled" /\ got' = Numbers(0, Len(got'))
  BY <1>1 DEF LInv
<1>5. ~framed' => write_buf' = <<>> /\ wire' \in Seq(Units)
  BY <1>1
<1>6. stage' # "corrupt" =>
        HeldOK' /\ Walked(corrupted', wire' \o write_buf', ReaderPlace', WriterPlace')
  BY <1>1, <1>2, <1>3, Zenon DEF LInv
<1> QED BY <1>4, <1>5, <1>6, Zenon DEF LInv

(* The walk over all that is on the way. *)
LEMMA WriterAdds ==
  ASSUME SInv, LInv, stage # "corrupt", NEW u \in Seq(AllUnits),
         NEW d \in Nat, corrupted <= d, NEW z, Walked(d, u, WriterPlace, z)
  PROVE  /\ wire \o write_buf \in Seq(AllUnits)
         /\ Walked(d, (wire \o write_buf) \o u, ReaderPlace, z)
<1>1. /\ wire \in Seq(AllUnits) /\ write_buf \in Seq(AllUnits)
      /\ corrupted \in Nat
  BY SequencesFit, TransportAssumption, Constants DEF SInv, WireInv, WriterInv
<1>2. wire \o write_buf \in Seq(AllUnits)
  BY <1>1, ConcatProperties
<1>3. Walked(corrupted, wire \o write_buf, ReaderPlace, WriterPlace)
  BY DEF LInv
<1>4. Walked(d, wire \o write_buf, ReaderPlace, WriterPlace)
  BY <1>1, <1>3, WalkDamaged
<1> QED BY <1>2, <1>4, WalkJoined

(* ChunkedStream::write, of which all gets through. *)
LEMMA PutAdds ==
  ASSUME WritesWhole, SInv, LInv, NEW units \in Seq(Units), NEW all,
         Put(units, all)
  PROVE  /\ wire' \o write_buf' = (wire \o write_buf) \o units
         /\ ~framed => write_buf' = <<>> /\ wire' \in Seq(Units)
<1>1. /\ wire \in Seq(AllUnits) /\ write_buf \in Seq(AllUnits)
      /\ units \in Seq(AllUnits)
  BY SequencesFit, TransportAssumption DEF SInv, WireInv, WriterInv
<1>2. CASE framed
  <2>1. write_buf' = write_buf \o units /\ wire' = wire
    BY <1>2 DEF Put
  <2> QED BY <1>1, <1>2, <2>1, ConcatAssociative
<1>3. CASE ~framed
  <2>a. ~ShortWrites \/ dir = "receive"
    BY <1>3 DEF WritesWhole, SInv, FixedInv
  <2>1. \E k \in {Len(units)} :
          write_buf' = write_buf /\ wire' = wire \o SubSeq(units, 1, k)
    BY <1>3, <2>a, Zenon DEF Put
  <2>2. SubSeq(units, 1, Len(units)) = units
    BY <1>1, SubSeqFull
  <2>3. write_buf = <<>> /\ wire \in Seq(Units)
    BY <1>3 DEF LInv
  <2>4. write_buf' = <<>> /\ wire' = wire \o units
    BY <2>1, <2>2, <2>3
  <2>5. wire \o units \in Seq(Units)
    BY <2>3, ConcatProperties
  <2>6. wire \o <<>> = wire /\ (wire \o units) \o <<>> = wire \o units
    BY <2>3, <2>5, ConcatEmptySeq
  <2> QED BY <1>3, <2>3, <2>4, <2>5, <2>6
<1> QED BY <1>2, <1>3

LEMMA PutLinked ==
  ASSUME WritesWhole, SInv, SInv', LInv, UNCHANGED <<fixed, reader>>,
         corrupted' >= corrupted, NEW units \in Seq(Units), NEW all,
         Put(units, all), Walked(corrupted', units, WriterPlace, WriterPlace')
  PROVE  LInv'
<1>1. /\ wire' \o write_buf' = (wire \o write_buf) \o units
      /\ ~framed => write_buf' = <<>> /\ wire' \in Seq(Units)
  BY PutAdds
<1>2. corrupted' \in Nat /\ corrupted \in Nat /\ units \in Seq(AllUnits)
  BY Constants, SequencesFit, TransportAssumption DEF SInv, WriterInv
<1>3. ASSUME stage # "corrupt"
      PROVE  Walked(corrupted', wire' \o write_buf', ReaderPlace, WriterPlace')
  <2>1. Walked(corrupted', (wire \o write_buf) \o units, ReaderPlace, WriterPlace')
    BY <1>2, <1>3, WriterAdds
  <2> QED BY <1>1, <2>1
<1> QED BY <1>1, <1>3, WriterLinked

LEMMA PlacesOfJobs ==
  ASSUME NEW v, NEW b
  PROVE  /\ PlaceOf(<<>>, v) = AtCode(v)
         /\ PlaceOf(<<[what |-> "block", body |-> b]>>, v)
              = AtBlock(v, b.block, b.compressed, 0)
         /\ PlaceOf(<<[what |-> "plain", body |-> b], [what |-> "block", body |-> b]>>, v)
              = AtPlain(v, b.plain, b.block, b.compressed)
<1> DEFINE block == <<[what |-> "block", body |-> b]>>
           both == <<[what |-> "plain", body |-> b], [what |-> "block", body |-> b]>>
<1>1. /\ block # <<>> /\ Head(block).what = "block" /\ Head(block).body = b
      /\ both # <<>> /\ Head(both).what = "plain" /\ Head(both).body = b
  OBVIOUS
<1> HIDE DEF block, both
<1>2. PlaceOf(<<>>, v) = AtCode(v)
  BY DEF PlaceOf
<1>3. PlaceOf(block, v) = AtBlock(v, b.block, b.compressed, 0)
  BY <1>1 DEF PlaceOf
<1>4. PlaceOf(both, v) = AtPlain(v, b.plain, b.block, b.compressed)
  BY <1>1 DEF PlaceOf
<1> QED BY <1>2, <1>3, <1>4 DEF block, both

LEMMA StartPacketLinked ==
  ASSUME WritesWhole, SInv, SInv', LInv, StartPacket
  PROVE  LInv'
<1>1. PICK b \in Bodies :
        /\ job' = IF b.plain = 0 THEN <<[what |-> "block", body |-> b]>>
                  ELSE <<[what |-> "plain", body |-> b], [what |-> "block", body |-> b]>>
        /\ Put(<<Code(b)>>, FALSE)
  BY DEF StartPacket
<1>2. /\ job = <<>> /\ UNCHANGED <<fixed, reader>> /\ sent' = sent
      /\ corrupted' = corrupted /\ sent \in Nat /\ corrupted \in Nat
  BY Constants DEF StartPacket, SInv, WriterInv
<1>3. /\ Code(b) \in Units /\ Code(b).tag = "code" /\ Code(b).body = b
      /\ b.plain \in Nat
  BY TransportAssumption DEF Code, Units, TransportAssumption
<1>4. WriterPlace = AtCode(sent)
  BY <1>2, PlacesOfJobs DEF WriterPlace
<1>5. WriterPlace' = AtPlain(sent, b.plain, b.block, b.compressed)
  <2>1. CASE b.plain = 0
    <3>1. WriterPlace' = AtBlock(sent, b.block, b.compressed, 0)
      BY <1>1, <1>2, <2>1, PlacesOfJobs DEF WriterPlace
    <3> QED BY <2>1, <3>1 DEF AtPlain
  <2>2. CASE b.plain # 0
    BY <1>1, <1>2, <2>2, PlacesOfJobs DEF WriterPlace
  <2> QED BY <2>1, <2>2
<1>6. Walked(corrupted', <<Code(b)>>, WriterPlace, WriterPlace')
  <2> DEFINE x == AtCode(sent)
  <2>1. x \in Places
    BY <1>2, PlaceTypes
  <2>2. x.stage = "code" /\ x.v = sent
    BY DEF AtCode
  <2> HIDE DEF x
  <2>3. Allowed(corrupted, x, Code(b))
    BY <1>3, <2>2 DEF Allowed
  <2>4. After(x, Code(b)) = AtPlain(sent, b.plain, b.block, b.compressed)
    BY <1>3, <2>2 DEF After
  <2>5. Code(b) \in AllUnits
    BY <1>3 DEF AllUnits
  <2>6. Walked(corrupted, <<Code(b)>>, x, After(x, Code(b)))
    BY <2>1, <2>3, <2>5, WalkOne
  <2> QED BY <1>2, <1>4, <1>5, <2>4, <2>6 DEF x
<1>7. <<Code(b)>> \in Seq(Units) /\ corrupted' >= corrupted
  BY <1>2, <1>3
<1> QED BY <1>1, <1>2, <1>6, <1>7, PutLinked

(* Values that are written where a place wants them. *)
LEMMA RawWalked ==
  ASSUME NEW c, sent \in Nat, NEW n \in Nat, n > 0, NEW x \in Places,
         HasValues(x), x.v = sent, n <= x.want, x.left = 0
  PROVE  Walked(c, Values(n), x, Along(x, n))
<1>1. /\ Values(n) \in Seq(AllUnits) /\ Len(Values(n)) = n
  BY ValuesType, SequencesFit, TransportAssumption
<1>2. \A i \in 1 .. n : Values(n)[i].tag = "value" /\ Values(n)[i].v = x.v + i
  BY ValuesNumbered
<1>3. \A i \in 1 .. n : Values(n)[i].tag = "value" /\ Numbered(c, x, i, Values(n)[i].v)
  BY <1>2, Zenon DEF Numbered
<1>4. n \in 1 .. x.want /\ ~(x.left > 0)
  BY DEF Places
<1> QED BY <1>1, <1>3, <1>4, ValuesWalked

LEMMA WritePlainLinked ==
  ASSUME WritesWhole, SInv, SInv', LInv, WritePlain
  PROVE  LInv'
<1>1. PICK b \in SomeBody :
        /\ Head(job).body = b
        /\ Tail(job) = <<[what |-> "block", body |-> b]>>
        /\ job = <<[what |-> "plain", body |-> b], [what |-> "block", body |-> b]>>
  BY JobHead DEF SInv, WriterInv, WritePlain
<1>2. /\ UNCHANGED <<fixed, reader>> /\ sent' = sent + b.plain
      /\ corrupted' = corrupted /\ job' = Tail(job)
      /\ Put(Values(b.plain), FALSE)
  BY <1>1, Zenon DEF WritePlain
<1>a. corrupted \in Nat /\ sent \in Nat
  BY Constants DEF SInv, WriterInv
<1>3. /\ b.plain \in Nat /\ b.block \in Nat /\ b.block > 0 /\ b.compressed \in BOOLEAN
  BY DEF SomeBody
<1> DEFINE x == AtPlain(sent, b.plain, b.block, b.compressed)
           y == AtBlock(sent + b.plain, b.block, b.compressed, 0)
<1>4. WriterPlace = x
  BY <1>1, PlacesOfJobs DEF WriterPlace
<1>5. WriterPlace' = y
  BY <1>1, <1>2, PlacesOfJobs DEF WriterPlace
<1>6. Walked(corrupted, Values(b.plain), x, y)
  <2>1. x \in Places
    BY <1>a, <1>3, PlaceTypes
  <2>2. CASE b.plain = 0
    <3>1. Values(b.plain) = <<>>
      BY <1>a, <1>3, <2>2, ValuesType, EmptySeq
    <3>2. x = y
      BY <1>a, <2>2 DEF AtPlain
    <3> HIDE DEF x, y
    <3> QED BY <2>1, <3>1, <3>2, WalkNone
  <2>3. CASE b.plain > 0
    <3>1. /\ x.v = sent /\ x.want = b.plain /\ x.left = 0 /\ x.stage = "plain"
          /\ x.next = b.block /\ x.compressed = b.compressed
      BY <1>3, <2>3 DEF AtPlain
    <3>2. Along(x, b.plain) = y
      <4>1. b.plain - b.plain = 0
        BY <1>3
      <4> HIDE DEF x
      <4> QED BY <3>1, <4>1 DEF Along, AtPlain
    <3> HIDE DEF x, y
    <3>3. HasValues(x)
      BY <3>1 DEF HasValues
    <3> QED BY <1>a, <1>3, <2>1, <2>3, <3>1, <3>2, <3>3, RawWalked
  <2> QED BY <1>3, <2>2, <2>3
<1> HIDE DEF x, y
<1>7. Values(b.plain) \in Seq(Units) /\ corrupted' >= corrupted
  BY <1>a, <1>2, <1>3, ValuesType
<1>8. Walked(corrupted', Values(b.plain), WriterPlace, WriterPlace')
  BY <1>2, <1>4, <1>5, <1>6
<1> QED BY <1>2, <1>7, <1>8, PutLinked

LEMMA WriteRawBlockLinked ==
  ASSUME WritesWhole, SInv, SInv', LInv, WriteRawBlock
  PROVE  LInv'
<1>1. PICK b \in SomeBody :
        /\ Head(job).body = b /\ job = <<[what |-> "block", body |-> b]>>
  BY JobHead DEF SInv, WriterInv, WriteRawBlock
<1>2. /\ UNCHANGED <<fixed, reader>> /\ sent' = sent + b.block
      /\ corrupted' = corrupted /\ job' = <<>>
      /\ Put(Values(b.block), FALSE) /\ ~b.compressed
  BY <1>1, Zenon DEF WriteRawBlock
<1>a. corrupted \in Nat /\ sent \in Nat
  BY Constants DEF SInv, WriterInv
<1>3. b.block \in Nat /\ b.block > 0 /\ b.compressed = FALSE
  BY <1>2 DEF SomeBody
<1> DEFINE x == AtBlock(sent, b.block, FALSE, 0)
<1>4. WriterPlace = x
  BY <1>1, <1>3, PlacesOfJobs DEF WriterPlace
<1>5. WriterPlace' = AtCode(sent + b.block)
  BY <1>2, PlacesOfJobs DEF WriterPlace
<1>6. Walked(corrupted, Values(b.block), x, AtCode(sent + b.block))
  <2>1. x \in Places
    BY <1>a, <1>3 DEF Places, AtBlock
  <2>2. /\ x.v = sent /\ x.want = b.block /\ x.left = 0 /\ x.stage = "block"
        /\ ~x.compressed
    BY <1>3 DEF AtBlock
  <2> HIDE DEF x
  <2>3. Along(x, b.block) = AtCode(sent + b.block)
    <3>1. b.block - b.block = 0
      BY <1>3
    <3> QED BY <2>2, <3>1 DEF Along, AtBlock
  <2>4. HasValues(x)
    BY <2>2 DEF HasValues
  <2> QED BY <1>a, <1>3, <2>1, <2>2, <2>3, <2>4, RawWalked
<1> HIDE DEF x
<1>7. Values(b.block) \in Seq(Units) /\ corrupted' >= corrupted
  BY <1>a, <1>2, <1>3, ValuesType
<1>8. Walked(corrupted', Values(b.block), WriterPlace, WriterPlace')
  BY <1>2, <1>4, <1>5, <1>6
<1> QED BY <1>2, <1>7, <1>8, PutLinked

LEMMA ServerFrameLinked ==
  ASSUME WritesWhole, SInv, SInv', LInv, ServerFrame
  PROVE  LInv'
<1>1. PICK b \in SomeBody :
        /\ Head(job).body = b /\ job = <<[what |-> "block", body |-> b]>>
  BY JobHead DEF SInv, WriterInv, ServerFrame
<1>2. PICK n \in 1 .. b.block :
       /\ \E units \in {Frame(Values(n))}
                       \cup (IF corrupted < MaxCorrupt THEN {DamagedFrame(Values(n))} ELSE {}) :
            /\ Put(units, TRUE)
            /\ corrupted' = corrupted + (IF units = Frame(Values(n)) THEN 0 ELSE 1)
       /\ sent' = sent + n
       /\ job' = IF n = b.block THEN <<>>
                 ELSE <<[Head(job) EXCEPT !.body.block = @ - n]>>
  BY <1>1 DEF ServerFrame
<1>3. PICK units \in {Frame(Values(n))}
                     \cup (IF corrupted < MaxCorrupt THEN {DamagedFrame(Values(n))} ELSE {}) :
            /\ Put(units, TRUE)
            /\ corrupted' = corrupted + (IF units = Frame(Values(n)) THEN 0 ELSE 1)
  BY <1>2
<1>4. /\ b.block \in Nat /\ b.block > 0 /\ n \in Nat \ {0} /\ n <= b.block
      /\ b.compressed = TRUE
  BY <1>1 DEF SomeBody, ServerFrame
<1>5. units = Frame(Values(n)) \/ units = DamagedFrame(Values(n))
  BY <1>3
<1>6. corrupted \in Nat /\ sent \in Nat
  BY Constants DEF SInv, WriterInv
<1>7. corrupted' \in Nat /\ corrupted' >= corrupted
      /\ (units # Frame(Values(n)) => corrupted' > 0)
  BY <1>3, <1>6
<1>8. units \in Seq(Units)
  BY <1>4, <1>5, <1>6, FrameType
<1>9. WriterPlace = AtBlock(sent, b.block, TRUE, 0)
  BY <1>1, <1>4, PlacesOfJobs DEF WriterPlace
<1>10. WriterPlace' = AtBlock(sent + n, b.block - n, TRUE, 0)
  <2>1. CASE n = b.block
    <3>1. WriterPlace' = AtCode(sent + n)
      BY <1>2, <2>1, PlacesOfJobs DEF WriterPlace
    <3>2. b.block - n = 0
      BY <1>4, <2>1
    <3> QED BY <3>1, <3>2 DEF AtBlock
  <2>2. CASE n # b.block
    <3>1. Head(job) = [what |-> "block", body |-> b]
      BY <1>1
    <3> DEFINE rest == [b EXCEPT !.block = @ - n]
    <3>2. rest.block = b.block - n /\ rest.compressed = TRUE
      BY <1>4 DEF SomeBody
    <3>3. [Head(job) EXCEPT !.body.block = @ - n] = [what |-> "block", body |-> rest]
      BY <3>1
    <3>4. job' = <<[what |-> "block", body |-> rest]>>
      BY <1>2, <2>2, <3>3
    <3> HIDE DEF rest
    <3>5. PlaceOf(job', sent') = AtBlock(sent', rest.block, rest.compressed, 0)
      BY <3>4, PlacesOfJobs
    <3> QED BY <1>2, <3>2, <3>5 DEF WriterPlace
  <2> QED BY <2>1, <2>2
<1>11. Walked(corrupted', units, WriterPlace, WriterPlace')
  <2>1. \/ units = Frame(Values(n))
        \/ units = DamagedFrame(Values(n)) /\ corrupted' > 0
    BY <1>5, <1>7
  <2>2. Walked(corrupted', units, AtBlock(sent, b.block, TRUE, 0),
               AtBlock(sent + n, b.block - n, TRUE, 0))
    BY <1>4, <1>6, <1>7, <2>1, FrameWalked
  <2> QED BY <1>9, <1>10, <2>2
<1>12. UNCHANGED <<fixed, reader>>
  BY DEF ServerFrame
<1> QED BY <1>3, <1>7, <1>8, <1>11, <1>12, PutLinked

LEMMA WriteCompressedBlockLinked ==
  ASSUME Fits, SInv, SInv', LInv, WriteCompressedBlock
  PROVE  LInv'
<1>1. PICK b \in SomeBody :
        /\ Head(job).body = b /\ job = <<[what |-> "block", body |-> b]>>
  BY JobHead DEF SInv, WriterInv, WriteCompressedBlock
<1>2. /\ dir = "send" /\ b.compressed = TRUE
      /\ UNCHANGED <<fixed, reader>>
      /\ write_buf' = <<>> /\ sent' = sent + b.block /\ job' = <<>>
  BY <1>1 DEF WriteCompressedBlock, SomeBody
<1>3. PICK units \in {Frame(Values(b.block))}
                     \cup (IF corrupted < MaxCorrupt
                           THEN {DamagedFrame(Values(b.block))} ELSE {}) :
        /\ wire' = wire \o (IF framed THEN Packet(write_buf \o units) ELSE units)
        /\ corrupted' = corrupted + (IF units = Frame(Values(b.block)) THEN 0 ELSE 1)
  BY <1>1 DEF WriteCompressedBlock
<1>4. b.block \in Nat \ {0} /\ BlockSize(b) = b.block + 1
  BY <1>2 DEF SomeBody, BlockSize
<1>5. units = Frame(Values(b.block)) \/ units = DamagedFrame(Values(b.block))
  BY <1>3
<1>6. corrupted \in Nat /\ sent \in Nat
  BY Constants DEF SInv, WriterInv
<1>7. corrupted' \in Nat /\ corrupted' >= corrupted
      /\ (units # Frame(Values(b.block)) => corrupted' > 0)
  BY <1>3, <1>6
<1>8. units \in Seq(Units) /\ Len(units) = b.block + 1 /\ units \in Seq(AllUnits)
  BY <1>4, <1>5, <1>6, FrameType, SequencesFit, TransportAssumption
<1>9. /\ write_buf \in Seq(Units) /\ wire \in Seq(AllUnits)
      /\ write_buf \in Seq(AllUnits)
      /\ Len(write_buf) + OwedBy(job) <= MaxRequest
  BY <1>2, SequencesFit, TransportAssumption DEF SInv, WriterInv, WireInv
<1>10. write_buf \o units \in Seq(Units) /\ Len(write_buf \o units) <= MaxRequest
  <2>1. OwedBy(job) = b.block + 1
    BY <1>1, <1>4, JobOwed
  <2> QED BY <1>4, <1>8, <1>9, <2>1, ConcatProperties, Constants
<1>11. Walked(corrupted', units, WriterPlace, WriterPlace')
  <2>1. WriterPlace = AtBlock(sent, b.block, TRUE, 0)
    BY <1>1, <1>2, PlacesOfJobs DEF WriterPlace
  <2>2. WriterPlace' = AtBlock(sent + b.block, b.block - b.block, TRUE, 0)
    <3>1. WriterPlace' = AtCode(sent + b.block)
      BY <1>2, PlacesOfJobs DEF WriterPlace
    <3>2. b.block - b.block = 0
      BY <1>4
    <3> QED BY <3>1, <3>2 DEF AtBlock
  <2>3. \/ units = Frame(Values(b.block))
        \/ units = DamagedFrame(Values(b.block)) /\ corrupted' > 0
    BY <1>5, <1>7
  <2>4. b.block \in 1 .. b.block /\ b.block \in Nat
    BY <1>4
  <2> QED BY <1>6, <1>7, <2>1, <2>2, <2>3, <2>4, FrameWalked
<1>12. ~framed => write_buf' = <<>> /\ wire' \in Seq(Units)
  BY <1>2, <1>3, <1>8, ConcatProperties DEF LInv
<1>13. wire' \o write_buf' = wire'
  <2>1. wire' \in Seq(AllUnits)
    BY DEF SInv, WireInv
  <2> QED BY <1>2, <2>1, ConcatEmptySeq
<1>14. ASSUME stage # "corrupt"
       PROVE  Walked(corrupted', wire' \o write_buf', ReaderPlace, WriterPlace')
  <2>1. Walked(corrupted', (wire \o write_buf) \o units, ReaderPlace, WriterPlace')
    BY <1>6, <1>7, <1>8, <1>11, <1>14, WriterAdds
  <2>2. (wire \o write_buf) \o units = wire \o (write_buf \o units)
    BY <1>8, <1>9, ConcatAssociative
  <2>3. CASE framed
    <3>1. wire' = wire \o Packet(write_buf \o units)
      BY <1>3, <2>3
    <3>2. Walked(corrupted', wire \o Packet(write_buf \o units), ReaderPlace, WriterPlace')
      BY <1>9, <1>10, <2>1, <2>2, PacketWalked
    <3> QED BY <1>13, <3>1, <3>2
  <2>4. CASE ~framed
    <3>1. wire' = wire \o units /\ write_buf = <<>>
      BY <1>3, <2>4 DEF LInv
    <3>2. wire \o write_buf = wire
      BY <1>9, <3>1, ConcatEmptySeq
    <3> QED BY <1>13, <2>1, <3>1, <3>2
  <2> QED BY <2>3, <2>4
<1> QED BY <1>2, <1>7, <1>12, <1>14, WriterLinked

LEMMA FlushLinked ==
  ASSUME Fits, SInv, SInv', LInv, Flush
  PROVE  LInv'
<1>1. /\ UNCHANGED <<fixed, reader>> /\ sent' = sent /\ job' = job
      /\ corrupted' = corrupted /\ dir = "send"
      /\ wire' = IF framed /\ write_buf # <<>> THEN wire \o Packet(write_buf) ELSE wire
      /\ write_buf' = IF framed THEN <<>> ELSE write_buf
  BY DEF Flush
<1>2. /\ write_buf \in Seq(Units) /\ wire \in Seq(AllUnits)
      /\ Len(write_buf) + OwedBy(job) <= MaxRequest
      /\ corrupted \in Nat
  BY <1>1 DEF SInv, WriterInv, WireInv
<1>3. Len(write_buf) <= MaxRequest
  BY <1>2, Constants
<1>4. WriterPlace' = WriterPlace
  BY <1>1 DEF WriterPlace
<1>5. ~framed => write_buf' = <<>> /\ wire' \in Seq(Units)
  BY <1>1 DEF LInv
<1>6. ASSUME stage # "corrupt"
      PROVE  Walked(corrupted', wire' \o write_buf', ReaderPlace, WriterPlace')
  <2>1. Walked(corrupted, wire \o write_buf, ReaderPlace, WriterPlace)
    BY <1>6 DEF LInv
  <2>2. CASE framed /\ write_buf # <<>>
    <3>1. wire' = wire \o Packet(write_buf) /\ write_buf' = <<>>
      BY <1>1, <2>2
    <3>2. Walked(corrupted, wire \o Packet(write_buf), ReaderPlace, WriterPlace)
      BY <1>2, <1>3, <2>1, PacketWalked
    <3>3. wire' \o write_buf' = wire'
      <4>1. wire' \in Seq(AllUnits)
        BY DEF SInv, WireInv
      <4> QED BY <3>1, <4>1, ConcatEmptySeq
    <3> QED BY <1>1, <1>4, <3>1, <3>2, <3>3
  <2>3. CASE ~(framed /\ write_buf # <<>>)
    <3>1. wire' = wire /\ write_buf' = write_buf
      BY <1>1, <2>3
    <3> QED BY <1>1, <1>4, <2>1, <3>1
  <2> QED BY <2>2, <2>3
<1>7. corrupted' >= corrupted
  BY <1>1, <1>2
<1> QED BY <1>1, <1>5, <1>6, <1>7, WriterLinked

LEMMA ServerChunkLinked ==
  ASSUME Fits, SInv, SInv', LInv, ServerChunk
  PROVE  LInv'
<1>1. PICK k \in 1 .. Min({Len(write_buf), 2^SizeBits - 1}) :
       /\ wire' = wire \o <<ChunkHeader(k)>> \o SubSeq(write_buf, 1, k)
       /\ write_buf' = SubSeq(write_buf, k + 1, Len(write_buf))
  BY DEF ServerChunk
<1>2. k \in 1 .. Len(write_buf) /\ k \in 0 .. 2^SizeBits - 1
  BY MinOfTwo, Constants DEF Fits
<1>3. /\ framed /\ UNCHANGED <<fixed, reader>> /\ sent' = sent /\ job' = job
      /\ corrupted' = corrupted
  BY DEF ServerChunk
<1>4. write_buf \in Seq(AllUnits) /\ wire \in Seq(AllUnits) /\ corrupted \in Nat
  BY SequencesFit, TransportAssumption DEF SInv, WriterInv, WireInv
<1> DEFINE a == SubSeq(write_buf, 1, k)
           b == SubSeq(write_buf, k + 1, Len(write_buf))
           h == ChunkHeader(k)
<1>5. a \in Seq(AllUnits) /\ b \in Seq(AllUnits)
  BY <1>2, <1>4, Constants, SubSeqProperties
<1>6. a \o b = write_buf
  <2>1. /\ 1 \in 1 .. Len(write_buf) + 1 /\ k \in 1 - 1 .. Len(write_buf)
        /\ Len(write_buf) \in k .. Len(write_buf)
    BY <1>2, Constants
  <2>2. a \o b = SubSeq(write_buf, 1, Len(write_buf))
    BY <1>4, <2>1, ConcatAdjacentSubSeq
  <2> QED BY <1>4, <2>2, SubSeqFull
<1>7. h \in Headers /\ <<h>> \in Seq(AllUnits)
  <2>1. h \in Headers
    BY <1>2 DEF ChunkHeader, Headers
  <2> QED BY <2>1 DEF AllUnits
<1> HIDE DEF a, b, h
<1>8. wire' \o write_buf' = wire \o <<h>> \o write_buf
  <2>1. wire \o <<h>> \in Seq(AllUnits)
    BY <1>4, <1>7, ConcatProperties
  <2>2. ((wire \o <<h>>) \o a) \o b = (wire \o <<h>>) \o (a \o b)
    BY <1>5, <2>1, ConcatAssociative
  <2> QED BY <1>1, <1>6, <2>2 DEF a, b, h
<1>9. ASSUME stage # "corrupt"
      PROVE  Walked(corrupted', wire' \o write_buf', ReaderPlace, WriterPlace')
  <2>1. Walked(corrupted, wire \o write_buf, ReaderPlace, WriterPlace)
    BY <1>9 DEF LInv
  <2>2. Walked(corrupted, wire \o <<h>> \o write_buf, ReaderPlace, WriterPlace)
    BY <1>4, <1>7, <2>1, HeaderPut
  <2>3. WriterPlace' = WriterPlace
    BY <1>3 DEF WriterPlace
  <2> QED BY <1>3, <1>8, <2>2, <2>3
<1>10. corrupted' >= corrupted
  BY <1>3, <1>4
<1> QED BY <1>3, <1>9, <1>10, WriterLinked

LEMMA ServerFlushLinked ==
  ASSUME Fits, SInv, SInv', LInv, ServerFlush
  PROVE  LInv'
<1>1. /\ UNCHANGED <<fixed, reader>> /\ sent' = sent /\ job' = job
      /\ corrupted' = corrupted /\ write_buf' = write_buf /\ write_buf = <<>>
      /\ wire' = IF framed THEN Append(wire, ChunkHeader(0)) ELSE wire
  BY DEF ServerFlush
<1>2. wire \in Seq(AllUnits) /\ corrupted \in Nat
  BY DEF SInv, WriterInv, WireInv
<1> DEFINE h == ChunkHeader(0)
<1>3. h \in Headers /\ <<h>> \in Seq(AllUnits) /\ h \in AllUnits
  <2>1. h \in Headers
    BY Constants DEF ChunkHeader, Headers, Fits
  <2> QED BY <2>1 DEF AllUnits
<1>4. ~framed => write_buf' = <<>> /\ wire' \in Seq(Units)
  BY <1>1 DEF LInv
<1>5. ASSUME stage # "corrupt"
      PROVE  Walked(corrupted', wire' \o write_buf', ReaderPlace, WriterPlace')
  <2>1. Walked(corrupted, wire \o <<>>, ReaderPlace, WriterPlace)
    BY <1>1, <1>5 DEF LInv
  <2>2. WriterPlace' = WriterPlace
    BY <1>1 DEF WriterPlace
  <2>3. CASE framed
    <3> HIDE DEF h
    <3>1. Walked(corrupted, wire \o <<h>> \o <<>>, ReaderPlace, WriterPlace)
      <4>1. <<>> \in Seq(AllUnits)
        OBVIOUS
      <4> QED BY <1>2, <1>3, <2>1, <4>1, HeaderPut
    <3>2. wire' = wire \o <<h>>
      BY <1>1, <1>2, <1>3, <2>3, AppendIsConcat DEF h
    <3> QED BY <1>1, <2>2, <3>1, <3>2
  <2>4. CASE ~framed
    BY <1>1, <2>1, <2>2, <2>4
  <2> QED BY <2>3, <2>4
<1>6. corrupted' >= corrupted
  BY <1>1, <1>2
<1> QED BY <1>1, <1>4, <1>5, <1>6, WriterLinked

-----------------------------------------------------------------------------
(* The reader's steps: they go some way along the walk. *)

LEMMA NumbersJoined ==
  ASSUME NEW a \in Nat, NEW m \in Nat, NEW n \in Nat
  PROVE  /\ Numbers(a, m) \in Seq(Nat) /\ Len(Numbers(a, m)) = m
         /\ Numbers(a, m) \o Numbers(a + m, n) = Numbers(a, m + n)
<1>1. \A b, k \in Nat : /\ Numbers(b, k) \in Seq(Nat) /\ Len(Numbers(b, k)) = k
                        /\ \A i \in 1 .. k : Numbers(b, k)[i] = b + i
  BY DEF Numbers
<1>a. a + m \in Nat /\ m + n \in Nat
  OBVIOUS
<1> DEFINE s == Numbers(a, m)
           t == Numbers(a + m, n)
           w == Numbers(a, m + n)
<1>2. /\ s \in Seq(Nat) /\ Len(s) = m /\ \A i \in 1 .. m : s[i] = a + i
      /\ t \in Seq(Nat) /\ Len(t) = n /\ \A i \in 1 .. n : t[i] = a + m + i
      /\ w \in Seq(Nat) /\ Len(w) = m + n /\ \A i \in 1 .. m + n : w[i] = a + i
  BY <1>1, <1>a
<1> HIDE DEF s, t, w
<1>3. /\ s \o t \in Seq(Nat) /\ Len(s \o t) = m + n
      /\ \A i \in 1 .. m + n : (s \o t)[i] = IF i <= m THEN s[i] ELSE t[i - m]
  BY <1>2, ConcatProperties
<1>4. ASSUME NEW i \in 1 .. m + n PROVE (s \o t)[i] = w[i]
  <2>1. CASE i <= m
    BY <1>2, <1>3, <2>1
  <2>2. CASE i > m
    <3>1. i - m \in 1 .. n /\ a + m + (i - m) = a + i
      BY <2>2
    <3>2. (s \o t)[i] = t[i - m] /\ w[i] = a + i
      BY <1>2, <1>3, <2>2
    <3>3. t[i - m] = a + m + (i - m)
      BY <1>2, <3>1
    <3> QED BY <3>1, <3>2, <3>3
  <2>3. i <= m \/ i > m
    OBVIOUS
  <2> QED BY <2>1, <2>2, <2>3
<1>5. s \o t = w
  <2>1. Len(s \o t) = Len(w)
    BY <1>2, <1>3
  <2> QED BY <1>2, <1>3, <1>4, <2>1, SeqEqual
<1> QED BY <1>2, <1>5 DEF s, t, w

(* Where a step of the reader leads. *)
Leads(y) ==
  /\ stage' # "garbled" /\ got' = Numbers(0, Len(got'))
  /\ stage' # "corrupt" => HeldOK' /\ ReaderPlace' = y

LEMMA ReaderLinked ==
  ASSUME SInv, UNCHANGED <<fixed, writer>>, NEW y, Leads(y),
         ~framed => write_buf = <<>> /\ wire' \in Seq(Units),
         Walked(corrupted, wire' \o write_buf, y, WriterPlace)
  PROVE  LInv'
<1>1. UNCHANGED <<framed, job, sent, write_buf, corrupted>>
  BY DEF fixed, writer
<1>2. WriterPlace' = WriterPlace
  BY <1>1 DEF WriterPlace
<1>3. Walked(corrupted', wire' \o write_buf', y, WriterPlace')
  BY <1>1, <1>2
<1>4. ~framed' => write_buf' = <<>> /\ wire' \in Seq(Units)
  BY <1>1
<1> QED BY <1>3, <1>4, Zenon DEF LInv, Leads

(* Some units at the beginning of what is on the way. *)
LEMMA WalkAhead ==
  ASSUME NEW c, NEW a \in Seq(AllUnits), NEW b \in Seq(AllUnits),
         NEW d \in Seq(AllUnits), NEW x, NEW y, Walked(c, (a \o b) \o d, x, y)
  PROVE  \E r : /\ IsWalk(c, a, r) /\ r[0] = x
                /\ Walked(c, b \o d, r[Len(a)], y)
<1>1. (a \o b) \o d = a \o (b \o d) /\ b \o d \in Seq(AllUnits)
  BY ConcatAssociative, ConcatProperties
<1> DEFINE q == a \o (b \o d)
<1>2. PICK s : IsWalk(c, q, s) /\ s[0] = x /\ s[Len(q)] = y
  BY <1>1 DEF Walked
<1>3. Walked(c, a, s[0], s[Len(a)]) /\ Walked(c, b \o d, s[Len(a)], s[Len(q)])
  BY <1>1, <1>2, WalkCut
<1> HIDE DEF q
<1>4. PICK r : IsWalk(c, a, r) /\ r[0] = s[0] /\ r[Len(a)] = s[Len(a)]
  BY <1>3 DEF Walked
<1> QED BY <1>2, <1>3, <1>4

(* A read takes units from the wire, but no header, ... *)
LEMMA ReadCut ==
  ASSUME SInv, LInv, NEW k \in 1 .. Available
  PROVE  LET u == SubSeq(wire, 1, k)
             rest == SubSeq(wire, k + 1, Len(wire)) IN
         /\ k \in Nat \ {0} /\ k <= Asked
         /\ u \in Seq(AllUnits) /\ Len(u) = k /\ rest \in Seq(AllUnits)
         /\ u \o rest = wire
         /\ \A i \in 1 .. k : u[i].tag # "chunk"
         /\ ~framed => write_buf = <<>> /\ rest \in Seq(Units)
<1> DEFINE u == SubSeq(wire, 1, k)
           rest == SubSeq(wire, k + 1, Len(wire))
<1>1. k \in Nat \ {0} /\ k <= Asked /\ k <= Len(wire)
      /\ (framed => k <= read_remaining)
  BY ReadBounded
<1>2. wire \in Seq(AllUnits) /\ Len(wire) \in Nat
  BY LenProperties DEF SInv, WireInv
<1>3. /\ u \in Seq(AllUnits) /\ Len(u) = k /\ rest \in Seq(AllUnits)
      /\ \A i \in 1 .. k : u[i] = wire[i]
  BY <1>1, <1>2, SubSeqProperties
<1>4. u \o rest = wire
  <2>1. /\ 1 \in 1 .. Len(wire) + 1 /\ k \in 1 - 1 .. Len(wire)
        /\ Len(wire) \in k .. Len(wire)
    BY <1>1, <1>2
  <2>2. u \o rest = SubSeq(wire, 1, Len(wire))
    BY <1>2, <2>1, ConcatAdjacentSubSeq
  <2> QED BY <1>2, <2>2, SubSeqFull
<1>5. ASSUME ~framed PROVE write_buf = <<>> /\ rest \in Seq(Units)
  <2>1. write_buf = <<>> /\ wire \in Seq(Units)
    BY <1>5 DEF LInv
  <2>2. k + 1 \in 1 .. Len(wire) + 1
    BY <1>1, <1>2
  <2> QED BY <1>2, <2>1, <2>2, SubSeqProperties
<1> HIDE DEF u, rest
<1>6. \A i \in 1 .. k : u[i].tag # "chunk"
  <2>1. CASE framed
    <3>1. \A j \in 1 .. read_remaining : wire[j].tag # "chunk"
      BY <2>1 DEF SInv, WireInv, Chunked, RestFirst
    <3>2. \A i \in 1 .. k : i \in 1 .. read_remaining
      BY <1>1, <2>1, Constants
    <3> QED BY <1>3, <3>1, <3>2
  <2>2. CASE ~framed
    <3>1. wire \in Seq(Units)
      BY <2>2 DEF LInv
    <3>2. \A i \in 1 .. k : wire[i] \in Units
      BY <1>1, <1>2, <3>1, ElementOfSeq
    <3> QED BY <1>3, <3>2, UnitTags
  <2> QED BY <2>1, <2>2
<1> QED BY <1>1, <1>3, <1>4, <1>5, <1>6 DEF u, rest

(* ... and they are the beginning of the walk. *)
LEMMA ReadMet ==
  ASSUME SInv, LInv, stage # "corrupt", NEW k \in 1 .. Available
  PROVE  LET u == SubSeq(wire, 1, k)
             rest == SubSeq(wire, k + 1, Len(wire)) IN
         \E r : /\ IsWalk(corrupted, u, r) /\ r[0] = ReaderPlace
                /\ Walked(corrupted, rest \o write_buf, r[k], WriterPlace)
<1> DEFINE u == SubSeq(wire, 1, k)
           rest == SubSeq(wire, k + 1, Len(wire))
<1>1. /\ u \in Seq(AllUnits) /\ Len(u) = k /\ rest \in Seq(AllUnits)
      /\ write_buf \in Seq(AllUnits)
  BY ReadCut, SequencesFit, TransportAssumption DEF SInv, WriterInv
<1>2. Walked(corrupted, (u \o rest) \o write_buf, ReaderPlace, WriterPlace)
  BY ReadCut DEF LInv
<1> HIDE DEF u, rest
<1>3. \E r : /\ IsWalk(corrupted, u, r) /\ r[0] = ReaderPlace
             /\ Walked(corrupted, rest \o write_buf, r[Len(u)], WriterPlace)
  BY <1>1, <1>2, WalkAhead
<1> QED BY <1>1, <1>3 DEF u, rest

(* Where there is no frame and nothing is left of one. *)
LEMMA NothingHeld ==
  ASSUME SInv, HeldOK, ~Decompresses
  PROVE  frame = NoFrame /\ ~frame.open /\ buf = <<>>
<1>1. ~(stage = "block" /\ plan.compressed)
  BY DEF Decompresses
<1>2. ~frame.open
  BY <1>1, Zenon DEF HeldOK, FrameOpen
<1> QED BY <1>1, <1>2, Zenon DEF HeldOK

LEMMA CodeRead ==
  ASSUME SInv, LInv, stage = "code", NEW u \in Seq(AllUnits),
         Len(u) # 0, Len(u) <= Asked,
         \A i \in 1 .. Len(u) : u[i].tag # "chunk",
         NEW r, IsWalk(corrupted, u, r), r[0] = ReaderPlace
  PROVE  /\ \A i \in 1 .. Len(u) : u[i].tag = "code"
         /\ TakeCode(u) => Leads(r[Len(u)])
<1> DEFINE k == Len(u)
<1>0. k \in Nat /\ k > 0 /\ k \in Nat \ {0}
  BY LenProperties
<1>1. k = 1 /\ ~Decompresses
  <2>1. Asked = 1 /\ ~Decompresses
    BY DEF Asked, Decompresses
  <2>2. k <= Asked
    OBVIOUS
  <2> HIDE DEF k
  <2> QED BY <1>0, <2>1, <2>2
<1>2. HeldOK
  BY DEF LInv
<1>3. frame = NoFrame /\ buf = <<>>
  BY <1>1, <1>2, NothingHeld
<1>4. ReaderPlace = AtCode(Len(got)) /\ Len(got) \in Nat
  BY LenProperties DEF ReaderPlace, SInv, ReaderInv
<1>5. /\ ReaderPlace.stage = "code" /\ ReaderPlace.v = Len(got)
  BY <1>4 DEF AtCode
<1>6. /\ Allowed(corrupted, ReaderPlace, u[1]) /\ r[1] = After(ReaderPlace, u[1])
      /\ u[1].tag # "chunk" /\ u[1] \in AllUnits
  <2>1. 1 \in 1 .. 1 /\ 1 - 1 = 0
    OBVIOUS
  <2> QED BY <1>1, <2>1, ElementOfSeq DEF IsWalk
<1>7. u[1].tag = "code"
  BY <1>5, <1>6, Zenon DEF Allowed, HasValues
<1>8. u[1].body \in Bodies /\ u[1].body.plain \in Nat /\ u[1].body.block \in Nat
      /\ u[1].body.block > 0 /\ u[1].body.compressed \in BOOLEAN
  <2>1. u[1].body \in Bodies
    BY <1>6, <1>7 DEF AllUnits, Units, Headers
  <2> QED BY <2>1, TransportAssumption DEF TransportAssumption
<1> DEFINE b == u[1].body
<1>9. r[1] = AtPlain(Len(got), b.plain, b.block, b.compressed)
  BY <1>5, <1>6, <1>7 DEF After
<1>10. ASSUME TakeCode(u) PROVE Leads(r[1])
  <2>1. /\ plan' = b /\ frame' = NoFrame /\ buf' = <<>> /\ got' = got
        /\ IF b.plain > 0 THEN stage' = "plain" /\ want' = b.plain
           ELSE stage' = "block" /\ want' = b.block
    BY <1>3, <1>10 DEF TakeCode
  <2>2. ~NoFrame.open /\ NoFrame.body = <<>> /\ Len(<<>>) = 0
    BY DEF NoFrame
  <2>3. HeldOK'
    <3>1. ~frame'.open /\ buf' = Numbers(Len(got'), Len(buf'))
      BY <2>1, <2>2 DEF Numbers
    <3>2. IF stage' = "code" THEN want' = 0 ELSE want' > 0 /\ plan' \in Bodies
      BY <1>8, <2>1
    <3>3. Len(buf') <= want'
      BY <1>8, <2>1, <2>2
    <3> QED BY <2>1, <3>1, <3>2, <3>3, Zenon DEF HeldOK
  <2>4. ReaderPlace' = r[1]
    <3>1. CASE b.plain > 0
      <4>1. stage' = "plain" /\ want' = b.plain
        BY <2>1, <3>1
      <4>2. ReaderPlace' = AtPlain(Len(got), b.plain, b.block, b.compressed)
        BY <2>1, <4>1 DEF ReaderPlace
      <4> QED BY <1>9, <4>2
    <3>2. CASE b.plain = 0
      <4>1. stage' = "block" /\ want' = b.block
        BY <2>1, <3>2
      <4>2. ReaderPlace' = AtBlock(Len(got) + 0 + 0, b.block - 0 - 0, b.compressed, 0)
        BY <2>1, <2>2, <4>1 DEF ReaderPlace
      <4>3. Len(got) + 0 + 0 = Len(got) /\ b.block - 0 - 0 = b.block
        BY <1>4, <1>8
      <4>4. AtPlain(Len(got), b.plain, b.block, b.compressed)
              = AtBlock(Len(got), b.block, b.compressed, 0)
        BY <3>2 DEF AtPlain
      <4> QED BY <1>9, <4>2, <4>3, <4>4
    <3> QED BY <1>8, <3>1, <3>2
  <2>5. stage' # "garbled" /\ got' = Numbers(0, Len(got'))
    BY <2>1 DEF LInv
  <2> QED BY <2>3, <2>4, <2>5 DEF Leads
<1>11. \A i \in 1 .. k : u[i].tag = "code"
  <2>1. \A i \in 1 .. k : i = 1
    BY <1>1
  <2> QED BY <1>7, <2>1
<1> QED BY <1>1, <1>10, <1>11

(* The values of a read, as numbers. *)
LEMMA NumbersRead ==
  ASSUME NEW a \in Nat, NEW u \in Seq(AllUnits),
         \A i \in 1 .. Len(u) : u[i].v = a + i
  PROVE  [i \in DOMAIN u |-> u[i].v] = Numbers(a, Len(u))
<1>1. DOMAIN u = 1 .. Len(u)
  BY LenProperties
<1> QED BY <1>1 DEF Numbers

LEMMA RawRead ==
  ASSUME SInv, LInv, stage \in {"plain", "block"}, ~Decompresses,
         NEW u \in Seq(AllUnits),
         Len(u) # 0, Len(u) <= Asked,
         \A i \in 1 .. Len(u) : u[i].tag # "chunk",
         NEW r, IsWalk(corrupted, u, r), r[0] = ReaderPlace
  PROVE  /\ \A i \in 1 .. Len(u) : u[i].tag = "value"
         /\ TakeValues(u) => Leads(r[Len(u)]) /\ Len(got') >= Len(got)
<1> DEFINE k == Len(u)
<1>0. k \in Nat /\ k > 0 /\ k \in Nat \ {0}
  BY LenProperties
<1>1. k <= want
  BY DEF Asked
<1>2. HeldOK
  BY DEF LInv
<1>3. frame = NoFrame /\ ~frame.open /\ buf = <<>>
  BY <1>2, NothingHeld
<1>4. /\ want \in Nat /\ want > 0 /\ plan \in Bodies /\ Len(got) \in Nat
      /\ plan.block \in Nat /\ plan.block > 0 /\ plan.compressed \in BOOLEAN
      /\ stage = "block" => ~plan.compressed
  <2>1. want > 0 /\ plan \in Bodies
    BY <1>2 DEF HeldOK
  <2>2. want \in Nat /\ Len(got) \in Nat
    BY LenProperties DEF SInv, ReaderInv
  <2> QED BY <2>1, <2>2, TransportAssumption DEF TransportAssumption, Decompresses
<1>5. NoFrame.body = <<>> /\ Len(<<>>) = 0 /\ ~NoFrame.open
  BY DEF NoFrame
<1> DEFINE x == r[0]
           g == Len(got)
<1>6. /\ x.v = g /\ x.want = want /\ x.left = 0 /\ HasValues(x)
      /\ stage = "plain" => x = AtPlain(g, want, plan.block, plan.compressed)
      /\ stage = "block" => x = AtBlock(g, want, plan.compressed, 0)
  <2>1. CASE stage = "plain"
    <3>1. x = AtPlain(g, want, plan.block, plan.compressed)
      BY <2>1 DEF ReaderPlace
    <3> HIDE DEF x
    <3>2. x.v = g /\ x.want = want /\ x.left = 0 /\ x.stage = "plain"
      BY <1>4, <3>1 DEF AtPlain
    <3> QED BY <2>1, <3>1, <3>2 DEF HasValues
  <2>2. CASE stage = "block"
    <3>1. x = AtBlock(g + 0 + 0, want - 0 - 0, plan.compressed, 0)
      BY <1>3, <1>5, <2>2 DEF ReaderPlace
    <3>2. g + 0 + 0 = g /\ want - 0 - 0 = want
      BY <1>4
    <3> HIDE DEF x
    <3>3. x.v = g /\ x.want = want /\ x.left = 0 /\ x.stage = "block"
          /\ x.compressed = plan.compressed
      BY <1>4, <3>1, <3>2 DEF AtBlock
    <3> QED BY <1>4, <2>2, <3>1, <3>2, <3>3 DEF HasValues
  <2> QED BY <2>1, <2>2
<1> HIDE DEF x
<1>a. k \in 1 .. Len(u) /\ k <= x.want
  BY <1>0, <1>1, <1>6
<1>7. /\ x \in Places /\ r[k] = Along(x, k)
      /\ \A i \in 1 .. k : u[i].tag = "value" /\ Numbered(corrupted, x, i, u[i].v)
  <2>1. k \in 1 .. Len(u) /\ (x.left > 0 => k <= x.left) /\ k <= x.want
    BY <1>a, <1>6
  <2>2. HasValues(x)
    BY <1>6
  <2> QED BY <2>1, <2>2, ValuesMet DEF x
<1>8. \A i \in 1 .. k : u[i].v = g + i
  <2>1. ~(x.left > 0)
    BY <1>6
  <2>2. \A i \in 1 .. k : u[i].v = x.v + i
    BY <1>7, <2>1, Zenon DEF Numbered
  <2> QED BY <1>6, <2>2
<1>b. [i \in DOMAIN u |-> u[i].v] = Numbers(g, k)
  BY <1>0, <1>4, <1>8, NumbersRead
<1>9. ASSUME TakeValues(u) PROVE Leads(r[k]) /\ Len(got') >= g
  <2>1. /\ got' = got \o [i \in DOMAIN u |-> u[i].v]
        /\ IF want > k THEN want' = want - k /\ stage' = stage
           ELSE IF stage = "plain" THEN stage' = "block" /\ want' = plan.block
           ELSE stage' = "code" /\ want' = 0
        /\ frame' = frame /\ buf' = buf /\ plan' = plan
    BY <1>9 DEF TakeValues, EnterBlock, EnterCode
  <2>2. got' = Numbers(0, g + k) /\ Len(got') = g + k
    <3>1. got' = Numbers(0, g) \o Numbers(g, k)
      BY <1>b, <2>1 DEF LInv
    <3>a. g \in Nat /\ k \in Nat /\ g + k \in Nat /\ 0 \in Nat /\ 0 + g = g
      BY <1>0, <1>4
    <3> HIDE DEF g, k
    <3>2. Numbers(0, g) \o Numbers(0 + g, k) = Numbers(0, g + k)
      BY <3>a, NumbersJoined
    <3>3. Len(Numbers(0, g + k)) = g + k
      BY <3>a, NumbersJoined
    <3> QED BY <3>1, <3>a, <3>2, <3>3
  <2>3. HeldOK'
    <3>1. ~frame'.open /\ frame' = NoFrame /\ buf' = Numbers(Len(got'), Len(buf'))
          /\ buf' = <<>> /\ Len(buf') = 0
      BY <1>3, <1>5, <2>1 DEF Numbers
    <3>2. IF stage' = "code" THEN want' = 0 ELSE want' > 0 /\ plan' \in Bodies
      BY <1>1, <1>4, <2>1
    <3>3. want' >= 0
      BY <1>4, <2>1
    <3> QED BY <3>1, <3>2, <3>3, Zenon DEF HeldOK
  <2>4. ReaderPlace' = Along(x, k)
    <3>1. CASE stage = "plain"
      <4>1. x.stage = "plain" /\ x.next = plan.block /\ x.compressed = plan.compressed
        BY <1>4, <1>6, <3>1 DEF AtPlain
      <4>2. Along(x, k) = AtPlain(g + k, want - k, plan.block, plan.compressed)
        BY <1>6, <4>1 DEF Along
      <4>3. CASE want > k
        <5>1. stage' = "plain" /\ want' = want - k
          BY <2>1, <3>1, <4>3
        <5>2. ReaderPlace' = AtPlain(g + k, want - k, plan.block, plan.compressed)
          BY <2>1, <2>2, <5>1 DEF ReaderPlace
        <5> QED BY <4>2, <5>2
      <4>4. CASE want = k
        <5>1. stage' = "block" /\ want' = plan.block
          BY <1>4, <2>1, <3>1, <4>4
        <5>2. ReaderPlace' = AtBlock(g + k + 0 + 0, plan.block - 0 - 0, plan.compressed, 0)
          BY <1>3, <1>5, <2>1, <2>2, <5>1 DEF ReaderPlace
        <5>3. g + k + 0 + 0 = g + k /\ plan.block - 0 - 0 = plan.block /\ want - k = 0
          BY <1>4, <4>4
        <5>4. Along(x, k) = AtBlock(g + k, plan.block, plan.compressed, 0)
          BY <4>2, <5>3 DEF AtPlain
        <5> QED BY <5>2, <5>3, <5>4
      <4> QED BY <1>1, <1>4, <4>3, <4>4
    <3>2. CASE stage = "block"
      <4>1. x.stage = "block" /\ x.compressed = plan.compressed
        BY <1>4, <1>6, <3>2 DEF AtBlock
      <4>2. Along(x, k) = AtBlock(g + k, want - k, plan.compressed, 0)
        BY <1>6, <4>1 DEF Along
      <4>3. CASE want > k
        <5>1. stage' = "block" /\ want' = want - k
          BY <2>1, <3>2, <4>3
        <5>2. ReaderPlace' = AtBlock(g + k + 0 + 0, want - k - 0 - 0, plan.compressed, 0)
          BY <1>3, <1>5, <2>1, <2>2, <5>1 DEF ReaderPlace
        <5>3. g + k + 0 + 0 = g + k /\ want - k - 0 - 0 = want - k
          BY <1>4
        <5> QED BY <4>2, <5>2, <5>3
      <4>4. CASE want = k
        <5>1. stage' = "code" /\ want' = 0
          BY <1>4, <2>1, <3>2, <4>4
        <5>2. ReaderPlace' = AtCode(g + k)
          BY <2>2, <5>1 DEF ReaderPlace
        <5>3. want - k = 0
          BY <1>4, <4>4
        <5> QED BY <4>2, <5>2, <5>3 DEF AtBlock
      <4> QED BY <1>1, <1>4, <4>3, <4>4
    <3> QED BY <3>1, <3>2
  <2>5. stage' # "garbled" /\ got' = Numbers(0, Len(got'))
    <3>1. stage' # "garbled"
      BY <2>1
    <3> QED BY <2>2, <3>1
  <2>6. Len(got') >= g
    BY <1>0, <1>4, <2>2
  <2> QED BY <1>7, <2>3, <2>4, <2>5, <2>6 DEF Leads
<1> QED BY <1>7, <1>9

LEMMA FrameHeaderRead ==
  ASSUME SInv, LInv, Decompresses, ~frame.open, NEW u \in Seq(AllUnits),
         Len(u) # 0, Len(u) <= Asked,
         \A i \in 1 .. Len(u) : u[i].tag # "chunk",
         NEW r, IsWalk(corrupted, u, r), r[0] = ReaderPlace
  PROVE  /\ \A i \in 1 .. Len(u) : u[i].tag = "frame"
         /\ TakeFrameHeader(u) => Leads(r[Len(u)])
<1> DEFINE k == Len(u)
<1>0. k \in Nat /\ k > 0 /\ k \in Nat \ {0}
  BY LenProperties
<1>1. stage = "block" /\ plan.compressed
  BY DEF Decompresses
<1>2. HeldOK
  BY <1>1 DEF LInv
<1>3. k = 1 /\ buf = <<>>
  <2>1. Asked = IF buf = <<>> THEN 1 ELSE 0
    BY <1>1 DEF Asked
  <2>2. k <= Asked
    OBVIOUS
  <2> HIDE DEF k
  <2> QED BY <1>0, <2>1, <2>2
<1>4. /\ want \in Nat /\ want > 0 /\ plan \in Bodies /\ Len(got) \in Nat
      /\ plan.compressed = TRUE
  <2>1. want > 0 /\ plan \in Bodies
    BY <1>1, <1>2 DEF HeldOK
  <2>2. want \in Nat /\ Len(got) \in Nat
    BY LenProperties DEF SInv, ReaderInv
  <2> QED BY <1>1, <2>1, <2>2, TransportAssumption DEF TransportAssumption
<1>5. frame = NoFrame /\ NoFrame.body = <<>> /\ Len(<<>>) = 0
  BY <1>2 DEF HeldOK, NoFrame
<1> DEFINE x == ReaderPlace
           g == Len(got)
<1>6. x = AtBlock(g, want, TRUE, 0)
  <2>1. x = AtBlock(g + 0 + 0, want - 0 - 0, TRUE, 0)
    BY <1>1, <1>3, <1>4, <1>5 DEF ReaderPlace
  <2>2. g + 0 + 0 = g /\ want - 0 - 0 = want
    BY <1>4
  <2> QED BY <2>1, <2>2
<1> HIDE DEF x
<1>7. /\ x.v = g /\ x.want = want /\ x.left = 0 /\ x.stage = "block"
      /\ x.compressed
  BY <1>4, <1>6 DEF AtBlock
<1>8. /\ Allowed(corrupted, x, u[1]) /\ r[1] = After(x, u[1])
      /\ u[1].tag # "chunk"
  <2>1. 1 \in 1 .. 1 /\ 1 - 1 = 0
    OBVIOUS
  <2> QED BY <1>3, <2>1 DEF IsWalk, x
<1>9. /\ u[1].tag = "frame" /\ u[1].size \in 1 .. want
      /\ u[1].checksum = Numbers(g, u[1].size)
  <2>1. ~HasValues(x)
    BY <1>7 DEF HasValues
  <2>2. u[1].tag = "frame"
    BY <1>7, <1>8, <2>1 DEF Allowed
  <2> QED BY <1>7, <1>8, <2>2 DEF Allowed
<1>10. r[1] = AtBlock(g, want, TRUE, u[1].size)
  BY <1>7, <1>8, <1>9 DEF After
<1>11. ASSUME TakeFrameHeader(u) PROVE Leads(r[1])
  <2>1. /\ frame' = [size |-> u[1].size, checksum |-> u[1].checksum,
                     body |-> <<>>, open |-> TRUE]
        /\ UNCHANGED <<buf, stage, plan, want, got>>
    BY <1>11 DEF TakeFrameHeader
  <2>2. /\ frame'.open /\ frame'.size = u[1].size /\ frame'.body = <<>>
        /\ frame'.checksum = u[1].checksum /\ Len(frame'.body) = 0
    BY <1>5, <2>1
  <2>3. FrameOpen'
    BY <1>1, <1>3, <1>4, <1>9, <2>1, <2>2 DEF FrameOpen
  <2>4. HeldOK'
    <3>1. buf' = Numbers(Len(got'), Len(buf')) /\ Len(buf') <= want' /\ buf' = <<>>
      BY <1>3, <1>4, <1>5, <2>1 DEF Numbers
    <3>2. stage' = "block" /\ want' > 0 /\ plan' \in Bodies
      BY <1>1, <1>4, <2>1
    <3> QED BY <2>2, <2>3, <3>1, <3>2 DEF HeldOK
  <2>5. ReaderPlace' = AtBlock(g, want, TRUE, u[1].size)
    <3>1. ReaderPlace' = AtBlock(g + 0 + 0, want - 0 - 0, TRUE, u[1].size - 0)
      BY <1>1, <1>3, <1>4, <1>5, <2>1, <2>2 DEF ReaderPlace
    <3>2. g + 0 + 0 = g /\ want - 0 - 0 = want /\ u[1].size - 0 = u[1].size
      BY <1>4, <1>9
    <3> QED BY <3>1, <3>2
  <2>6. stage' # "garbled" /\ got' = Numbers(0, Len(got'))
    BY <1>1, <2>1 DEF LInv
  <2> QED BY <1>10, <2>4, <2>5, <2>6 DEF Leads
<1>12. \A i \in 1 .. k : u[i].tag = "frame"
  <2>1. \A i \in 1 .. k : i = 1
    BY <1>3
  <2> QED BY <1>9, <2>1
<1> QED BY <1>3, <1>11, <1>12

InFrame == Decompresses /\ frame.open

LEMMA FrameBodyRead ==
  ASSUME SInv, LInv, InFrame,
         NEW u \in Seq(AllUnits), Len(u) # 0, Len(u) <= Asked,
         \A i \in 1 .. Len(u) : u[i].tag # "chunk",
         NEW r, IsWalk(corrupted, u, r), r[0] = ReaderPlace
  PROVE  /\ \A i \in 1 .. Len(u) : u[i].tag = "value"
         /\ TakeFrameBody(u) /\ UNCHANGED corrupted => Leads(r[Len(u)])
         /\ TakeFrameBody(u) /\ stage' = "corrupt" => corrupted > 0
<1> DEFINE k == Len(u)
           x == r[0]
           g == Len(got)
           n == Len(frame.body)
           vals == [i \in DOMAIN u |-> u[i].v]
           body == frame.body \o vals
<1>1. stage = "block" /\ plan.compressed
  BY DEF Decompresses, InFrame
<1>2. HeldOK
  BY <1>1 DEF LInv
<1>3. /\ buf = <<>> /\ n < frame.size /\ frame.size <= want
      /\ frame.checksum = Numbers(g, frame.size)
      /\ \A i \in 1 .. n :
           frame.body[i] = g + i \/ (corrupted > 0 /\ frame.body[i] = Damaged)
  BY <1>2, Zenon DEF HeldOK, FrameOpen, InFrame
<1>4. /\ want \in Nat /\ want > 0 /\ plan \in Bodies /\ g \in Nat
      /\ plan.compressed = TRUE
  <2>1. want > 0 /\ plan \in Bodies
    BY <1>1, <1>2 DEF HeldOK
  <2>2. want \in Nat /\ g \in Nat
    BY LenProperties DEF SInv, ReaderInv
  <2> QED BY <1>1, <2>1, <2>2, TransportAssumption DEF TransportAssumption
<1>5. frame \in Frames /\ frame.size \in Nat /\ n \in Nat /\ frame.body \in Seq(Nat)
  BY LenProperties DEF SInv, ReaderInv, Frames
<1>6. k \in Nat /\ k > 0 /\ k <= frame.size - n
  <2>1. Asked = frame.size - n
    BY <1>1 DEF Asked, InFrame, Decompresses
  <2>2. k \in Nat /\ k <= Asked
    BY LenProperties
  <2>3. k # 0
    OBVIOUS
  <2> HIDE DEF k
  <2> QED BY <2>1, <2>2, <2>3
<1>7. x = AtBlock(g + n, want - n, TRUE, frame.size - n)
  <2>1. x = AtBlock(g + Len(<<>>) + n, want - Len(<<>>) - n, TRUE, frame.size - n)
    BY <1>1, <1>3, <1>4 DEF ReaderPlace, InFrame
  <2>2. g + Len(<<>>) + n = g + n /\ want - Len(<<>>) - n = want - n
    BY <1>4, <1>5
  <2> HIDE DEF x
  <2> QED BY <2>1, <2>2
<1> HIDE DEF x, k, g, n
<1>8. /\ x.v = g + n /\ x.want = want - n /\ x.left = frame.size - n
      /\ x.stage = "block" /\ x.compressed = TRUE /\ HasValues(x)
  <2>1. want - n # 0 /\ frame.size - n > 0
    BY <1>3, <1>4, <1>5
  <2>2. /\ x.v = g + n /\ x.want = want - n /\ x.left = frame.size - n
        /\ x.stage = "block" /\ x.compressed = TRUE
    BY <1>7, <2>1 DEF AtBlock
  <2> QED BY <2>1, <2>2 DEF HasValues
<1>9. /\ r[k] = Along(x, k)
      /\ \A i \in 1 .. k : u[i].tag = "value" /\ Numbered(corrupted, x, i, u[i].v)
  <2>1. k \in 1 .. Len(u) /\ k <= x.want /\ (x.left > 0 => k <= x.left)
    <3>1. k <= x.want /\ (x.left > 0 => k <= x.left)
      BY <1>3, <1>4, <1>5, <1>6, <1>8
    <3> QED BY <1>6, <3>1 DEF k
  <2>2. \A i \in 1 .. k : u[i].tag # "chunk"
    BY DEF k
  <2>3. HasValues(x)
    BY <1>8
  <2> QED BY <2>1, <2>2, <2>3, ValuesMet DEF x
<1>10. r[k] = AtBlock(g + n + k, want - n - k, TRUE, frame.size - n - k)
  <2>1. x.left > 0
    BY <1>3, <1>5, <1>8
  <2>2. x.stage # "plain"
    BY <1>8
  <2> QED BY <1>8, <1>9, <2>1, <2>2 DEF Along
<1>11. DOMAIN u = 1 .. k
  BY LenProperties DEF k
<1>12. \A i \in 1 .. k :
         u[i].v = g + n + i \/ (corrupted > 0 /\ u[i].v = Damaged)
  BY <1>8, <1>9, Zenon DEF Numbered
<1>13. /\ body \in Seq(Nat) /\ Len(body) = n + k
       /\ \A i \in 1 .. n : body[i] = frame.body[i]
       /\ \A i \in 1 .. k : body[n + i] = u[i].v
  <2>1. \A i \in 1 .. k : u[i].v \in Nat
    <3>1. \A i \in 1 .. k : u[i] \in AllUnits /\ u[i].tag = "value"
      BY <1>9, ElementOfSeq DEF k
    <3>2. \A y \in AllUnits : y.tag = "value" => y.v \in Nat
      BY DEF AllUnits, Units, Headers
    <3> QED BY <3>1, <3>2
  <2>2. vals \in Seq(Nat) /\ Len(vals) = k /\ \A i \in 1 .. k : vals[i] = u[i].v
    BY <1>6, <1>11, <2>1
  <2> HIDE DEF vals
  <2>3. /\ body \in Seq(Nat) /\ Len(body) = n + k
        /\ \A i \in 1 .. n + k : body[i] = IF i <= n THEN frame.body[i] ELSE vals[i - n]
    BY <1>5, <2>2, ConcatProperties DEF n
  <2> HIDE DEF body
  <2>4. ASSUME NEW i \in 1 .. n PROVE body[i] = frame.body[i]
    <3>1. i \in 1 .. n + k /\ i <= n
      BY <1>5, <1>6
    <3> QED BY <2>3, <3>1, Zenon
  <2>5. ASSUME NEW i \in 1 .. k PROVE body[n + i] = u[i].v
    <3>1. PICK j \in 1 .. n + k : j = n + i
      BY <1>5, <1>6
    <3>2. ~(j <= n) /\ j - n = i
      BY <1>5, <3>1
    <3>3. body[j] = IF j <= n THEN frame.body[j] ELSE vals[j - n]
      BY <2>3, Zenon
    <3>4. body[j] = vals[i]
      BY <3>2, <3>3, Zenon
    <3> QED BY <2>2, <3>1, <3>4, Zenon
  <2> QED BY <2>3, <2>4, <2>5
<1> HIDE DEF vals, body
<1>14. \A i \in 1 .. n + k :
         body[i] = g + i \/ (corrupted > 0 /\ body[i] = Damaged)
  <2> SUFFICES ASSUME NEW i \in 1 .. n + k
               PROVE  body[i] = g + i \/ (corrupted > 0 /\ body[i] = Damaged)
    OBVIOUS
  <2>1. CASE i <= n
    <3>1. i \in 1 .. n
      BY <1>5, <2>1
    <3> QED BY <1>3, <1>13, <3>1, Zenon
  <2>2. CASE i > n
    <3>1. i - n \in 1 .. k /\ n + (i - n) = i /\ g + n + (i - n) = g + i
      BY <1>4, <1>5, <1>6, <2>2
    <3> QED BY <1>12, <1>13, <3>1
  <2>3. i <= n \/ i > n
    BY <1>5
  <2> QED BY <2>1, <2>2, <2>3
<1>15. ASSUME TakeFrameBody(u), corrupted' = corrupted PROVE Leads(r[k])
  <2>1. /\ frame' = IF Len(body) = frame.size THEN NoFrame ELSE [frame EXCEPT !.body = body]
        /\ buf' = IF Len(body) = frame.size /\ body = frame.checksum THEN body ELSE buf
        /\ stage' = IF Len(body) = frame.size /\ body # frame.checksum
                    THEN "corrupt" ELSE stage
        /\ plan' = plan /\ want' = want /\ got' = got
    BY <1>15 DEF TakeFrameBody, body, vals
  <2>2. stage' # "garbled" /\ got' = Numbers(0, Len(got')) /\ Len(got') = g
    BY <1>1, <2>1 DEF LInv, g
  <2>3. CASE n + k = frame.size /\ body = frame.checksum
    <3>1. frame' = NoFrame /\ buf' = Numbers(g, frame.size) /\ Len(buf') = frame.size
          /\ stage' = "block"
      BY <1>1, <1>3, <1>13, <2>1, <2>3
    <3>2. ~NoFrame.open /\ NoFrame.body = <<>> /\ Len(<<>>) = 0
      BY DEF NoFrame
    <3>3. HeldOK'
      <4>1. ~frame'.open /\ frame' = NoFrame /\ buf' = Numbers(Len(got'), Len(buf'))
        BY <2>2, <3>1, <3>2
      <4>2. Len(buf') <= want' /\ stage' = "block" /\ plan'.compressed
            /\ want' > 0 /\ plan' \in Bodies
        BY <1>1, <1>3, <1>4, <2>1, <3>1
      <4> QED BY <4>1, <4>2 DEF HeldOK
    <3>4. ReaderPlace' = r[k]
      <4>1. ReaderPlace' = AtBlock(g + frame.size + 0, want - frame.size - 0, TRUE, 0)
        BY <1>4, <2>1, <2>2, <3>1, <3>2 DEF ReaderPlace
      <4>2. /\ g + frame.size + 0 = g + n + k /\ want - frame.size - 0 = want - n - k
            /\ frame.size - n - k = 0
        BY <1>4, <1>5, <1>6, <2>3
      <4> QED BY <1>10, <4>1, <4>2
    <3> QED BY <2>2, <3>3, <3>4 DEF Leads
  <2>4. CASE n + k = frame.size /\ body # frame.checksum
    <3>1. stage' = "corrupt"
      BY <1>13, <2>1, <2>4
    <3> QED BY <2>2, <3>1 DEF Leads
  <2>5. CASE n + k < frame.size
    <3>1. frame' = [frame EXCEPT !.body = body] /\ buf' = <<>> /\ stage' = "block"
      <4>1. Len(body) # frame.size
        BY <1>5, <1>6, <1>13, <2>5
      <4> QED BY <1>1, <1>3, <2>1, <4>1
    <3>2. /\ frame'.open /\ frame'.size = frame.size /\ frame'.body = body
          /\ frame'.checksum = frame.checksum
      BY <1>5, <3>1 DEF Frames, InFrame
    <3>3. FrameOpen'
      <4>1. stage' = "block" /\ plan'.compressed /\ buf' = <<>>
            /\ frame'.size <= want' /\ frame'.checksum = Numbers(Len(got'), frame'.size)
        BY <1>1, <1>3, <2>1, <2>2, <3>1, <3>2
      <4>2. Len(frame'.body) < frame'.size
        BY <1>13, <2>5, <3>2
      <4>3. \A i \in 1 .. Len(frame'.body) :
              frame'.body[i] = Len(got') + i \/ (corrupted' > 0 /\ frame'.body[i] = Damaged)
        BY <1>13, <1>14, <1>15, <2>2, <3>2, Zenon
      <4> QED BY <4>1, <4>2, <4>3, Zenon DEF FrameOpen
    <3>4. HeldOK'
      <4>1. buf' = Numbers(Len(got'), Len(buf')) /\ Len(buf') <= want' /\ buf' = <<>>
        BY <1>4, <2>1, <3>1 DEF Numbers
      <4>2. stage' = "block" /\ want' > 0 /\ plan' \in Bodies
        BY <1>4, <2>1, <3>1
      <4> QED BY <3>2, <3>3, <4>1, <4>2 DEF HeldOK
    <3>5. ReaderPlace' = r[k]
      <4>1. ReaderPlace' = AtBlock(g + 0 + (n + k), want - 0 - (n + k), TRUE,
                                   frame.size - (n + k))
        <5>1. Len(<<>>) = 0
          OBVIOUS
        <5> QED BY <1>4, <1>13, <2>1, <2>2, <3>1, <3>2, <5>1 DEF ReaderPlace
      <4>2. /\ g + 0 + (n + k) = g + n + k /\ want - 0 - (n + k) = want - n - k
            /\ frame.size - (n + k) = frame.size - n - k
        BY <1>4, <1>5, <1>6
      <4> QED BY <1>10, <4>1, <4>2
    <3> QED BY <2>2, <3>4, <3>5 DEF Leads
  <2>6. n + k = frame.size \/ n + k < frame.size
    <3>1. frame.size \in Nat /\ n \in Nat
      BY <1>5
    <3>2. k \in Nat /\ k <= frame.size - n
      BY <1>6
    <3>3. \A a, b, c \in Nat : a <= c - b => b + a = c \/ b + a < c
      OBVIOUS
    <3> QED BY <3>1, <3>2, <3>3, Zenon
  <2> QED BY <2>3, <2>4, <2>5, <2>6, Zenon
<1>16. ASSUME TakeFrameBody(u), stage' = "corrupt" PROVE corrupted > 0
  <2>1. Len(body) = frame.size /\ body # frame.checksum
    BY <1>1, <1>16 DEF TakeFrameBody, body, vals
  <2>2. n + k = frame.size /\ body # Numbers(g, n + k)
    BY <1>3, <1>13, <2>1
  <2>3. n + k \in Nat /\ body \in Seq(Nat) /\ Len(body) = n + k
    BY <1>5, <1>13, <2>2
  <2>4. /\ Numbers(g, n + k) \in Seq(Nat) /\ Len(Numbers(g, n + k)) = n + k
        /\ \A i \in 1 .. n + k : Numbers(g, n + k)[i] = g + i
    <3>1. \A b, j \in Nat : /\ Numbers(b, j) \in Seq(Nat) /\ Len(Numbers(b, j)) = j
                            /\ \A i \in 1 .. j : Numbers(b, j)[i] = b + i
      BY DEF Numbers
    <3> QED BY <1>4, <2>3, <3>1
  <2>5. ~(\A i \in 1 .. n + k : body[i] = Numbers(g, n + k)[i])
    BY <2>2, <2>3, <2>4, SeqEqual
  <2> QED BY <1>14, <2>4, <2>5, Zenon
<1> QED BY <1>9, <1>15, <1>16 DEF k

LEMMA ReadHeaderLinked == ASSUME SInv, LInv, ReadHeader PROVE LInv'
<1>1. /\ framed /\ read_remaining = 0 /\ wire # <<>> /\ wire' = Tail(wire)
      /\ Asked > 0
      /\ UNCHANGED <<fixed, writer, frame, buf, plan, want, got>>
      /\ IF Head(wire).tag = "chunk"
         THEN read_remaining' = Head(wire).size /\ UNCHANGED stage
         ELSE stage' = "garbled" /\ UNCHANGED read_remaining
  BY DEF ReadHeader
<1>2. /\ wire \in Seq(AllUnits) /\ Chunked(wire, 0) /\ write_buf \in Seq(AllUnits)
  BY <1>1, SequencesFit, TransportAssumption DEF SInv, WireInv, WriterInv
<1>3. /\ Head(wire) \in Headers /\ Head(wire).tag = "chunk"
      /\ Tail(wire) \in Seq(AllUnits)
  BY <1>1, <1>2, HeaderRead
<1>4. stage' = stage
  BY <1>1, <1>3
<1>5. stage # "corrupt" /\ stage # "garbled"
  BY <1>1 DEF LInv, Asked, Decompresses
<1>6. Leads(ReaderPlace)
  <2>1. UNCHANGED <<frame, buf, plan, want, got, stage, corrupted>>
    BY <1>1, <1>4 DEF writer
  <2>2. HeldOK' = HeldOK /\ ReaderPlace' = ReaderPlace
    BY <2>1 DEF HeldOK, FrameOpen, ReaderPlace
  <2> QED BY <1>5, <2>1, <2>2 DEF Leads, LInv
<1>7. Walked(corrupted, Tail(wire) \o write_buf, ReaderPlace, WriterPlace)
  <2> DEFINE a == <<Head(wire)>>
             b == Tail(wire)
  <2>1. a \in Seq(AllUnits) /\ b \in Seq(AllUnits) /\ a \o b = wire
        /\ Len(a) = 1 /\ a[1] = Head(wire)
    <3>1. Head(wire) \in AllUnits
      BY <1>3 DEF AllUnits
    <3> QED BY <1>1, <1>2, <1>3, <3>1
  <2>2. Walked(corrupted, (a \o b) \o write_buf, ReaderPlace, WriterPlace)
    BY <1>5, <2>1 DEF LInv
  <2> HIDE DEF a, b
  <2>3. PICK r : /\ IsWalk(corrupted, a, r) /\ r[0] = ReaderPlace
                 /\ Walked(corrupted, b \o write_buf, r[Len(a)], WriterPlace)
    <3>1. a \in Seq(AllUnits) /\ b \in Seq(AllUnits) /\ write_buf \in Seq(AllUnits)
      BY <1>2, <2>1
    <3> QED BY <2>2, <3>1, WalkAhead
  <2>4. r[1] = After(r[0], Head(wire))
    BY <2>1, <2>3 DEF IsWalk
  <2>5. r[1] = ReaderPlace
    BY <1>3, <2>3, <2>4 DEF After
  <2> QED BY <2>1, <2>3, <2>5 DEF b
<1> QED BY <1>1, <1>6, <1>7, ReaderLinked

(* Whatever a read takes is what is decoded there. *)
LEMMA ReadTaken ==
  ASSUME SInv, LInv, Read
  PROVE  /\ \E y : Leads(y) /\ Walked(corrupted, wire' \o write_buf, y, WriterPlace)
         /\ ~framed => write_buf = <<>> /\ wire' \in Seq(Units)
         /\ stage' = "corrupt" => corrupted > 0 /\ got' = got
         /\ got' = got \/ Len(got') >= Len(got)
<1> DEFINE units(k) == SubSeq(wire, 1, k)
           all(k, tag) == \A i \in 1 .. k : units(k)[i].tag = tag
<1>1. /\ Asked > 0 /\ UNCHANGED <<fixed, writer>>
  BY DEF Read
<1>2. PICK k \in 1 .. Available :
        /\ wire' = SubSeq(wire, k + 1, Len(wire))
        /\ CASE stage = "code" /\ all(k, "code") -> TakeCode(units(k))
             [] Decompresses /\ ~frame.open /\ all(k, "frame") -> TakeFrameHeader(units(k))
             [] Decompresses /\ frame.open /\ all(k, "value") -> TakeFrameBody(units(k))
             [] stage # "code" /\ ~Decompresses /\ all(k, "value") -> TakeValues(units(k))
             [] OTHER -> stage' = "garbled" /\ UNCHANGED <<frame, buf, plan, want, got>>
  BY DEF Read
<1>3. stage \in {"code", "plain", "block"} /\ stage # "corrupt"
  <2>1. stage \in {"code", "plain", "block", "garbled", "corrupt"}
    BY DEF SInv, ReaderInv
  <2> QED BY <1>1, <2>1 DEF Asked, Decompresses
<1> DEFINE u == SubSeq(wire, 1, k)
           rest == SubSeq(wire, k + 1, Len(wire))
<1>4. /\ k \in Nat \ {0} /\ k <= Asked
      /\ u \in Seq(AllUnits) /\ Len(u) = k
      /\ \A i \in 1 .. k : u[i].tag # "chunk"
      /\ ~framed => write_buf = <<>> /\ rest \in Seq(Units)
  BY ReadCut
<1>5. PICK r : /\ IsWalk(corrupted, u, r) /\ r[0] = ReaderPlace
               /\ Walked(corrupted, rest \o write_buf, r[k], WriterPlace)
  BY <1>3, ReadMet
<1>6. wire' = rest
  BY <1>2
<1>7. /\ stage = "code" /\ all(k, "code") => TakeCode(u)
      /\ stage # "code" /\ ~Decompresses /\ all(k, "value") => TakeValues(u)
      /\ Decompresses /\ ~frame.open /\ all(k, "frame") => TakeFrameHeader(u)
      /\ Decompresses /\ frame.open /\ all(k, "value") => TakeFrameBody(u)
  BY <1>2, Zenon DEF Decompresses
<1> HIDE DEF u, rest
<1>8. Len(u) # 0 /\ Len(u) <= Asked /\ \A i \in 1 .. Len(u) : u[i].tag # "chunk"
  BY <1>4
<1>9. UNCHANGED corrupted
  BY <1>1 DEF writer
<1>10. /\ Leads(r[Len(u)])
       /\ stage' = "corrupt" => corrupted > 0 /\ got' = got
       /\ got' = got \/ Len(got') >= Len(got)
  <2>1. CASE stage = "code"
    <3>1. Leads(r[Len(u)]) /\ TakeCode(u)
      BY <1>4, <1>5, <1>7, <1>8, <2>1, CodeRead DEF u
    <3> QED BY <3>1 DEF TakeCode
  <2>2. CASE stage # "code" /\ ~Decompresses
    <3>1. Leads(r[Len(u)]) /\ TakeValues(u) /\ Len(got') >= Len(got)
      BY <1>3, <1>4, <1>5, <1>7, <1>8, <2>2, RawRead DEF u
    <3> QED BY <1>3, <3>1 DEF TakeValues, EnterBlock, EnterCode
  <2>3. CASE Decompresses /\ ~frame.open
    <3>1. Leads(r[Len(u)]) /\ TakeFrameHeader(u)
      BY <1>4, <1>5, <1>7, <1>8, <2>3, FrameHeaderRead DEF u
    <3> QED BY <1>3, <3>1 DEF TakeFrameHeader
  <2>4. CASE Decompresses /\ frame.open
    <3>1. TakeFrameBody(u) /\ Leads(r[Len(u)])
          /\ (stage' = "corrupt" => corrupted > 0)
      BY <1>4, <1>5, <1>7, <1>8, <1>9, <2>4, FrameBodyRead DEF u, InFrame
    <3> QED BY <3>1 DEF TakeFrameBody
  <2> QED BY <1>3, <2>1, <2>2, <2>3, <2>4
<1> QED BY <1>4, <1>5, <1>6, <1>10

LEMMA ReadLinked == ASSUME SInv, LInv, Read PROVE LInv'
<1>1. UNCHANGED <<fixed, writer>>
  BY DEF Read
<1>2. PICK y : /\ Leads(y)
               /\ Walked(corrupted, wire' \o write_buf, y, WriterPlace)
  BY ReadTaken
<1>3. ~framed => write_buf = <<>> /\ wire' \in Seq(Units)
  BY ReadTaken
<1> QED BY <1>1, <1>2, <1>3, ReaderLinked

LEMMA ReadBufferedLinked == ASSUME SInv, LInv, ReadBuffered PROVE LInv'
<1> DEFINE g == Len(got)
           m == Len(buf)
<1>1. /\ Decompresses /\ ~frame.open /\ buf # <<>>
      /\ UNCHANGED <<fixed, writer, wire, read_remaining, frame, plan>>
  BY DEF ReadBuffered
<1>2. stage = "block" /\ plan.compressed
  BY <1>1 DEF Decompresses
<1>3. HeldOK
  BY <1>2 DEF LInv
<1>4. /\ frame = NoFrame /\ buf = Numbers(g, m) /\ m <= want
      /\ want > 0 /\ plan \in Bodies
  <2>1. frame = NoFrame /\ buf = Numbers(g, m) /\ m <= want
    BY <1>1, <1>3, Zenon DEF HeldOK
  <2> QED BY <1>2, <1>3, <2>1 DEF HeldOK
<1>5. /\ want \in Nat /\ g \in Nat /\ m \in Nat /\ buf \in Seq(Nat)
      /\ NoFrame.body = <<>> /\ Len(NoFrame.body) = 0 /\ ~NoFrame.open
  BY LenProperties DEF SInv, ReaderInv, NoFrame
<1>6. PICK n : /\ n = Min({m, want})
               /\ got' = got \o SubSeq(buf, 1, n)
               /\ buf' = IF n = want THEN <<>> ELSE SubSeq(buf, n + 1, m)
               /\ IF n = want THEN stage' = "code" /\ want' = 0
                  ELSE want' = want - n /\ stage' = stage
  BY DEF ReadBuffered, EnterCode
<1>7. n = m
  <2>1. Min({m, want}) = IF m <= want THEN m ELSE want
    <3>1. m \in Int /\ want \in Int
      BY <1>5
    <3> QED BY <3>1, MinOfTwo
  <2> QED BY <1>4, <1>6, <2>1
<1>8. SubSeq(buf, 1, n) = buf /\ SubSeq(buf, n + 1, m) = <<>>
  <2>1. SubSeq(buf, 1, m) = buf
    BY <1>5, SubSeqFull
  <2>2. SubSeq(buf, m + 1, m) = <<>>
    BY <1>5, SubSeqEmpty
  <2> QED BY <1>7, <2>1, <2>2
<1>9. got' = Numbers(0, g + m) /\ Len(got') = g + m /\ buf' = <<>>
  <2>1. got = Numbers(0, g)
    BY <1>2 DEF LInv
  <2>4. got' = got \o buf /\ buf' = <<>>
    BY <1>6, <1>8
  <2> HIDE DEF g, m
  <2>2. /\ Numbers(0, g) \o Numbers(0 + g, m) = Numbers(0, g + m)
        /\ Len(Numbers(0, g + m)) = g + m
    <3>1. 0 \in Nat /\ g \in Nat /\ m \in Nat /\ g + m \in Nat
      BY <1>5
    <3> QED BY <3>1, NumbersJoined
  <2>3. 0 + g = g
    BY <1>5
  <2> QED BY <1>4, <2>1, <2>2, <2>3, <2>4
<1>10. ReaderPlace = AtBlock(g + m, want - m, plan.compressed, 0)
  <2>1. ReaderPlace = AtBlock(g + m + 0, want - m - 0, plan.compressed, 0)
    BY <1>2, <1>4, <1>5 DEF ReaderPlace
  <2>2. g + m + 0 = g + m /\ want - m - 0 = want - m
    BY <1>5
  <2> QED BY <2>1, <2>2
<1> HIDE DEF g, m
<1>11. /\ frame' = NoFrame /\ ~frame'.open /\ plan' = plan
       /\ Len(buf') = 0 /\ buf' = Numbers(Len(got'), Len(buf'))
  <2>1. Len(<<>>) = 0 /\ <<>> = Numbers(Len(got'), 0)
    BY DEF Numbers
  <2> QED BY <1>1, <1>4, <1>5, <1>9, <2>1
<1>12. Leads(ReaderPlace)
  <2>1. stage' # "garbled" /\ got' = Numbers(0, Len(got'))
    BY <1>2, <1>6, <1>9
  <2>2. CASE n = want
    <3>1. stage' = "code" /\ want' = 0
      BY <1>6, <2>2
    <3>2. ReaderPlace' = AtCode(g + m)
      BY <1>9, <3>1 DEF ReaderPlace
    <3>3. ReaderPlace = AtCode(g + m)
      <4>1. want - m = 0
        BY <1>5, <1>7, <2>2
      <4> QED BY <1>10, <4>1 DEF AtBlock
    <3>4. HeldOK'
      <4>1. Len(buf') <= want' /\ ~(buf' # <<>>)
        BY <1>9, <1>11, <3>1
      <4> QED BY <1>11, <3>1, <4>1, Zenon DEF HeldOK
    <3> QED BY <2>1, <3>2, <3>3, <3>4 DEF Leads
  <2>3. CASE n # want
    <3>1. stage' = "block" /\ want' = want - m /\ want - m > 0
      <4>1. stage' = "block" /\ want' = want - m
        BY <1>2, <1>6, <1>7, <2>3
      <4> QED BY <1>4, <1>5, <1>7, <2>3, <4>1
    <3>2. ReaderPlace' = AtBlock(g + m, want - m, plan.compressed, 0)
      <4>1. ReaderPlace' = AtBlock(g + m + 0 + 0, want - m - 0 - 0, plan.compressed, 0)
        BY <1>5, <1>9, <1>11, <3>1 DEF ReaderPlace
      <4>2. g + m + 0 + 0 = g + m /\ want - m - 0 - 0 = want - m
        BY <1>5
      <4> QED BY <4>1, <4>2
    <3>3. HeldOK'
      <4>1. Len(buf') <= want' /\ ~(buf' # <<>>) /\ want' > 0 /\ plan' \in Bodies
        BY <1>4, <1>9, <1>11, <3>1
      <4>2. stage' # "code"
        BY <3>1
      <4> QED BY <1>11, <4>1, <4>2, Zenon DEF HeldOK
    <3> QED BY <1>10, <2>1, <3>2, <3>3 DEF Leads
  <2> QED BY <2>2, <2>3
<1>13. wire' = wire /\ UNCHANGED <<fixed, writer>>
  BY <1>1
<1>14. Walked(corrupted, wire' \o write_buf, ReaderPlace, WriterPlace)
  BY <1>2, <1>13 DEF LInv
<1>15. ~framed => write_buf = <<>> /\ wire' \in Seq(Units)
  BY <1>13 DEF LInv
<1> QED BY <1>12, <1>13, <1>14, <1>15, ReaderLinked

-----------------------------------------------------------------------------
(* The invariant, and what follows from it. *)

LEMMA LInvInit == ASSUME Init PROVE LInv
<1>1. /\ stage = "code" /\ got = <<>> /\ write_buf = <<>> /\ wire = <<>>
      /\ frame = NoFrame /\ buf = <<>> /\ want = 0 /\ job = <<>> /\ sent = 0
  BY DEF Init
<1>2. Len(<<>>) = 0 /\ <<>> = Numbers(0, 0) /\ <<>> \o <<>> = <<>>
      /\ <<>> \in Seq(Units) /\ ~NoFrame.open
  BY DEF Numbers, NoFrame
<1>3. HeldOK
  <2>1. ~frame.open /\ buf = Numbers(Len(got), Len(buf)) /\ Len(buf) <= want
        /\ ~(buf # <<>>)
    BY <1>1, <1>2
  <2> QED BY <1>1, <2>1, Zenon DEF HeldOK
<1>4. Walked(corrupted, <<>>, AtCode(0), AtCode(0))
  <2>1. AtCode(0) \in Places
    BY DEF AtCode, Places
  <2> QED BY <2>1, WalkNone
<1>5. ReaderPlace = AtCode(0) /\ WriterPlace = AtCode(0)
  BY <1>1, <1>2 DEF ReaderPlace, WriterPlace, PlaceOf
<1> QED BY <1>1, <1>2, <1>3, <1>4, <1>5 DEF LInv

LEMMA LInvStep ==
  ASSUME Fits, WritesWhole, SInv, LInv, [Next]_vars
  PROVE  SInv' /\ LInv'
<1>0. SInv'
  BY SInvStep
<1>1. CASE StartPacket
  BY <1>0, <1>1, StartPacketLinked
<1>2. CASE WritePlain
  BY <1>0, <1>2, WritePlainLinked
<1>3. CASE WriteRawBlock
  BY <1>0, <1>3, WriteRawBlockLinked
<1>4. CASE WriteCompressedBlock
  BY <1>0, <1>4, WriteCompressedBlockLinked
<1>5. CASE Flush
  BY <1>0, <1>5, FlushLinked
<1>6. CASE ServerFrame
  BY <1>0, <1>6, ServerFrameLinked
<1>7. CASE ServerChunk
  BY <1>0, <1>7, ServerChunkLinked
<1>8. CASE ServerFlush
  BY <1>0, <1>8, ServerFlushLinked
<1>9. CASE ReadHeader
  BY <1>0, <1>9, ReadHeaderLinked
<1>10. CASE Read
  BY <1>0, <1>10, ReadLinked
<1>11. CASE ReadBuffered
  BY <1>0, <1>11, ReadBufferedLinked
<1>12. CASE UNCHANGED vars
  <2>1. LInv' = LInv
    BY <1>12 DEF vars, fixed, writer, reader, LInv, HeldOK, FrameOpen,
                 ReaderPlace, WriterPlace
  <2> QED BY <1>0, <2>1
<1> QED BY <1>1, <1>2, <1>3, <1>4, <1>5, <1>6, <1>7, <1>8, <1>9, <1>10, <1>11,
           <1>12 DEF Next, Write, Reads

LEMMA LInvAlways ==
  ASSUME Fits, WritesWhole
  PROVE  Spec => [](SInv /\ LInv)
<1>1. Init => SInv /\ LInv
  BY SInvInit, LInvInit
<1>2. SInv /\ LInv /\ [Next]_vars => (SInv /\ LInv)'
  BY LInvStep
<1> QED BY <1>1, <1>2, PTL DEF Spec

(* As long as no write is cut short, no reader meets a unit that it does    *)
(* not expect there: every packet code, value and frame header is read by   *)
(* the code that decodes it, for every size of chunk, frame, block and      *)
(* read, plain values before compressed blocks, requests of several         *)
(* packets and frames damaged on the way.                                   *)
THEOREM NothingIsGarbled ==
  ASSUME Fits, WritesWhole
  PROVE  Spec => []NeverGarbled
<1>1. LInv => NeverGarbled
  BY DEF LInv, NeverGarbled
<1> QED BY <1>1, LInvAlways, PTL

(* What ReadsWhatWasWritten takes for granted holds as long as the socket   *)
(* cuts no write of ProtoWrite short: on a chunked connection, on what the  *)
(* server sends, and on a socket that takes all it is given.  Short writes  *)
(* of an unframed request, whose count ProtoWrite drops, are all it takes   *)
(* to break it.                                                             *)
THEOREM NothingIsReordered ==
  ASSUME Fits, WritesWhole
  PROVE  Spec => []ReadsWhatWasWritten
<1>1. SInv /\ LInv => ReadsWhatWasWritten
  <2> SUFFICES ASSUME SInv, LInv PROVE ReadsWhatWasWritten
    OBVIOUS
  <2>1. got = Numbers(0, Len(got)) /\ Len(got) \in Nat
    BY LenProperties DEF LInv, SInv, ReaderInv
  <2>2. \A n \in Nat : Numbers(0, n) = [i \in 1 .. n |-> i]
    BY DEF Numbers
  <2> QED BY <2>1, <2>2 DEF ReadsWhatWasWritten
<1> QED BY <1>1, LInvAlways, PTL

LEMMA StopsOnlyStep ==
  ASSUME SInv, LInv, [Next]_vars, stage' = "corrupt", stage # "corrupt"
  PROVE  corrupted > 0 /\ got' = got
<1>1. CASE Write
  BY <1>1 DEF Write, StartPacket, WritePlain, WriteRawBlock,
              WriteCompressedBlock, Flush, ServerFrame, ServerChunk, ServerFlush,
              reader
<1>2. CASE ReadHeader
  BY <1>2 DEF ReadHeader
<1>3. CASE Read
  BY <1>3, ReadTaken
<1>4. CASE ReadBuffered
  BY <1>4 DEF ReadBuffered, EnterCode
<1>5. CASE UNCHANGED vars
  BY <1>5 DEF vars, reader
<1> QED BY <1>1, <1>2, <1>3, <1>4, <1>5 DEF Next, Reads

(* decode_frame refuses a frame whose body does not have the checksum that  *)
(* came with it, before any value of it is read; and a frame that was not   *)
(* damaged on the way is never refused.                                     *)
THEOREM OnlyDamageStops ==
  ASSUME Fits, WritesWhole
  PROVE  Spec => StopsOnlyOnDamage
<1>1. SInv /\ LInv /\ [Next]_vars =>
        [stage' = "corrupt" /\ stage # "corrupt" => corrupted > 0 /\ got' = got]_vars
  BY StopsOnlyStep
<1> QED BY <1>1, LInvAlways, PTL DEF Spec, StopsOnlyOnDamage

-----------------------------------------------------------------------------
(* Pipe. *)

LEMMA PlacesCount ==
  \A v, n, m, c, l : /\ AtCode(v).v = v /\ AtBlock(v, n, c, l).v = v
                     /\ AtPlain(v, n, m, c).v = v
<1>1. \A v, n, c, l : AtCode(v).v = v /\ AtBlock(v, n, c, l).v = v
  BY DEF AtCode, AtBlock
<1> QED BY <1>1 DEF AtPlain

(* The reader is behind the writer. *)
Behind == stage # "corrupt" => Len(got) <= sent

LEMMA ReaderBehind == ASSUME SInv, LInv PROVE Behind
<1> SUFFICES ASSUME stage # "corrupt" PROVE Len(got) <= sent
  BY DEF Behind
<1>1. /\ wire \o write_buf \in Seq(AllUnits)
      /\ Walked(corrupted, wire \o write_buf, ReaderPlace, WriterPlace)
  <2>1. write_buf \in Seq(AllUnits) /\ wire \in Seq(AllUnits)
    BY SequencesFit, TransportAssumption DEF SInv, WireInv, WriterInv
  <2> QED BY <2>1, ConcatProperties DEF LInv
<1>2. /\ ReaderPlace.v \in Nat /\ WriterPlace.v \in Nat
      /\ ReaderPlace.v <= WriterPlace.v
  BY <1>1, WalkRises
<1>3. WriterPlace.v = sent
  BY PlacesCount DEF WriterPlace, PlaceOf
<1>4. Len(got) \in Nat /\ Len(buf) \in Nat /\ Len(frame.body) \in Nat /\ sent \in Nat
  BY LenProperties, Constants DEF SInv, ReaderInv, Frames
<1>5. CASE stage \in {"code", "plain"}
  <2>1. ReaderPlace.v = Len(got)
    <3>1. CASE stage = "code"
      BY <3>1 DEF ReaderPlace, AtCode
    <3>2. CASE stage = "plain"
      BY <3>2 DEF ReaderPlace, AtPlain, AtBlock, AtCode
    <3> QED BY <1>5, <3>1, <3>2
  <2> QED BY <1>2, <1>3, <2>1
<1>6. CASE stage \notin {"code", "plain"}
  <2>1. ReaderPlace = AtBlock(Len(got) + Len(buf) + Len(frame.body),
                              want - Len(buf) - Len(frame.body), plan.compressed,
                              IF frame.open THEN frame.size - Len(frame.body) ELSE 0)
    BY <1>6 DEF ReaderPlace
  <2>2. ReaderPlace.v = Len(got) + Len(buf) + Len(frame.body)
    BY <2>1 DEF AtBlock, AtCode
  <2>3. Len(got) + Len(buf) + Len(frame.body) <= sent
    BY <1>2, <1>3, <2>2
  <2>4. \A a, b, c, d \in Nat : a + b + c <= d => a <= d
    OBVIOUS
  <2> QED BY <1>4, <2>3, <2>4, Zenon
<1> QED BY <1>5, <1>6

LEMMA HeadNumbers ==
  ASSUME SInv, job # <<>>
  PROVE  Head(job).body.plain \in Nat /\ Head(job).body.block \in Nat
<1>1. PICK b \in SomeBody : Head(job).body = b
  BY JobHead DEF SInv, WriterInv
<1> QED BY <1>1 DEF SomeBody

(* A step of the writer is one of Pipe's or none. *)
LEMMA WritesPipe ==
  ASSUME SInv, Write
  PROVE  sent' >= sent /\ flushed' \in {flushed, sent'} /\ got' = got
<1>0. sent \in Nat
  BY Constants
<1>1. CASE StartPacket \/ Flush \/ ServerChunk \/ ServerFlush
  <2>1. sent' = sent /\ flushed' \in {flushed, sent} /\ got' = got
    BY <1>1 DEF StartPacket, Flush, ServerChunk, ServerFlush, reader
  <2> QED BY <1>0, <2>1
<1>2. CASE WritePlain
  <2>1. Head(job).body.plain \in Nat
    BY <1>2, HeadNumbers DEF WritePlain
  <2>2. sent' = sent + Head(job).body.plain /\ flushed' = flushed /\ got' = got
    BY <1>2 DEF WritePlain, reader
  <2> QED BY <1>0, <2>1, <2>2
<1>3. CASE WriteRawBlock \/ WriteCompressedBlock
  <2>1. Head(job).body.block \in Nat
    BY <1>3, HeadNumbers DEF WriteRawBlock, WriteCompressedBlock
  <2>2. /\ sent' = sent + Head(job).body.block /\ flushed' \in {flushed, sent'}
        /\ got' = got
    BY <1>3 DEF WriteRawBlock, WriteCompressedBlock, reader
  <2> QED BY <1>0, <2>1, <2>2
<1>4. CASE ServerFrame
  <2>1. PICK n \in 1 .. Head(job).body.block : sent' = sent + n
    BY <1>4 DEF ServerFrame
  <2>2. flushed' = flushed /\ got' = got /\ Head(job).body.block \in Nat
    BY <1>4, HeadNumbers DEF ServerFrame, reader
  <2> QED BY <1>0, <2>1, <2>2
<1> QED BY <1>1, <1>2, <1>3, <1>4 DEF Write

(* What a step of the reader adds. *)
LEMMA ReadsGrow ==
  ASSUME SInv, LInv, Reads
  PROVE  /\ UNCHANGED <<sent, flushed>>
         /\ got' = got \/ (Len(got') >= Len(got) /\ stage' # "corrupt")
<1>1. UNCHANGED <<sent, flushed>>
  BY DEF Reads, ReadHeader, Read, ReadBuffered, writer
<1>2. CASE ReadHeader
  BY <1>1, <1>2 DEF ReadHeader
<1>3. CASE Read
  BY <1>1, <1>3, ReadTaken
<1>4. CASE ReadBuffered
  <2>1. stage' # "corrupt"
    BY <1>4 DEF ReadBuffered, EnterCode, Decompresses
  <2>2. PICK n : /\ n = Min({Len(buf), want})
                 /\ got' = got \o SubSeq(buf, 1, n)
    BY <1>4 DEF ReadBuffered
  <2>3. /\ want \in Nat /\ buf \in Seq(Nat) /\ got \in Seq(Nat)
        /\ Len(buf) \in Nat /\ Len(got) \in Nat
    BY LenProperties DEF SInv, ReaderInv
  <2>4. n \in 0 .. Len(buf)
    <3>1. Len(buf) \in Int /\ want \in Int
      BY <2>3
    <3>2. Min({Len(buf), want}) = IF Len(buf) <= want THEN Len(buf) ELSE want
      BY <3>1, MinOfTwo
    <3>3. n = IF Len(buf) <= want THEN Len(buf) ELSE want
      BY <2>2, <3>2
    <3>4. Len(buf) \in Nat /\ want \in Nat
      BY <2>3
    <3> QED BY <3>3, <3>4
  <2>5. SubSeq(buf, 1, n) \in Seq(Nat)
    BY <2>3, <2>4, SubSeqProperties
  <2>6. Len(got') = Len(got) + Len(SubSeq(buf, 1, n)) /\ Len(SubSeq(buf, 1, n)) \in Nat
    BY <2>2, <2>3, <2>5, ConcatProperties, LenProperties
  <2>7. Len(got') >= Len(got)
    <3>1. Len(got) \in Nat
      BY <2>3
    <3>2. \A a, b \in Nat : a + b >= a
      OBVIOUS
    <3> QED BY <2>6, <3>1, <3>2, Zenon
  <2> QED BY <1>1, <2>1, <2>7
<1> QED BY <1>2, <1>3, <1>4 DEF Reads

LEMMA ReadsPipe ==
  ASSUME SInv, LInv, SInv', LInv', Behind', Reads
  PROVE  P!Receive \/ UNCHANGED P!vars
<1> DEFINE g == Len(got)
           h == Len(got')
<1>1. /\ got = Numbers(0, g) /\ got' = Numbers(0, h) /\ g \in Nat /\ h \in Nat
      /\ sent \in Nat
  BY LenProperties, Constants DEF LInv, SInv, ReaderInv
<1>2. UNCHANGED <<sent, flushed>>
  BY ReadsGrow
<1>3. CASE got' = got
  BY <1>2, <1>3 DEF P!vars
<1>4. CASE got' # got
  <2>1. h >= g /\ h <= sent
    BY <1>2, <1>4, ReadsGrow DEF Behind
  <2>2. h # g
    BY <1>1, <1>4
  <2> HIDE DEF g, h
  <2>3. h \in g + 1 .. sent /\ h - g \in Nat /\ g + (h - g) = h
    BY <1>1, <2>1, <2>2
  <2>4. got' = got \o Numbers(g, h - g)
    <3>1. 0 \in Nat /\ 0 + g = g
      BY <1>1
    <3>2. Numbers(0, g) \o Numbers(0 + g, h - g) = Numbers(0, g + (h - g))
      BY <1>1, <2>3, <3>1, NumbersJoined
    <3> QED BY <1>1, <2>3, <3>1, <3>2
  <2> QED BY <1>2, <2>3, <2>4 DEF P!Receive, Numbers, g
<1> QED BY <1>3, <1>4

(* What is written to one end of a connection comes out of the other, each  *)
(* value once and in order and nothing that was not written, through        *)
(* CompressedWriter, the chunks, the socket and CompressedReader, whatever  *)
(* their sizes; damage stops the reader and changes nothing that was read.  *)
THEOREM TransportIsAPipe ==
  ASSUME Fits, WritesWhole
  PROVE  Spec => ImplementsPipe
<1>1. Init => P!Init
  BY DEF Init, P!Init
<1>2. ASSUME SInv, LInv, SInv', LInv', Behind', [Next]_vars
      PROVE  [P!Next]_P!vars
  <2>1. CASE Write
    BY <1>2, <2>1, WritesPipe DEF P!Next, P!Write
  <2>2. CASE Reads
    BY <1>2, <2>2, ReadsPipe DEF P!Next
  <2>3. CASE UNCHANGED vars
    BY <2>3 DEF vars, writer, reader, P!vars
  <2> QED BY <1>2, <2>1, <2>2, <2>3 DEF Next
<1>3. SInv /\ LInv => Behind
  BY ReaderBehind
<1>4. Spec => P!Spec
  BY <1>1, <1>2, <1>3, LInvAlways, PTL DEF Spec, P!Spec
<1> QED BY <1>4 DEF ImplementsPipe

-----------------------------------------------------------------------------
(* What was flushed is on the wire. *)

Emptied == job = <<>> /\ flushed = sent => write_buf = <<>>

LEMMA EmptiedStep ==
  ASSUME SInv, LInv, Emptied, [Next]_vars
  PROVE  Emptied'
<1>0. sent \in Nat /\ flushed \in Nat /\ flushed <= sent
  BY DEF SInv, WriterInv
<1>1. CASE StartPacket
  <2>1. PICK b \in Bodies :
          job' = IF b.plain = 0 THEN <<[what |-> "block", body |-> b]>>
                 ELSE <<[what |-> "plain", body |-> b], [what |-> "block", body |-> b]>>
    BY <1>1 DEF StartPacket
  <2>2. job' # <<>>
    BY <2>1
  <2> QED BY <2>2 DEF Emptied
<1>2. CASE WritePlain
  <2>1. PICK b \in SomeBody :
          job = <<[what |-> "plain", body |-> b], [what |-> "block", body |-> b]>>
    BY <1>2, JobHead DEF SInv, WriterInv, WritePlain
  <2>2. job' # <<>>
    BY <1>2, <2>1 DEF WritePlain
  <2> QED BY <2>2 DEF Emptied
<1>3. CASE WriteRawBlock
  <2>1. PICK b \in SomeBody : Head(job).body = b
    BY <1>3, JobHead DEF SInv, WriterInv, WriteRawBlock
  <2>2. b.block \in Nat \ {0} /\ sent' = sent + b.block /\ flushed' = flushed
    BY <1>3, <2>1 DEF SomeBody, WriteRawBlock
  <2>3. flushed' # sent'
    BY <1>0, <2>2
  <2> QED BY <2>3 DEF Emptied
<1>4. CASE WriteCompressedBlock
  BY <1>4 DEF WriteCompressedBlock, Emptied
<1>5. CASE Flush
  BY <1>5 DEF Flush, LInv, Emptied
<1>6. CASE ServerFrame
  <2>1. PICK n \in 1 .. Head(job).body.block : sent' = sent + n
    BY <1>6 DEF ServerFrame
  <2>2. flushed' = flushed /\ Head(job).body.block \in Nat
    BY <1>6, HeadNumbers DEF ServerFrame
  <2>3. flushed' # sent'
    BY <1>0, <2>1, <2>2
  <2> QED BY <2>3 DEF Emptied
<1>7. CASE ServerChunk
  <2>1. PICK k \in 1 .. Min({Len(write_buf), 2^SizeBits - 1}) :
          write_buf' = SubSeq(write_buf, k + 1, Len(write_buf))
    BY <1>7 DEF ServerChunk
  <2>2. UNCHANGED <<job, sent, flushed>>
    BY <1>7 DEF ServerChunk
  <2>3. SubSeq(<<>>, k + 1, 0) = <<>> /\ Len(<<>>) = 0
    BY <2>1
  <2> QED BY <2>1, <2>2, <2>3 DEF Emptied
<1>8. CASE ServerFlush
  BY <1>8 DEF ServerFlush, Emptied
<1>9. CASE Reads
  <2>1. UNCHANGED <<job, sent, flushed, write_buf>>
    BY <1>9 DEF Reads, ReadHeader, Read, ReadBuffered, writer
  <2> QED BY <2>1 DEF Emptied
<1>10. CASE UNCHANGED vars
  BY <1>10 DEF vars, writer, Emptied
<1> QED BY <1>1, <1>2, <1>3, <1>4, <1>5, <1>6, <1>7, <1>8, <1>9, <1>10
        DEF Next, Write

(* A place with nothing before it to read, when nothing is to be written:   *)
(* the reader's is the writer's, between two packets.                       *)
LEMMA WalkedNone ==
  ASSUME NEW c, NEW x, NEW y, Walked(c, <<>>, x, y)
  PROVE  x = y
BY DEF Walked

LEMMA AllIsRead ==
  ASSUME SInv, LInv, job = <<>>, wire = <<>>, write_buf = <<>>, stage # "corrupt"
  PROVE  /\ Len(got) + Len(buf) = sent /\ ~frame.open
         /\ buf = Numbers(Len(got), Len(buf))
<1>1. HeldOK /\ Walked(corrupted, <<>>, ReaderPlace, WriterPlace)
  <2>1. <<>> \o <<>> = <<>>
    OBVIOUS
  <2> QED BY <2>1 DEF LInv
<1>2. ReaderPlace = AtCode(sent)
  BY <1>1, WalkedNone DEF WriterPlace, PlaceOf
<1>3. /\ Len(got) \in Nat /\ Len(buf) \in Nat /\ Len(frame.body) \in Nat
      /\ sent \in Nat /\ want \in Nat /\ frame.size \in Nat
      /\ stage \in {"code", "plain", "block"}
  <2>1. stage \in {"code", "plain", "block", "garbled", "corrupt"} /\ want \in Nat
    BY DEF SInv, ReaderInv
  <2>2. stage # "garbled"
    BY DEF LInv
  <2>3. /\ Len(got) \in Nat /\ Len(buf) \in Nat /\ Len(frame.body) \in Nat
        /\ sent \in Nat /\ frame.size \in Nat
    BY LenProperties, Constants DEF SInv, ReaderInv, Frames
  <2> QED BY <2>1, <2>2, <2>3
<1>4. buf = Numbers(Len(got), Len(buf)) /\ Len(buf) <= want
      /\ (buf # <<>> => stage = "block")
      /\ (stage # "code" => want > 0)
      /\ (frame.open => FrameOpen)
      /\ (~frame.open => frame = NoFrame)
  BY <1>1, Zenon DEF HeldOK
<1>5. AtCode(sent).stage = "code" /\ AtCode(sent).v = sent
  BY DEF AtCode
<1>6. CASE stage = "code"
  <2>1. Len(got) = sent
    BY <1>2, <1>6, PlacesCount DEF ReaderPlace
  <2>2. buf = <<>> /\ Len(<<>>) = 0
    BY <1>4, <1>6
  <2>3. ~frame.open
    BY <1>4, <1>6 DEF FrameOpen
  <2> QED BY <1>3, <1>4, <2>1, <2>2, <2>3
<1>7. CASE stage = "plain"
  <2>1. want # 0
    BY <1>3, <1>4, <1>7
  <2>2. AtCode(sent) = AtPlain(Len(got), want, plan.block, plan.compressed)
    BY <1>2, <1>7 DEF ReaderPlace
  <2>3. AtCode(sent).stage = "plain"
    BY <2>1, <2>2 DEF AtPlain
  <2> QED BY <1>5, <2>3
<1>8. CASE stage = "block"
  <2> DEFINE left == want - Len(buf) - Len(frame.body)
             open == IF frame.open THEN frame.size - Len(frame.body) ELSE 0
  <2>1. AtCode(sent) = AtBlock(Len(got) + Len(buf) + Len(frame.body), left,
                               plan.compressed, open)
    BY <1>2, <1>8 DEF ReaderPlace
  <2> HIDE DEF left, open
  <2>2. left = 0
    <3>1. left # 0 => AtCode(sent).stage = "block"
      BY <2>1 DEF AtBlock
    <3> QED BY <1>5, <3>1
  <2>3. Len(got) + Len(buf) + Len(frame.body) = sent
    <3>1. AtBlock(Len(got) + Len(buf) + Len(frame.body), left, plan.compressed, open).v
            = Len(got) + Len(buf) + Len(frame.body)
      <4>1. \A v, n, c, l : AtBlock(v, n, c, l).v = v
        BY PlacesCount
      <4> QED BY <4>1, Zenon
    <3> QED BY <1>5, <2>1, <3>1
  <2>4. ~frame.open
    <3> SUFFICES ASSUME frame.open PROVE FALSE
      OBVIOUS
    <3>1. /\ buf = <<>> /\ Len(<<>>) = 0
          /\ Len(frame.body) < frame.size /\ frame.size <= want
      BY <1>4 DEF FrameOpen
    <3>2. want - 0 - Len(frame.body) = 0
      BY <2>2, <3>1 DEF left
    <3> QED BY <1>3, <3>1, <3>2
  <2>5. Len(frame.body) = 0
    BY <1>4, <2>4 DEF NoFrame
  <2> QED BY <1>3, <1>4, <2>3, <2>4, <2>5
<1> QED BY <1>3, <1>6, <1>7, <1>8

(* What a call flushed does not depend on a later one to be delivered: once *)
(* the socket is drained, all that was written is with the consumer or      *)
(* decoded for it, none of it in ChunkedStream's buffer, in a chunk or in   *)
(* a frame of which a part is missing.                                      *)
THEOREM NothingIsStranded ==
  ASSUME Fits, WritesWhole
  PROVE  Spec => []NothingStranded
<1>1. SInv /\ LInv /\ Emptied => NothingStranded
  <2> SUFFICES ASSUME SInv, LInv, Emptied, job = <<>>, flushed = sent,
                      wire = <<>>, stage # "corrupt"
               PROVE  got \o buf = [i \in 1 .. sent |-> i] /\ ~frame.open
    BY DEF NothingStranded
  <2>1. /\ Len(got) + Len(buf) = sent /\ ~frame.open
        /\ buf = Numbers(Len(got), Len(buf))
    BY AllIsRead DEF Emptied
  <2>2. got = Numbers(0, Len(got)) /\ Len(got) \in Nat /\ Len(buf) \in Nat
    BY LenProperties DEF LInv, SInv, ReaderInv
  <2>3. \A g, b \in Nat : Numbers(0, g) \o Numbers(g, b) = Numbers(0, g + b)
    <3> SUFFICES ASSUME NEW g \in Nat, NEW b \in Nat
                 PROVE  Numbers(0, g) \o Numbers(g, b) = Numbers(0, g + b)
      OBVIOUS
    <3>1. 0 \in Nat /\ 0 + g = g
      OBVIOUS
    <3>2. Numbers(0, g) \o Numbers(0 + g, b) = Numbers(0, g + b)
      BY <3>1, NumbersJoined
    <3> QED BY <3>1, <3>2
  <2>4. got \o buf = Numbers(0, sent)
    BY <2>1, <2>2, <2>3
  <2>5. Numbers(0, sent) = [i \in 1 .. sent |-> i]
    <3>1. sent \in Nat
      BY Constants
    <3> QED BY <3>1 DEF Numbers
  <2> QED BY <2>1, <2>4, <2>5
<1>2. Init => Emptied
  BY DEF Init, Emptied
<1>3. SInv /\ LInv /\ Emptied /\ [Next]_vars => Emptied'
  BY EmptiedStep
<1> QED BY <1>1, <1>2, <1>3, LInvAlways, PTL DEF Spec
==============================================================================
