---------------------------- MODULE Promise_proof ----------------------------
(***************************************************************************)
(* Theorems of Connection, for callers who keep to the protocol: what a    *)
(* call returns is all of what the server sent for it; and Connection      *)
(* implements Session, for those who make no call after one that failed on *)
(* the client's side: every step of the connection is a step of the        *)
(* promise, or none.                                                       *)
(*                                                                         *)
(* Between what was sent and what is returned lies what is on the way.     *)
(* The invariant names a value for each place in it: what the loop will    *)
(* have collected once it has read so far.  The first is what it has now,  *)
(* each follows from the one before and the packet between them, and the   *)
(* last is what was sent.                                                  *)
(***************************************************************************)
EXTENDS Connection_proof

(* What read_query_response makes of a packet it has not read yet; one it  *)
(* cannot decode ends the call, and counts as the server counts it.        *)
Gathers(res, p) ==
  IF p.body = "undecodable" THEN [res EXCEPT !.header = TRUE] ELSE Collect(res, p)

(* Progress counts if it will be read behind the schema block. *)
Counts(i) ==
  /\ s2c[i].type = "Progress"
  /\ wait = "drain" \/ \E j \in DOMAIN s2c : j < i /\ s2c[j].type = "Data"

Link(i, v) ==
  IF wait = "select" THEN Gathers(v, s2c[i])
  ELSE IF Counts(i) THEN Accumulate(v, s2c[i].delta) ELSE v

Collected == IF wait = "select" THEN result ELSE insert_progress

(* QueryResult has no place for two kinds of metadata. *)
Kept(res) == [res EXCEPT !.side = @ \ {"TableColumns", "TimezoneUpdate"}]

Due == IF wait = "select" THEN Kept(sent.result) ELSE sent.drain

Blank == IF wait = "select" THEN EmptyResult ELSE None

Chain(r) ==
  /\ r[0] = Collected /\ r[Len(s2c)] = Due
  /\ \A i \in 1..Len(s2c) : r[i] = Link(i, r[i - 1])

Linked ==
  /\ pc \in {"write", "read"} /\ wait # "pong" =>
       IF serving.req = call THEN \E r : Chain(r) ELSE Collected = Blank
  /\ pc = "idle" /\ outcome = "ok" /\ wait \in {"select", "drain"} =>
       Collected = Due

-----------------------------------------------------------------------------
(* Chains. *)

LEMMA LinkedKept ==
  ASSUME Linked, pc' = pc \/ (pc \in {"write", "read"} /\ pc' \in {"write", "read"}),
         UNCHANGED <<wait, result, insert_progress, outcome, call, s2c, sent>>,
         serving'.req = serving.req
  PROVE  Linked'
<1>1. Collected' = Collected /\ Blank' = Blank
  BY DEF Collected, Blank
<1>2. Due' = Due
  BY DEF Due
<1>3. ASSUME NEW r, Chain(r) PROVE Chain(r)'
  <2>1. ASSUME NEW i, NEW v PROVE Link(i, v)' = Link(i, v)
    BY DEF Link, Counts
  <2> QED BY <1>1, <1>2, <1>3, <2>1 DEF Chain
<1>4. (\E r : Chain(r)) => (\E r : Chain(r)')
  BY <1>3
<1>5. CASE pc' \in {"write", "read"}
  <2>1. pc \in {"write", "read"}
    BY <1>5
  <2>2. CASE wait = "pong"
    BY <1>5, <2>2 DEF Linked
  <2>3. CASE wait # "pong" /\ serving.req = call
    BY <1>4, <1>5, <2>1, <2>3 DEF Linked
  <2>4. CASE wait # "pong" /\ serving.req # call
    BY <1>1, <1>5, <2>1, <2>4 DEF Linked
  <2> QED BY <2>2, <2>3, <2>4
<1>6. CASE pc' \notin {"write", "read"}
  BY <1>1, <1>2, <1>6 DEF Linked
<1> QED BY <1>5, <1>6

(* Reading takes the first link off. *)
LEMMA ChainRead ==
  ASSUME NEW r, Chain(r), s2c \in Seq(ServerPackets), s2c # <<>>,
         s2c' = Tail(s2c), Collected' = Link(1, Collected), Due' = Due,
         \/ wait' = wait /\ wait \in {"select", "drain"}
         \/ wait' = wait /\ wait = "schema" /\ Head(s2c).type # "Data"
         \/ wait = "schema" /\ wait' = "drain" /\ Head(s2c).type = "Data"
  PROVE  /\ \E t : Chain(t)'
         /\ s2c' = <<>> => Collected' = Due'
<1>1. /\ Len(s2c) \in Nat \ {0} /\ Head(s2c) = s2c[1]
      /\ DOMAIN s2c = 1..Len(s2c)
      /\ Len(Tail(s2c)) = Len(s2c) - 1
      /\ DOMAIN Tail(s2c) = 1..(Len(s2c) - 1)
      /\ \A i \in 1..(Len(s2c) - 1) : Tail(s2c)[i] = s2c[i + 1]
  BY EmptySeq, LenProperties, HeadTailProperties
<1>2. PICK n \in Nat : n = Len(s2c) - 1
  <2>1. Len(s2c) - 1 \in Nat
    BY <1>1
  <2> QED BY <2>1
<1>3. /\ n \in Nat /\ Len(s2c) = n + 1 /\ Len(s2c') = n
      /\ DOMAIN s2c = 1..n + 1 /\ DOMAIN s2c' = 1..n
      /\ \A i \in 1..n : s2c'[i] = s2c[i + 1]
  <2>1. n + 1 = Len(s2c)
    BY <1>1, <1>2
  <2> QED BY <1>1, <1>2, <2>1
<1> DEFINE t == [i \in 0..n |-> r[i + 1]]
<1>4. ASSUME NEW i \in 1..n, wait # "select"
      PROVE  Counts(i)' <=> Counts(i + 1)
  <2>1. s2c'[i] = s2c[i + 1]
    BY <1>3
  <2>2. CASE wait = "drain" /\ wait' = "drain"
    BY <2>1, <2>2 DEF Counts
  <2>3. CASE wait = "schema" /\ wait' = "drain" /\ s2c[1].type = "Data"
    <3>1. 1 \in DOMAIN s2c /\ 1 < i + 1
      BY <1>3
    <3> QED BY <2>1, <2>3, <3>1 DEF Counts
  <2>4. CASE wait' = wait /\ wait # "drain" /\ s2c[1].type # "Data"
    <3>1. ASSUME NEW j \in 1..n, j < i, s2c'[j].type = "Data"
          PROVE  \E k \in DOMAIN s2c : k < i + 1 /\ s2c[k].type = "Data"
      <4>1. j + 1 \in DOMAIN s2c /\ j + 1 < i + 1 /\ s2c[j + 1] = s2c'[j]
        BY <1>3, <3>1
      <4> QED BY <3>1, <4>1
    <3>2. ASSUME NEW k \in 1..n + 1, k < i + 1, s2c[k].type = "Data"
          PROVE  \E j \in DOMAIN s2c' : j < i /\ s2c'[j].type = "Data"
      <4>1. k # 1
        BY <2>4, <3>2
      <4>2. PICK j \in 1..n : j + 1 = k
        <5>1. k - 1 \in 1..n /\ k - 1 + 1 = k
          BY <4>1, <1>3
        <5> QED BY <5>1
      <4>3. j < i /\ s2c'[j] = s2c[k]
        BY <1>3, <3>2, <4>2
      <4> QED BY <1>3, <3>2, <4>3
    <3> QED BY <1>3, <2>1, <2>4, <3>1, <3>2 DEF Counts
  <2> QED BY <1>1, <1>4, <2>2, <2>3, <2>4
<1>5. /\ r[0] = Collected /\ r[n + 1] = Due
      /\ \A i \in 1..n + 1 : r[i] = Link(i, r[i - 1])
  BY <1>3 DEF Chain
<1>6. t[0] = Collected' /\ t[n] = Due'
  <2>1. 1 \in 1..n + 1 /\ 1 - 1 = 0 /\ 0 \in 0..n /\ n \in 0..n /\ 0 + 1 = 1
    BY <1>3
  <2>2. r[1] = Link(1, r[0])
    BY <1>5, <2>1
  <2> QED BY <1>5, <2>1, <2>2
<1>7. ASSUME NEW i \in 1..n PROVE t[i] = Link(i, t[i - 1])'
  <2>1. /\ i \in 0..n /\ i - 1 \in 0..n /\ i + 1 \in 1..n + 1
        /\ i - 1 + 1 = i /\ i + 1 - 1 = i
    BY <1>3
  <2>2. t[i] = r[i + 1] /\ t[i - 1] = r[i]
    BY <2>1
  <2>3. r[i + 1] = Link(i + 1, r[i])
    BY <1>5, <2>1
  <2>4. s2c'[i] = s2c[i + 1] /\ (wait' = "select" <=> wait = "select")
    BY <1>3
  <2> HIDE DEF t
  <2> QED BY <1>4, <2>2, <2>3, <2>4 DEF Link
<1> HIDE DEF t
<1>8. Chain(t)'
  BY <1>3, <1>6, <1>7 DEF Chain
<1>9. ASSUME s2c' = <<>> PROVE Collected' = Due'
  <2>1. n = 0
    BY <1>3, <1>9, EmptySeq
  <2> QED BY <1>6, <2>1
<1> QED BY <1>8, <1>9
(* What the server sends becomes the last link. *)
LEMMA ChainPosted ==
  ASSUME NEW r, Chain(r), s2c \in Seq(ServerPackets), wait # "pong",
         NEW type, NEW body, NEW delta, Post(type, body, delta),
         UNCHANGED <<wait, result, insert_progress>>,
         wait = "select" => Due' = Gathers(Due, ServerPacket(type, body, delta)),
         wait # "select" =>
           Due' = IF type = "Progress" /\ (wait = "drain" \/ Has("Data"))
                  THEN Accumulate(Due, delta) ELSE Due
  PROVE  \E t : Chain(t)'
<1>0. wait' = wait
  OBVIOUS
<1> DEFINE p == ServerPacket(type, body, delta)
<1>1. PICK n \in Nat : n = Len(s2c)
  BY LenProperties
<1>2. /\ n \in Nat /\ Len(s2c) = n /\ Len(s2c') = n + 1
      /\ DOMAIN s2c = 1..n /\ DOMAIN s2c' = 1..n + 1
      /\ \A i \in 1..n : s2c'[i] = s2c[i]
      /\ s2c'[n + 1] = p
  BY <1>1 DEF Post
<1>3. p.type = type /\ p.delta = delta
  BY DEF ServerPacket
<1> HIDE DEF p
<1>4. ASSUME NEW i \in 1..n PROVE Counts(i)' <=> Counts(i)
  <2>1. \A j \in 1..n : j < i => s2c'[j] = s2c[j]
    BY <1>2
  <2>2. ASSUME NEW j \in 1..n + 1, j < i PROVE j \in 1..n
    BY <1>2, <2>2
  <2> QED BY <1>2, <2>1, <2>2 DEF Counts
<1>5. Counts(n + 1)' <=> type = "Progress" /\ (wait = "drain" \/ Has("Data"))
  <2>1. \A j \in 1..n + 1 : j < n + 1 <=> j \in 1..n
    BY <1>2
  <2> QED BY <1>2, <1>3, <2>1 DEF Counts, Has
<1>6. /\ r[0] = Collected /\ r[n] = Due
      /\ \A i \in 1..n : r[i] = Link(i, r[i - 1])
  BY <1>2 DEF Chain
<1>d. PICK d : d = Due'
  OBVIOUS
<1> DEFINE t == [i \in 0..n + 1 |-> IF i = n + 1 THEN d ELSE r[i]]
<1>7. /\ t[n + 1] = Due'
      /\ \A i \in 0..n : t[i] = r[i]
  BY <1>2, <1>d
<1> HIDE DEF t
<1>8. t[0] = Collected'
  <2>1. Collected' = Collected
    BY DEF Collected
  <2> QED BY <1>2, <1>6, <1>7, <2>1
<1>9. ASSUME NEW i \in 1..n PROVE t[i] = Link(i, t[i - 1])'
  <2>1. t[i] = r[i] /\ t[i - 1] = r[i - 1] /\ s2c'[i] = s2c[i]
    BY <1>2, <1>7
  <2>2. r[i] = Link(i, r[i - 1])
    BY <1>6
  <2> QED BY <1>0, <1>4, <2>1, <2>2 DEF Link
<1>10. t[n + 1] = Link(n + 1, t[n])'
  <2>1. t[n] = Due
    BY <1>2, <1>6, <1>7
  <2>2. CASE wait = "select"
    <3>1. t[n + 1] = Gathers(Due, p)
      BY <1>7, <2>2 DEF p
    <3> QED BY <1>0, <1>2, <2>1, <2>2, <3>1 DEF Link
  <2>3. CASE wait # "select"
    BY <1>0, <1>2, <1>3, <1>5, <1>7, <2>1, <2>3 DEF Link
  <2> QED BY <2>2, <2>3
<1>11. ASSUME NEW i \in 1..n + 1 PROVE t[i] = Link(i, t[i - 1])'
  <2>1. CASE i \in 1..n
    BY <1>9, <2>1
  <2>2. CASE i = n + 1
    <3>1. i - 1 = n
      BY <1>2, <2>2
    <3> QED BY <1>10, <2>2, <3>1
  <2> QED BY <1>2, <2>1, <2>2
<1>12. Chain(t)'
  <2>1. t[0] = Collected' /\ t[n + 1] = Due'
    BY <1>7, <1>8
  <2> QED BY <1>2, <1>11, <2>1 DEF Chain
<1> QED BY <1>12
-----------------------------------------------------------------------------
(* The server sends. *)

LEMMA PostLinked ==
  ASSUME IInv, Linked, ~tainted, ServerFree, Answering,
         NEW type, NEW body, NEW delta, Post(type, body, delta),
         UNCHANGED <<client, serving>>,
         wait = "select" => Due' = Gathers(Due, ServerPacket(type, body, delta)),
         wait # "select" =>
           Due' = IF type = "Progress" /\ (wait = "drain" \/ Has("Data"))
                  THEN Accumulate(Due, delta) ELSE Due
  PROVE  Linked'
<1>1. /\ UNCHANGED <<wait, result, insert_progress, pc, call>>
      /\ s2c \in Seq(ServerPackets)
  BY DEF client, issued, place, returned, gathered, IInv, TypeOK
<1>2. /\ serving.req = call /\ wait # "pong" /\ pc \in {"write", "read"}
  BY AnsweringDuring DEF During
<1>3. PICK r : Chain(r)
  BY <1>2 DEF Linked
<1>4. \E t : Chain(t)'
  BY <1>1, <1>2, <1>3, ChainPosted
<1> QED BY <1>1, <1>2, <1>4 DEF Linked

(* A result is its three fields, and with one replaced it is the others. *)
LEMMA ResultFields ==
  ASSUME NEW res \in Results
  PROVE  /\ res = [header |-> res.header, rows |-> res.rows, side |-> res.side]
         /\ \A x : [res EXCEPT !.header = x] =
                    [header |-> x, rows |-> res.rows, side |-> res.side]
         /\ \A x : [res EXCEPT !.rows = x] =
                    [header |-> res.header, rows |-> x, side |-> res.side]
         /\ \A x : [res EXCEPT !.side = x] =
                    [header |-> res.header, rows |-> res.rows, side |-> x]
         /\ \A x, y : [res EXCEPT !.header = x, !.rows = y] =
                       [header |-> x, rows |-> y, side |-> res.side]
<1>1. res = [header |-> res.header, rows |-> res.rows, side |-> res.side]
  BY DEF Results
<1>2. \A x : [res EXCEPT !.header = x] =
               [header |-> x, rows |-> res.rows, side |-> res.side]
  BY <1>1
<1>3. \A x : [res EXCEPT !.rows = x] =
               [header |-> res.header, rows |-> x, side |-> res.side]
  BY <1>1
<1>4. \A x : [res EXCEPT !.side = x] =
               [header |-> res.header, rows |-> res.rows, side |-> x]
  BY <1>1
<1>5. ASSUME NEW x, NEW y
      PROVE  [res EXCEPT !.header = x, !.rows = y] =
               [header |-> x, rows |-> y, side |-> res.side]
  <2>1. PICK first : first = [res EXCEPT !.header = x]
    OBVIOUS
  <2>2. first = [header |-> x, rows |-> res.rows, side |-> res.side]
    BY <1>1, <2>1
  <2>3. [first EXCEPT !.rows = y] = [header |-> x, rows |-> y, side |-> res.side]
    BY ONLY <2>2
  <2>4. [res EXCEPT !.header = x, !.rows = y] = [first EXCEPT !.rows = y]
    BY ONLY <2>1
  <2> QED BY ONLY <2>3, <2>4
<1> QED BY ONLY <1>1, <1>2, <1>3, <1>4, <1>5, Zenon

(* The server counts what it sends as the client will count it. *)
LEMMA GathersAsSent ==
  ASSUME NEW res \in Results, NEW p
  PROVE  /\ p.type = "Data" /\ p.body = "undecodable" =>
              Gathers(Kept(res), p) = Kept([res EXCEPT !.header = TRUE])
         /\ p.type = "Data" /\ p.body = "header" /\ ~res.header =>
              Gathers(Kept(res), p) = Kept([res EXCEPT !.header = TRUE])
         /\ p.type = "Data" /\ p.body = "rows" /\ res.header =>
              Gathers(Kept(res), p) = Kept([res EXCEPT !.rows = Append(@, p.delta)])
         /\ p.type = "Data" /\ p.body = "empty" /\ res.header =>
              Gathers(Kept(res), p) = Kept(res)
         /\ p.type \in AllSideTypes /\ p.body = "none" =>
              Gathers(Kept(res), p) = Kept([res EXCEPT !.side = @ \cup {p.type}])
         /\ p.type \in {"Progress", "EndOfStream", "Exception"} /\ p.body = "none" =>
              Gathers(Kept(res), p) = Kept(res)
<1> DEFINE without == res.side \ {"TableColumns", "TimezoneUpdate"}
<1>1. /\ res = [header |-> res.header, rows |-> res.rows, side |-> res.side]
      /\ res.header \in BOOLEAN /\ res.rows \in Seq(Nat)
  BY DEF Results
<1>2. Kept(res) = [header |-> res.header, rows |-> res.rows, side |-> without]
  <2>1. Kept(res) = [res EXCEPT !.side = without]
    BY DEF Kept
  <2>2. \A x : [res EXCEPT !.side = x] =
                 [header |-> res.header, rows |-> res.rows, side |-> x]
    BY ResultFields
  <2> HIDE DEF without
  <2> QED BY ONLY <2>1, <2>2, Zenon
<1>3. ASSUME p.type = "Data" /\ p.body = "undecodable"
      PROVE  Gathers(Kept(res), p) = Kept([res EXCEPT !.header = TRUE])
  BY <1>1, <1>2, <1>3 DEF Gathers, Kept, AllSideTypes
<1>4. ASSUME p.type = "Data" /\ p.body = "header" /\ ~res.header
      PROVE  Gathers(Kept(res), p) = Kept([res EXCEPT !.header = TRUE])
  BY <1>1, <1>2, <1>4 DEF Gathers, Collect, Kept, AllSideTypes
<1>5. ASSUME p.type = "Data" /\ p.body = "rows" /\ res.header
      PROVE  Gathers(Kept(res), p) = Kept([res EXCEPT !.rows = Append(@, p.delta)])
  BY <1>1, <1>2, <1>5 DEF Gathers, Collect, Kept, AllSideTypes
<1>6. ASSUME p.type = "Data" /\ p.body = "empty" /\ res.header
      PROVE  Gathers(Kept(res), p) = Kept(res)
  BY <1>1, <1>2, <1>6 DEF Gathers, Collect, Kept, AllSideTypes
<1>7. ASSUME p.type \in AllSideTypes /\ p.body = "none"
      PROVE  Gathers(Kept(res), p) = Kept([res EXCEPT !.side = @ \cup {p.type}])
  <2>1. CASE p.type \in {"TableColumns", "TimezoneUpdate"}
    <3>1. (res.side \cup {p.type}) \ {"TableColumns", "TimezoneUpdate"} = without
      BY <2>1
    <3> QED BY <1>1, <1>2, <1>7, <2>1, <3>1 DEF Gathers, Collect, Kept
  <2>2. CASE p.type \notin {"TableColumns", "TimezoneUpdate"}
    <3>1. (res.side \cup {p.type}) \ {"TableColumns", "TimezoneUpdate"}
            = without \cup {p.type}
      BY <2>2
    <3>2. p.type \in {"Totals", "Extremes", "ProfileInfo", "Log", "ProfileEvents"}
      BY <1>7, <2>2 DEF AllSideTypes
    <3> QED BY <1>1, <1>2, <1>7, <3>1, <3>2 DEF Gathers, Collect, Kept
  <2> QED BY <2>1, <2>2
<1>8. ASSUME p.type \in {"Progress", "EndOfStream", "Exception"} /\ p.body = "none"
      PROVE  Gathers(Kept(res), p) = Kept(res)
  BY <1>2, <1>8 DEF Gathers, Collect
<1> HIDE DEF without
<1> QED BY ONLY <1>3, <1>4, <1>5, <1>6, <1>7, <1>8, Zenon

LEMMA AnsweringPlace ==
  ASSUME IInv, ~tainted, ServerFree, Answering
  PROVE  /\ srv \in {"body", "finish"} =>
              wait # "select" /\ (wait = "drain" \/ Has("Data"))
         /\ srv \notin {"body", "finish"} =>
              (wait # "select" => wait # "drain" /\ ~Has("Data"))
         /\ srv = "setup" => wait # "select"
         /\ srv = "answer" /\ serving.body = "select" => wait = "select"
<1>1. Progressed /\ srv \in {"answer", "setup", "body", "finish"}
  BY AnsweringDuring DEF During, Answering
<1> QED BY <1>1 DEF Progressed

LEMMA RepliesLinked ==
  ASSUME IInv, ~tainted => Linked, ~tainted',
         \/ \E body \in {"header", "rows", "empty"} : SendBlock(body)
         \/ SendUndecodable \/ SendProgress
         \/ \E type \in SideTypes : SendSide(type)
         \/ \E body \in {"header", "undecodable"} : SendSchema(body)
         \/ Finish \/ Throw
  PROVE  Linked'
<1>1. /\ ~tainted /\ ServerFree /\ Answering /\ UNCHANGED <<client, serving>>
  BY DEF SendBlock, SendUndecodable, SendProgress, SendSide, SendSchema,
         Finish, Throw, Extra, Answering, client, returned
<1>2. wait' = wait
  BY <1>1 DEF client, place
<1>3. /\ sent.result \in Results /\ sent.drain \in Nat \cup {None}
      /\ sent = [result |-> sent.result,
                 drain |-> sent.drain, end |-> sent.end]
  BY DEF IInv, TypeOK
<1>4. /\ sent.result = [header |-> sent.result.header,
                        rows |-> sent.result.rows, side |-> sent.result.side]
      /\ sent.result.rows \in Seq(Nat) /\ sent.result.header \in BOOLEAN
  BY <1>3 DEF Results
<1>31. sent = [result |-> sent.result,
               drain |-> sent.drain, end |-> sent.end]
  BY <1>3
<1>5. ASSUME NEW type, NEW body, NEW delta, Post(type, body, delta),
             wait = "select" =>
               Kept(sent'.result) =
                 Gathers(Kept(sent.result), ServerPacket(type, body, delta)),
             wait # "select" =>
               sent'.drain = IF type = "Progress"
                                  /\ (wait = "drain" \/ Has("Data"))
                             THEN Accumulate(sent.drain, delta) ELSE sent.drain
      PROVE  Linked'
  <2>1. wait = "select" =>
          Due' = Gathers(Due, ServerPacket(type, body, delta))
    BY <1>2, <1>5 DEF Due, Kept
  <2>2. wait # "select" =>
          Due' = IF type = "Progress" /\ (wait = "drain" \/ Has("Data"))
                 THEN Accumulate(Due, delta) ELSE Due
    BY <1>2, <1>5 DEF Due
  <2> QED BY <1>1, <1>5, <2>1, <2>2, PostLinked
<1>6. ASSUME NEW type, NEW body, NEW delta, NEW p,
             p = ServerPacket(type, body, delta)
      PROVE  /\ type = "Data" /\ body = "undecodable" =>
                  Gathers(Kept(sent.result), p) =
                    Kept([sent.result EXCEPT !.header = TRUE])
             /\ type = "Data" /\ body = "header" /\ ~sent.result.header =>
                  Gathers(Kept(sent.result), p) =
                    Kept([sent.result EXCEPT !.header = TRUE])
             /\ type = "Data" /\ body = "rows" /\ sent.result.header =>
                  Gathers(Kept(sent.result), p) =
                    Kept([sent.result EXCEPT !.rows = Append(@, delta)])
             /\ type = "Data" /\ body = "empty" /\ sent.result.header =>
                  Gathers(Kept(sent.result), p) = Kept(sent.result)
             /\ type \in AllSideTypes /\ body = "none" =>
                  Gathers(Kept(sent.result), p) =
                    Kept([sent.result EXCEPT !.side = @ \cup {type}])
             /\ type \in {"Progress", "EndOfStream", "Exception"}
                  /\ body = "none" =>
                  Gathers(Kept(sent.result), p) = Kept(sent.result)
  <2>1. p.type = type /\ p.body = body /\ p.delta = delta
    BY <1>6 DEF ServerPacket
  <2> QED BY <1>3, <2>1, GathersAsSent
<1>7. ASSUME NEW body \in {"header", "rows", "empty"}, SendBlock(body)
      PROVE  Linked'
  <2> DEFINE n == BlockNumber(body)
  <2>1. /\ Post("Data", body, n) /\ wait = "select"
        /\ body = "header" <=> ~sent.result.header
    BY <1>1, <1>7, AnsweringPlace DEF SendBlock, Extra
  <2>2. sent'.result =
          [sent.result EXCEPT !.header = TRUE,
                              !.rows = IF body = "rows" THEN Append(@, n) ELSE @]
    BY <1>3, <1>4, <1>7 DEF SendBlock
  <2> HIDE DEF n
  <2>3. /\ body = "header" => sent'.result = [sent.result EXCEPT !.header = TRUE]
        /\ body = "rows" => sent'.result = [sent.result EXCEPT !.rows = Append(@, n)]
        /\ body = "empty" => sent'.result = sent.result
    <3> DEFINE res == sent.result
    <3>1. /\ res = [header |-> res.header, rows |-> res.rows, side |-> res.side]
          /\ [res EXCEPT !.header = TRUE] =
               [header |-> TRUE, rows |-> res.rows, side |-> res.side]
          /\ [res EXCEPT !.rows = Append(@, n)] =
               [header |-> res.header, rows |-> Append(res.rows, n), side |-> res.side]
          /\ sent'.result =
               [header |-> TRUE, side |-> res.side,
                rows |-> IF body = "rows" THEN Append(res.rows, n) ELSE res.rows]
      BY <1>3, <2>2, ResultFields
    <3>2. body # "header" => res.header = TRUE
      BY <1>4, <2>1
    <3> HIDE DEF res
    <3>3. CASE body = "header"
      BY <3>1, <3>3 DEF res
    <3>4. CASE body = "rows"
      BY <3>1, <3>2, <3>4 DEF res
    <3>5. CASE body = "empty"
      BY <3>1, <3>2, <3>5 DEF res
    <3> QED BY <3>3, <3>4, <3>5
  <2>4. Kept(sent'.result) =
          Gathers(Kept(sent.result), ServerPacket("Data", body, n))
    <3>1. PICK p : p = ServerPacket("Data", body, n)
      OBVIOUS
    <3>2. /\ body = "header" => Gathers(Kept(sent.result), p) =
                                  Kept([sent.result EXCEPT !.header = TRUE])
          /\ body = "rows" => Gathers(Kept(sent.result), p) =
                                Kept([sent.result EXCEPT !.rows = Append(@, n)])
          /\ body = "empty" => Gathers(Kept(sent.result), p) = Kept(sent.result)
      BY <1>6, <2>1, <3>1
    <3> QED BY <2>3, <3>1, <3>2
  <2> QED BY <1>5, <2>1, <2>4
<1>8. CASE SendUndecodable
  <2>1. /\ Post("Data", "undecodable", 0) /\ wait = "select"
    BY <1>1, <1>8, AnsweringPlace DEF SendUndecodable, Extra
  <2>2. sent'.result = [sent.result EXCEPT !.header = TRUE]
    BY <1>3, <1>8 DEF SendUndecodable
  <2>3. Kept(sent'.result) =
          Gathers(Kept(sent.result), ServerPacket("Data", "undecodable", 0))
    BY <1>6, <2>2
  <2> QED BY <1>5, <2>1, <2>3
<1>9. CASE SendProgress
  <2>1. Post("Progress", "none", 1)
    BY <1>9 DEF SendProgress, Extra
  <2>2. /\ sent'.result = sent.result
        /\ sent'.drain = IF srv \in {"body", "finish"} THEN Tally(sent.drain)
                         ELSE sent.drain
    BY <1>3, <1>9 DEF SendProgress
  <2>3. Kept(sent'.result) =
          Gathers(Kept(sent.result), ServerPacket("Progress", "none", 1))
    BY <1>6, <2>2
  <2>4. wait # "select" =>
          sent'.drain = IF wait = "drain" \/ Has("Data")
                        THEN Accumulate(sent.drain, 1) ELSE sent.drain
    BY <1>1, <2>2, AnsweringPlace DEF Tally, Accumulate
  <2> QED BY <1>5, <2>1, <2>3, <2>4
<1>10. ASSUME NEW type \in SideTypes, SendSide(type) PROVE Linked'
  <2>1. Post(type, "none", 0) /\ type \in AllSideTypes
    BY <1>10, ConstantsAssumption DEF SendSide, Extra
  <2>11. sent' = [sent EXCEPT !.result.side = @ \cup {type}]
    BY <1>10 DEF SendSide
  <2>12. /\ sent'.result = [sent.result EXCEPT !.side = @ \cup {type}]
         /\ sent'.drain = sent.drain
    <3>1. PICK new : new = [sent.result EXCEPT !.side = @ \cup {type}]
      OBVIOUS
    <3>2. sent' = [sent EXCEPT !.result = new]
      BY ONLY <2>11, <3>1
    <3>3. sent'.result = new /\ sent'.drain = sent.drain
      BY ONLY <1>31, <3>2
    <3> QED BY ONLY <3>1, <3>3
  <2>13. type # "Progress"
    BY ONLY <2>1 DEF AllSideTypes
  <2>2. /\ sent'.result = [sent.result EXCEPT !.side = @ \cup {type}]
        /\ sent'.drain = sent.drain /\ type # "Progress"
    BY ONLY <2>12, <2>13
  <2>3. Kept(sent'.result) =
          Gathers(Kept(sent.result), ServerPacket(type, "none", 0))
    <3>1. PICK p : p = ServerPacket(type, "none", 0)
      OBVIOUS
    <3>2. Gathers(Kept(sent.result), p) =
            Kept([sent.result EXCEPT !.side = @ \cup {type}])
      BY <1>6, <2>1, <3>1, Zenon
    <3> QED BY ONLY <2>2, <3>1, <3>2, Zenon
  <2> QED BY <1>5, <2>1, <2>2, <2>3
<1>11. ASSUME NEW body, SendSchema(body) PROVE Linked'
  <2>1. /\ Post("Data", body, 0) /\ sent' = sent /\ wait # "select"
    BY <1>1, <1>11, AnsweringPlace DEF SendSchema
  <2> QED BY <1>5, <2>1
<1>12. CASE Finish
  <2>1. /\ Post("EndOfStream", "none", 0)
        /\ sent'.result = sent.result /\ sent'.drain = sent.drain
    BY <1>3, <1>12 DEF Finish
  <2>2. Kept(sent'.result) =
          Gathers(Kept(sent.result), ServerPacket("EndOfStream", "none", 0))
    BY <1>6, <2>1
  <2> QED BY <1>5, <2>1, <2>2
<1>13. CASE Throw
  <2>1. /\ Post("Exception", "none", 0)
        /\ sent'.result = sent.result /\ sent'.drain = sent.drain
    BY <1>3, <1>13 DEF Throw
  <2>2. Kept(sent'.result) =
          Gathers(Kept(sent.result), ServerPacket("Exception", "none", 0))
    BY <1>6, <2>1
  <2> QED BY <1>5, <2>1, <2>2
<1> QED BY <1>7, <1>8, <1>9, <1>10, <1>11, <1>12, <1>13

-----------------------------------------------------------------------------
(* The server takes a packet. *)

(* A chain of no links. *)
LEMMA ChainStart ==
  ASSUME s2c' = <<>>, Collected' = Due'
  PROVE  \E r : Chain(r)'
<1>1. PICK v : v = Collected'
  OBVIOUS
<1> DEFINE r == [i \in {0} |-> v]
<1>2. r[0] = v /\ Len(s2c') = 0
  OBVIOUS
<1>3. \A i \in 1..Len(s2c') : FALSE
  BY <1>2
<1> HIDE DEF r
<1>4. Chain(r)'
  BY <1>1, <1>2, <1>3 DEF Chain
<1> QED BY <1>4

LEMMA TakingLinked ==
  ASSUME IInv, TypeOK', ~tainted => Linked, ~tainted',
         TakePing \/ TakeQuery \/ TakeBlock \/ TakeMarker
  PROVE  Linked'
<1>1. /\ ~tainted /\ TypeOK /\ UNCHANGED client
      /\ UNCHANGED <<wait, result, insert_progress, outcome, call, pc>>
  BY DEF TakePing, TakeQuery, TakeBlock, TakeMarker, Take, IInv, client,
         issued, place, returned, gathered
<1>2. CASE TakeBlock \/ TakeMarker
  <2>1. UNCHANGED <<s2c, sent, serving>>
    BY <1>2 DEF TakeBlock, TakeMarker, server
  <2> QED BY <1>1, <2>1, LinkedKept
<1>3. ASSUME NEW type \in {"Ping", "Query"}, Take(type), srv = "idle"
      PROVE  /\ pc \in {"write", "read"} /\ s2c = <<>>
             /\ RequestAt(Out, 1) /\ Out[1].type = type
             /\ Out[1] = Head(c2s) /\ serving.req # call
  <2>1. /\ Len(Out) \in Nat \ {0} /\ Out[1] = Head(c2s) /\ Out # <<>>
        /\ Head(c2s).type = type /\ c2s # <<>>
    BY <1>1, <1>3, TakenMoves DEF Take
  <2>2. pc \in {"write", "read"} /\ s2c = <<>> /\ RequestAt(Out, 1)
    BY <1>1, <1>3, <2>1, RequestTaken
  <2>3. Before
    BY <1>1, <1>3, <2>1, <2>2 DEF IInv, InStep, During, Progressed
  <2>4. serving.req # call
    BY <1>1, <2>3 DEF Before, TypeOK
  <2> QED BY <2>1, <2>2, <2>4
<1>4. CASE TakePing
  <2>1. RequestAt(Out, 1) /\ Out[1].type = "Ping" /\ pc \in {"write", "read"}
    BY <1>3, <1>4 DEF TakePing
  <2>2. wait = "pong"
    BY <2>1 DEF RequestAt
  <2> QED BY <1>1, <2>1, <2>2 DEF Linked
<1>5. CASE TakeQuery
  <2>1. /\ RequestAt(Out, 1) /\ Out[1].type = "Query" /\ Out[1] = Head(c2s)
        /\ pc \in {"write", "read"} /\ s2c = <<>> /\ serving.req # call
    BY <1>3, <1>5 DEF TakeQuery
  <2>2. wait # "pong"
    BY <2>1 DEF RequestAt
  <2>3. Collected = Blank
    BY <1>1, <2>1, <2>2 DEF Linked
  <2>4. /\ serving'.req = call /\ s2c' = <<>>
        /\ sent'.result = EmptyResult /\ sent'.drain = None
    BY <1>5, <2>1 DEF TakeQuery, Serve, RequestAt
  <2>5. Kept(EmptyResult) = EmptyResult
    BY DEF Kept, EmptyResult
  <2>6. Collected' = Due'
    <3>1. CASE wait = "select"
      <4>1. Kept(sent'.result) = EmptyResult
        BY <2>4, <2>5
      <4>2. Due' = EmptyResult
        BY <1>1, <3>1, <4>1 DEF Due, Kept
      <4> QED BY <1>1, <2>3, <3>1, <4>2 DEF Collected, Blank
    <3>2. CASE wait # "select"
      BY <1>1, <2>3, <2>4, <3>2 DEF Collected, Due, Blank
    <3> QED BY <3>1, <3>2
  <2>7. \E r : Chain(r)'
    BY <2>4, <2>6, ChainStart
  <2> QED BY <1>1, <2>1, <2>2, <2>4, <2>7 DEF Linked
<1> QED BY <1>2, <1>4, <1>5

-----------------------------------------------------------------------------
(* The client writes, and reads. *)

LEMMA WritingLinked ==
  ASSUME IInv, ~tainted => Linked, ~tainted', Write \/ Flush \/ BrokenPipe
  PROVE  Linked'
<1>1. /\ ~tainted
      /\ \/ Flush
         \/ Write /\ UNCHANGED returned
  <2>1. CASE Write
    BY <2>1, NotTainted DEF Write, returned
  <2>2. CASE Flush
    BY <2>2 DEF Flush
  <2>3. CASE BrokenPipe
    BY <2>3, NotTainted DEF BrokenPipe
  <2> QED BY <2>1, <2>2, <2>3
<1>2. /\ UNCHANGED <<wait, result, insert_progress, outcome, call, s2c, sent,
                     serving>>
      /\ pc = "write" /\ pc' \in {"write", "read"}
  BY <1>1 DEF Write, Flush, issued, place, returned, gathered, server
<1> QED BY <1>1, <1>2, LinkedKept

(* A loop goes on with the rest of the chain, or returns at its end. *)
LEMMA LoopLinked ==
  ASSUME IInv, Linked, ~tainted, During, pc = "read", wait # "pong",
         s2c # <<>>, s2c' = Tail(s2c), Collected' = Link(1, Collected),
         NEW verdict, Settle(verdict),
         verdict = "ok" => Head(s2c).type \in Terminal /\ wait # "schema",
         wait = "schema" => Head(s2c).type # "Data",
         UNCHANGED <<wait, call, query_compression, protocol, srv, serving,
                     sent>>
  PROVE  Linked'
<1>1. /\ wait' = wait /\ wait \in {"select", "schema", "drain"}
      /\ s2c \in Seq(ServerPackets)
  BY DEF IInv, TypeOK
<1>2. Due' = Due
  BY DEF Due
<1>3. serving.req = call
  BY DEF During
<1>4. PICK r : Chain(r)
  BY <1>1, <1>3 DEF Linked
<1>5. /\ \E t : Chain(t)'
      /\ s2c' = <<>> => Collected' = Due'
  BY <1>1, <1>2, <1>4, ChainRead
<1>6. CASE verdict = "more"
  <2>1. pc' = "read"
    BY <1>6 DEF Settle, returned
  <2> QED BY <1>3, <1>5, <2>1 DEF Linked
<1>7. CASE verdict # "more"
  <2>1. pc' = "idle" /\ outcome' = verdict
    BY <1>7 DEF Settle, Return
  <2>2. verdict = "ok" => s2c' = <<>>
    BY TailAnswers
  <2> QED BY <1>5, <2>1, <2>2 DEF Linked
<1> QED BY <1>6, <1>7

LEMMA ReadingLinked ==
  ASSUME IInv, ~tainted => Linked, ~tainted',
         \/ ReadPong \/ ReadQueryResponse \/ ReadSchema \/ ReadInsertResponse
         \/ \E used \in BOOLEAN :
              \/ DecodeError(used)
              \/ \E verdict \in {"ok", "exception", "error", "more"} :
                   ReadFragment(verdict, used)
         \/ ReadEof
  PROVE  Linked'
<1>1. ~tainted
  BY NotTainted DEF ReadPong, ReadQueryResponse, ReadSchema,
     ReadInsertResponse, DecodeError, ReadFragment, ReadEof, SendBlocks,
     Settle, returned
<1>2. ~ReadEof /\ \A used \in BOOLEAN : ~DecodeError(used)
  BY NotTainted DEF ReadEof, DecodeError
<1>3. ASSUME Receiving
      PROVE  /\ pc = "read" /\ s2c # <<>> /\ During /\ Linked
             /\ Head(s2c).type # "Fragment"
             /\ Head(s2c) = s2c[1] /\ s2c \in Seq(ServerPackets)
  <2>1. During /\ s2c # <<>>
    BY <1>1, <1>3 DEF Receiving, IInv, InStep, Before
  <2>2. /\ s2c \in Seq(ServerPackets) /\ 1 \in DOMAIN s2c /\ Head(s2c) = s2c[1]
    BY <2>1, EmptySeq, LenProperties DEF IInv, TypeOK
  <2> QED BY <1>1, <1>3, <2>1, <2>2 DEF Receiving, During, Answers
<1>4. ASSUME NEW j \in DOMAIN s2c, j < 1, s2c \in Seq(ServerPackets) PROVE FALSE
  BY <1>4, LenProperties
<1>5. CASE ReadPong
  <2>1. PongVerdict(Head(s2c).type) # "more" /\ UNCHANGED wait /\ wait = "pong"
    BY <1>5 DEF ReadPong, CanRead, PongVerdict, place
  <2>2. pc' = "idle"
    BY <1>5, <2>1 DEF ReadPong, Settle, Return
  <2> QED BY <2>1, <2>2 DEF Linked
<1>6. CASE ReadQueryResponse
  <2> DEFINE v == SelectVerdict(Head(s2c).type)
  <2>1. v = "ok" => Head(s2c).type \in Terminal
    BY DEF SelectVerdict, Terminal
  <2>2. Settle(v)
    BY <1>6 DEF ReadQueryResponse
  <2> HIDE DEF v
  <2>3. /\ wait = "select" /\ Receiving /\ s2c' = Tail(s2c)
        /\ Head(s2c).body # "undecodable"
        /\ result' = Collect(result, Head(s2c))
        /\ UNCHANGED <<wait, call, query_compression, protocol, srv, serving,
                       sent>>
    BY <1>6 DEF ReadQueryResponse, CanRead, Readable, settled, issued, place,
                server
  <2>4. Collected' = Link(1, Collected)
    BY <1>3, <2>3 DEF Collected, Link, Gathers
  <2> QED BY <1>1, <1>3, <2>1, <2>2, <2>3, <2>4, LoopLinked
<1>7. CASE ReadInsertResponse
  <2> DEFINE v == DrainVerdict(Head(s2c).type)
  <2>1. v = "ok" => Head(s2c).type \in Terminal
    BY DEF DrainVerdict, Terminal
  <2>2. Settle(v)
    BY <1>7 DEF ReadInsertResponse
  <2> HIDE DEF v
  <2>3. /\ wait = "drain" /\ Receiving /\ s2c' = Tail(s2c)
        /\ insert_progress' = IF Head(s2c).type = "Progress"
                                THEN Accumulate(insert_progress, Head(s2c).delta)
                                ELSE insert_progress
        /\ UNCHANGED <<wait, call, query_compression, protocol, srv, serving,
                       sent>>
    BY <1>7 DEF ReadInsertResponse, CanRead, settled, issued, place, server
  <2>4. Collected' = Link(1, Collected)
    BY <1>3, <2>3 DEF Collected, Link, Counts
  <2> QED BY <1>1, <1>3, <2>1, <2>2, <2>3, <2>4, LoopLinked
<1>8. CASE ReadSchema
  <2>1. /\ wait = "schema" /\ Receiving /\ s2c' = Tail(s2c)
        /\ UNCHANGED <<insert_progress, call, query_compression, protocol, srv,
                       serving, sent>>
    BY <1>8 DEF ReadSchema, CanRead, settled, issued, gathered, server
  <2>2. wait' # "select"
    <3>1. CASE SendBlocks
      BY <3>1 DEF SendBlocks
    <3>2. CASE UNCHANGED place
      BY <2>1, <3>2 DEF place
    <3> QED BY <1>8, <3>1, <3>2 DEF ReadSchema
  <2>3. Collected' = Link(1, Collected)
    <3>1. ~Counts(1)
      BY <1>3, <1>4, <2>1 DEF Counts
    <3> QED BY <2>1, <2>2, <3>1 DEF Collected, Link
  <2>4. CASE Head(s2c).type = "Data"
    <3>1. pc' = "write" /\ wait' = "drain"
      BY <1>8, <2>4 DEF ReadSchema, SchemaVerdict, SendBlocks, Metadata
    <3>2. PICK r : Chain(r)
      BY <1>3, <2>1 DEF Linked, During
    <3>3. Due' = Due
      BY <2>1, <3>1 DEF Due
    <3>4. \E t : Chain(t)'
      BY <1>3, <2>1, <2>3, <2>4, <3>1, <3>2, <3>3, ChainRead
    <3> QED BY <1>3, <2>1, <3>1, <3>4 DEF Linked, During
  <2>5. CASE Head(s2c).type # "Data"
    <3> DEFINE v == SchemaVerdict(Head(s2c).type)
    <3>1. v # "schema" /\ v # "ok"
      BY <2>5 DEF SchemaVerdict
    <3>2. Settle(v) /\ UNCHANGED wait
      BY <1>8, <3>1 DEF ReadSchema, place
    <3> HIDE DEF v
    <3> QED BY <1>1, <1>3, <2>1, <2>3, <2>5, <3>1, <3>2, LoopLinked
  <2> QED BY <2>4, <2>5
<1>9. ASSUME NEW used \in BOOLEAN,
             NEW verdict \in {"ok", "exception", "error", "more"},
             ReadFragment(verdict, used)
      PROVE  FALSE
  BY <1>3, <1>9 DEF ReadFragment
<1> QED BY <1>2, <1>5, <1>6, <1>7, <1>8, <1>9

-----------------------------------------------------------------------------
(* The caller. *)

LEMMA CallerLinked ==
  ASSUME IInv, ~tainted', CallerStep
  PROVE  Linked'
<1>1. ASSUME NEW loop \in {"pong", "select", "schema"}, NEW packets,
             Begin(loop, packets), loop = "schema" => insert_progress' = None
      PROVE  Linked'
  <2>1. /\ pc = "idle" /\ pc' = "write" /\ wait' = loop /\ ~tainted
        /\ call' = call + 1 /\ result' = EmptyResult /\ serving' = serving
    BY <1>1 DEF Begin, MayCall, server
  <2>2. serving.req \in Nat /\ call \in Nat /\ serving.req <= call
    BY <2>1 DEF IInv, InStep, Quiet, TypeOK
  <2>3. serving'.req # call'
    BY <2>1, <2>2
  <2>4. wait' # "pong" => Collected' = Blank'
    BY <1>1, <2>1 DEF Collected, Blank
  <2> QED BY <2>1, <2>3, <2>4 DEF Linked
<1>2. CASE Ping
  BY <1>1, <1>2 DEF Ping
<1>3. ASSUME NEW s, NEW c, NEW t, QueryWith(s, c, t) PROVE Linked'
  BY <1>1, <1>3 DEF QueryWith
<1>4. ASSUME NEW s, NEW t, NEW b, InsertBlocksWith(s, t, b) PROVE Linked'
  BY <1>1, <1>4 DEF InsertBlocksWith
<1>5. CASE RefuseCompressedInsert
  BY <1>5 DEF RefuseCompressedInsert, MayCall, Linked
<1>6. CASE Drop
  BY <1>6 DEF Drop, Linked
<1> QED BY <1>2, <1>3, <1>4, <1>5, <1>6 DEF CallerStep

-----------------------------------------------------------------------------
(* The invariant, and the theorems. *)

LEMMA LinkedStep ==
  Protocol /\ IInv /\ (~tainted => Linked) /\ [Next]_vars
    => (~tainted' => Linked')
<1> SUFFICES ASSUME Protocol, IInv, ~tainted => Linked, [Next]_vars, ~tainted'
             PROVE  Linked'
  OBVIOUS
<1>1. TypeOK'
  BY TypeStep DEF IInv
<1>2. CASE CallerStep
  BY <1>2, CallerLinked
<1>3. CASE ClientStep
  BY <1>3, WritingLinked, ReadingLinked DEF ClientStep
<1>4. CASE ServerStep
  <2>1. CASE Surprised \/ Swallow
    <3>1. ~tainted
      BY <2>1 DEF Surprised, Swallow, client, returned
    <3> QED BY <2>1, <3>1, NeverSurprisedStep, NotBroken DEF Swallow
  <2> QED BY <1>1, <1>4, <2>1, RepliesLinked, TakingLinked DEF ServerStep
<1>5. CASE GiveUp
  <2>1. ~tainted
    BY <1>5 DEF GiveUp, client, returned
  <2> QED BY <1>5, <2>1, NotBroken DEF GiveUp
<1>6. CASE Close \/ Gone \/ UNCHANGED vars
  <2>1. UNCHANGED <<wait, result, insert_progress, outcome, call, s2c, sent, pc,
                    tainted, serving>>
    BY <1>6 DEF Close, Gone, vars, client, issued, place, returned, gathered,
                server
  <2> QED BY <2>1, LinkedKept
<1> QED BY <1>2, <1>3, <1>4, <1>5, <1>6 DEF Next

LEMMA LinkedInit == Init => Linked
BY DEF Init, Linked

LEMMA LinkedAlways == ASSUME Protocol PROVE Spec => [](IInv /\ (~tainted => Linked))
<1> DEFINE Inv == IInv /\ (~tainted => Linked)
<1>1. Init => Inv
  BY IInvInit, LinkedInit
<1>2. Inv /\ [Next]_vars => Inv'
  BY IInvStep, LinkedStep
<1> HIDE DEF Inv
<1>3. Spec => []Inv
  BY <1>1, <1>2, PTL DEF Spec
<1> QED BY <1>3 DEF Inv

(* query_with returns the whole answer, whatever the server sends and       *)
(* however its packets and the client's reads interleave: no block is lost, *)
(* counted twice or left unread, none is one of an earlier call, and of the *)
(* metadata only what QueryResult has no place for is dropped.              *)
THEOREM ResultsAreComplete == ASSUME Protocol PROVE Spec => []ResultIsComplete
<1>1. IInv /\ (~tainted => Linked) => ResultIsComplete
  BY DEF Linked, ResultIsComplete, Collected, Due, Kept
<1> QED BY <1>1, LinkedAlways, PTL

(* After insert_blocks_with, insert_progress is the sum of the increments   *)
(* the server sent behind the schema block, also of those it sent while the *)
(* client was still waiting for that block, and of no others.               *)
THEOREM ProgressIsComplete ==
  ASSUME Protocol PROVE Spec => []ProgressSinceSchema
<1>1. IInv /\ (~tainted => Linked) => ProgressSinceSchema
  BY DEF Linked, ProgressSinceSchema, Collected, Due
<1> QED BY <1>1, LinkedAlways, PTL

-----------------------------------------------------------------------------
(* Connection implements Session. *)

(* What is unread agrees with what the server decided. *)
Decided ==
  /\ srv \in {"tables", "answer", "setup", "body", "finish"} => sent.end = "none"
  /\ \A i \in DOMAIN s2c :
       /\ s2c[i].type \in {"Pong", "EndOfStream"} => sent.end = "ok"
       /\ s2c[i].type = "Exception" => sent.end = "exception"

Heeded == tainted => pc \in {"idle", "dropped"}

PInv == IInv /\ Heeded /\ (~tainted => Decided)

(* The promise's variables, by name. *)
Phase ==
  CASE pc = "dropped"           -> "closed"
    [] pc \in {"write", "read"} -> "busy"
    [] pc = "idle" /\ tainted   -> "failed"
    [] OTHER                    -> "ready"

Decision == IF serving.req = call /\ ~tainted THEN sent.end ELSE "none"

-----------------------------------------------------------------------------
(* The promise's steps, in terms of the connection. *)

LEMMA PhaseIs ==
  ASSUME TypeOK
  PROVE  /\ pc = "dropped" => Phase = "closed"
         /\ pc \in {"write", "read"} => Phase = "busy"
         /\ pc = "idle" /\ tainted => Phase = "failed"
         /\ pc = "idle" /\ ~tainted => Phase = "ready"
BY DEF Phase, TypeOK

LEMMA PhaseBecomes ==
  ASSUME TypeOK'
  PROVE  /\ pc' = "dropped" => Phase' = "closed"
         /\ pc' \in {"write", "read"} => Phase' = "busy"
         /\ pc' = "idle" /\ tainted' => Phase' = "failed"
         /\ pc' = "idle" /\ ~tainted' => Phase' = "ready"
BY DEF Phase, TypeOK

LEMMA Stutters ==
  ASSUME Phase' = Phase, Decision' = Decision, UNCHANGED <<call, outcome>>
  PROVE  [Promise!Next]_Promise!vars
BY DEF Promise!vars, Phase, Decision

LEMMA Starts ==
  ASSUME Phase = "ready", call < MaxCalls, Phase' = "busy", call' = call + 1,
         Decision' = "none", outcome' = "none"
  PROVE  [Promise!Next]_Promise!vars
BY DEF Promise!Next, Promise!Start, Phase, Decision

LEMMA Refuses ==
  ASSUME Phase = "ready", call < MaxCalls, Phase' = Phase, call' = call + 1,
         Decision' = "none", outcome' = "unsupported"
  PROVE  [Promise!Next]_Promise!vars
BY DEF Promise!Next, Promise!Refuse, Phase, Decision

LEMMA Decides ==
  ASSUME Phase = "busy", Decision = "none", Decision' \in {"ok", "exception"},
         Phase' = Phase, UNCHANGED <<call, outcome>>
  PROVE  [Promise!Next]_Promise!vars
BY DEF Promise!Next, Promise!Decide, Phase, Decision

LEMMA Returns ==
  ASSUME Phase = "busy", Decision # "none", Phase' = "ready",
         outcome' = Decision, Decision' = Decision, call' = call
  PROVE  [Promise!Next]_Promise!vars
BY DEF Promise!Next, Promise!Answer, Phase, Decision

LEMMA Fails ==
  ASSUME Phase = "busy", Phase' = "failed", Decision' = "none",
         outcome' = "error", call' = call
  PROVE  [Promise!Next]_Promise!vars
BY DEF Promise!Next, Promise!Fail, Phase, Decision

LEMMA Closes ==
  ASSUME Phase \in {"ready", "failed"}, Phase' = "closed",
         Decision' = Decision, UNCHANGED <<call, outcome>>
  PROVE  [Promise!Next]_Promise!vars
BY DEF Promise!Next, Promise!Close, Phase, Decision

-----------------------------------------------------------------------------
(* What is unread stays in agreement with what was decided. *)

LEMMA DecidedKept ==
  ASSUME Decided, UNCHANGED <<s2c, srv, sent>>
  PROVE  Decided'
BY DEF Decided

LEMMA TailDecided ==
  ASSUME Decided, s2c \in Seq(ServerPackets), s2c # <<>>, s2c' = Tail(s2c),
         UNCHANGED <<srv, sent>>
  PROVE  Decided'
<1>1. /\ Len(s2c) \in Nat /\ DOMAIN s2c = 1..Len(s2c)
      /\ DOMAIN s2c' = 1..(Len(s2c) - 1)
      /\ \A i \in 1..(Len(s2c) - 1) : s2c'[i] = s2c[i + 1]
  BY EmptySeq, LenProperties, HeadTailProperties
<1>2. \A i \in 1..(Len(s2c) - 1) : i + 1 \in 1..Len(s2c)
  BY <1>1
<1> QED BY <1>1, <1>2 DEF Decided

(* A reply that does not end the answer, or the one that does. *)
LEMMA PostDecided ==
  ASSUME IInv, Decided, ~tainted, ServerFree, Answering,
         NEW type, NEW body, NEW delta, Post(type, body, delta),
         \/ /\ type \notin Terminal /\ sent'.end = sent.end
         \/ /\ type = "EndOfStream" /\ sent'.end = "ok"
            /\ srv' \in {"idle", "skip"}
         \/ /\ type = "Exception" /\ sent'.end = "exception"
            /\ srv' \in {"idle", "skip"}
  PROVE  Decided'
<1> DEFINE p == ServerPacket(type, body, delta)
<1>1. s2c \in Seq(ServerPackets) /\ s2c' = Append(s2c, p) /\ p.type = type
  BY DEF IInv, TypeOK, Post, ServerPacket
<1> HIDE DEF p
<1>2. /\ DOMAIN s2c' = 1..Len(s2c) + 1 /\ Len(s2c) \in Nat
      /\ DOMAIN s2c = 1..Len(s2c)
      /\ \A i \in 1..Len(s2c) : s2c'[i] = s2c[i]
      /\ s2c'[Len(s2c) + 1] = p
  BY <1>1
<1>3. sent.end = "none" /\ \A i \in DOMAIN s2c : s2c[i].type \notin Terminal
  BY AnsweringDuring DEF Decided, Answering
<1>4. ASSUME NEW i \in 1..Len(s2c) + 1
      PROVE  s2c'[i].type \notin Terminal \/ s2c'[i].type = type
  <2>1. CASE i \in 1..Len(s2c)
    BY <1>2, <1>3, <2>1
  <2>2. CASE i = Len(s2c) + 1
    BY <1>1, <1>2, <2>2
  <2> QED BY <1>2, <2>1, <2>2
<1> QED BY <1>2, <1>3, <1>4 DEF Decided, Terminal

-----------------------------------------------------------------------------
(* The caller. *)

LEMMA CallerPromise ==
  ASSUME ~ReuseAfterError, PInv, TypeOK', CallerStep
  PROVE  /\ [Promise!Next]_Promise!vars
         /\ Heeded' /\ (~tainted' => Decided')
<1>1. IInv /\ TypeOK /\ (~tainted => Decided)
  BY DEF PInv, IInv
<1>2. ASSUME ~tainted, pc = "idle"
      PROVE  /\ serving.req # call + 1 /\ Decided
             /\ Phase = "ready"
  <2>1. serving.req \in Nat /\ call \in Nat /\ serving.req <= call
    BY <1>1, <1>2 DEF IInv, InStep, Quiet, TypeOK
  <2> QED BY <1>1, <1>2, <2>1, PhaseIs
<1>3. ASSUME NEW loop, NEW packets, Begin(loop, packets)
      PROVE  /\ [Promise!Next]_Promise!vars
             /\ Heeded' /\ (~tainted' => Decided')
  <2>1. /\ pc = "idle" /\ ~tainted /\ call < MaxCalls /\ pc' = "write"
        /\ call' = call + 1 /\ outcome' = "none"
        /\ UNCHANGED <<tainted, s2c, srv, serving, sent>>
    BY <1>3 DEF Begin, MayCall, server
  <2>2. Phase' = "busy"
    BY <2>1, PhaseBecomes
  <2>3. Decision' = "none"
    BY <1>2, <2>1 DEF Decision
  <2> QED BY <1>2, <2>1, <2>2, <2>3, Starts, DecidedKept DEF Heeded
<1>4. CASE Ping
  BY <1>3, <1>4 DEF Ping
<1>5. ASSUME NEW s, NEW c, NEW t, QueryWith(s, c, t)
      PROVE  /\ [Promise!Next]_Promise!vars
             /\ Heeded' /\ (~tainted' => Decided')
  BY <1>3, <1>5 DEF QueryWith
<1>6. ASSUME NEW s, NEW t, NEW b, InsertBlocksWith(s, t, b)
      PROVE  /\ [Promise!Next]_Promise!vars
             /\ Heeded' /\ (~tainted' => Decided')
  BY <1>3, <1>6 DEF InsertBlocksWith
<1>7. CASE RefuseCompressedInsert
  <2>1. /\ pc = "idle" /\ ~tainted /\ call < MaxCalls
        /\ call' = call + 1 /\ outcome' = "unsupported"
        /\ UNCHANGED <<pc, tainted, s2c, srv, serving, sent>>
    BY <1>7 DEF RefuseCompressedInsert, MayCall, server
  <2>2. Phase' = Phase
    BY <1>2, <2>1, PhaseBecomes
  <2>3. Decision' = "none"
    BY <1>2, <2>1 DEF Decision
  <2> QED BY <1>2, <2>1, <2>2, <2>3, Refuses, DecidedKept DEF Heeded
<1>8. CASE Drop
  <2>1. /\ pc = "idle" /\ pc' = "dropped"
        /\ UNCHANGED <<call, outcome, tainted, s2c, srv, serving, sent>>
    BY <1>8 DEF Drop, issued, server
  <2>2. Phase \in {"ready", "failed"} /\ Phase' = "closed"
    BY <1>1, <2>1, PhaseIs, PhaseBecomes
  <2>3. Decision' = Decision
    BY <2>1 DEF Decision
  <2> QED BY <1>1, <2>1, <2>2, <2>3, Closes, DecidedKept DEF Heeded
<1> QED BY <1>4, <1>5, <1>6, <1>7, <1>8 DEF CallerStep

-----------------------------------------------------------------------------
(* The client. *)

LEMMA ReturnPromise ==
  ASSUME TypeOK, TypeOK', ~tainted, pc \in {"write", "read"},
         NEW o, NEW req, Return(o, req), UNCHANGED <<call, serving, sent>>,
         \/ o = "error"
         \/ o \in {"ok", "exception"} /\ serving.req = call /\ sent.end = o
  PROVE  [Promise!Next]_Promise!vars /\ Heeded'
<1>1. /\ pc' = "idle" /\ outcome' = o /\ (tainted' <=> o = "error")
  BY Zenon DEF Return
<1>2. Phase = "busy"
  BY PhaseIs
<1>3. CASE o = "error"
  <2>1. Phase' = "failed" /\ Decision' = "none"
    BY <1>1, <1>3, PhaseBecomes DEF Decision
  <2> QED BY <1>1, <1>2, <1>3, <2>1, Fails DEF Heeded
<1>4. CASE o # "error"
  <2>1. ~tainted' /\ Phase' = "ready"
    BY <1>1, <1>4, PhaseBecomes
  <2>2. Decision = o /\ Decision' = o /\ o # "none"
    BY <1>4, <2>1 DEF Decision
  <2> QED BY <1>1, <1>2, <2>1, <2>2, Returns DEF Heeded
<1> QED BY <1>3, <1>4

LEMMA OnPromise ==
  ASSUME TypeOK, TypeOK', ~tainted, pc \in {"write", "read"},
         pc' \in {"write", "read"},
         UNCHANGED <<call, outcome, tainted, serving, sent>>
  PROVE  [Promise!Next]_Promise!vars /\ Heeded'
<1>1. Phase = "busy" /\ Phase' = "busy"
  BY PhaseIs, PhaseBecomes
<1>2. Decision' = Decision
  BY DEF Decision
<1> QED BY <1>1, <1>2, Stutters DEF Heeded

LEMMA WritingPromise ==
  ASSUME PInv, TypeOK', Write \/ Flush \/ BrokenPipe
  PROVE  /\ [Promise!Next]_Promise!vars
         /\ Heeded' /\ (~tainted' => Decided')
<1>1. /\ pc \in {"write", "read"} /\ ~tainted /\ TypeOK /\ Decided
      /\ UNCHANGED <<call, s2c, srv, serving, sent>>
  BY DEF Write, Flush, BrokenPipe, PInv, IInv, Heeded, issued, server
<1>2. \/ Return("error", 0)
      \/ pc' \in {"write", "read"} /\ UNCHANGED <<outcome, tainted>>
  BY DEF Write, Flush, BrokenPipe, returned
<1>3. [Promise!Next]_Promise!vars /\ Heeded'
  BY <1>1, <1>2, ReturnPromise, OnPromise
<1> QED BY <1>1, <1>3, DecidedKept

LEMMA ReadingPromise ==
  ASSUME PInv, TypeOK',
         \/ ReadPong \/ ReadQueryResponse \/ ReadSchema \/ ReadInsertResponse
         \/ \E used \in BOOLEAN :
              \/ DecodeError(used)
              \/ \E verdict \in {"ok", "exception", "error", "more"} :
                   ReadFragment(verdict, used)
         \/ ReadEof
  PROVE  /\ [Promise!Next]_Promise!vars
         /\ Heeded' /\ (~tainted' => Decided')
<1>1. /\ pc = "read" /\ ~tainted /\ TypeOK /\ Decided /\ IInv
      /\ UNCHANGED <<call, srv, serving, sent>>
  BY DEF ReadPong, ReadQueryResponse, ReadSchema, ReadInsertResponse,
         DecodeError, ReadFragment, ReadEof, CanRead, Receiving, PInv, IInv,
         Heeded, issued, server
<1>2. ASSUME Receiving
      PROVE  /\ s2c # <<>> /\ During /\ Head(s2c).type # "Fragment"
             /\ Head(s2c) = s2c[1] /\ 1 \in DOMAIN s2c
             /\ s2c \in Seq(ServerPackets)
  <2>1. During /\ s2c # <<>>
    BY <1>1, <1>2 DEF Receiving, IInv, InStep, Before
  <2>2. /\ s2c \in Seq(ServerPackets) /\ 1 \in DOMAIN s2c /\ Head(s2c) = s2c[1]
    BY <1>1, <2>1, EmptySeq, LenProperties DEF TypeOK
  <2> QED BY <2>1, <2>2 DEF During, Answers
(* A loop's verdict is the server's own, or an error. *)
<1>3. ASSUME NEW verdict, Settle(verdict), Receiving, s2c' = Tail(s2c),
             verdict = "ok" => Head(s2c).type \in {"Pong", "EndOfStream"},
             verdict = "exception" => Head(s2c).type = "Exception",
             verdict \in {"ok", "exception", "error", "more"}
      PROVE  /\ [Promise!Next]_Promise!vars
             /\ Heeded' /\ (~tainted' => Decided')
  <2>1. Decided'
    BY <1>1, <1>2, <1>3, TailDecided
  <2>2. CASE verdict = "more"
    <3>1. pc' = "read" /\ UNCHANGED <<outcome, tainted>>
      BY <1>1, <1>3, <2>2 DEF Settle, returned
    <3> QED BY <1>1, <2>1, <3>1, OnPromise
  <2>3. CASE verdict # "more"
    <3>1. Return(verdict, Head(s2c).req)
      BY <1>3, <2>3 DEF Settle
    <3>2. \/ verdict = "error"
          \/ /\ verdict \in {"ok", "exception"} /\ serving.req = call
             /\ sent.end = verdict
      BY <1>1, <1>2, <1>3, <2>3 DEF Decided, During
    <3> QED BY <1>1, <2>1, <3>1, <3>2, ReturnPromise
  <2> QED BY <2>2, <2>3
<1>4. CASE ReadPong
  <2>1. PongVerdict(Head(s2c).type) \in {"ok", "exception", "error"}
    BY VerdictTypes
  <2>2. /\ PongVerdict(Head(s2c).type) = "ok" => Head(s2c).type = "Pong"
        /\ PongVerdict(Head(s2c).type) = "exception" =>
             Head(s2c).type = "Exception"
    BY DEF PongVerdict
  <2> QED BY <1>3, <1>4, <2>1, <2>2 DEF ReadPong, CanRead
<1>5. CASE ReadQueryResponse
  <2>1. SelectVerdict(Head(s2c).type) \in {"ok", "exception", "error", "more"}
    BY VerdictTypes
  <2>2. /\ SelectVerdict(Head(s2c).type) = "ok" => Head(s2c).type = "EndOfStream"
        /\ SelectVerdict(Head(s2c).type) = "exception" =>
             Head(s2c).type = "Exception"
    BY DEF SelectVerdict
  <2> QED BY <1>3, <1>5, <2>1, <2>2 DEF ReadQueryResponse, CanRead
<1>6. CASE ReadInsertResponse
  <2>1. DrainVerdict(Head(s2c).type) \in {"ok", "exception", "error", "more"}
    BY VerdictTypes
  <2>2. /\ DrainVerdict(Head(s2c).type) = "ok" => Head(s2c).type = "EndOfStream"
        /\ DrainVerdict(Head(s2c).type) = "exception" =>
             Head(s2c).type = "Exception"
    BY DEF DrainVerdict
  <2> QED BY <1>3, <1>6, <2>1, <2>2 DEF ReadInsertResponse, CanRead
<1>7. CASE ReadSchema
  <2>1. CASE SchemaVerdict(Head(s2c).type) = "schema"
    <3>1. /\ Receiving /\ s2c' = Tail(s2c) /\ pc' = "write"
          /\ UNCHANGED <<outcome, tainted>>
      BY <1>7, <2>1 DEF ReadSchema, CanRead, SendBlocks
    <3>2. Decided'
      BY <1>1, <1>2, <3>1, TailDecided
    <3> QED BY <1>1, <3>1, <3>2, OnPromise
  <2>2. CASE SchemaVerdict(Head(s2c).type) # "schema"
    <3>1. SchemaVerdict(Head(s2c).type) \in {"exception", "error", "more"}
      BY <2>2, VerdictTypes
    <3>2. SchemaVerdict(Head(s2c).type) = "exception" =>
            Head(s2c).type = "Exception"
      BY DEF SchemaVerdict
    <3> QED BY <1>3, <1>7, <2>2, <3>1, <3>2 DEF ReadSchema, CanRead
  <2> QED BY <2>1, <2>2
<1>8. ASSUME NEW used \in BOOLEAN, DecodeError(used)
      PROVE  /\ [Promise!Next]_Promise!vars
             /\ Heeded' /\ (~tainted' => Decided')
  <2>1. Return("error", Head(s2c).req)
    BY <1>8 DEF DecodeError
  <2> QED BY <1>1, <2>1, ReturnPromise, NotTainted
<1>9. ASSUME NEW used \in BOOLEAN,
             NEW verdict \in {"ok", "exception", "error", "more"},
             ReadFragment(verdict, used)
      PROVE  FALSE
  BY <1>2, <1>9 DEF ReadFragment
<1>10. CASE ReadEof
  <2>1. Return("error", 0)
    BY <1>10 DEF ReadEof
  <2> QED BY <1>1, <2>1, ReturnPromise, NotTainted
<1> QED BY <1>4, <1>5, <1>6, <1>7, <1>8, <1>9, <1>10

-----------------------------------------------------------------------------
(* The server. *)

LEMMA RepliesPromise ==
  ASSUME IInv, TypeOK', ~tainted, Decided,
         \/ \E body \in {"header", "rows", "empty"} : SendBlock(body)
         \/ SendUndecodable \/ SendProgress
         \/ \E type \in SideTypes : SendSide(type)
         \/ \E body \in {"header", "undecodable"} : SendSchema(body)
         \/ Finish \/ Throw
  PROVE  [Promise!Next]_Promise!vars /\ Decided'
<1>1. /\ ServerFree /\ Answering
      /\ UNCHANGED <<pc, outcome, call, tainted, serving>>
  BY DEF SendBlock, SendUndecodable, SendProgress, SendSide, SendSchema,
         Finish, Throw, Extra, Answering, client, issued, returned
<1>2. /\ TypeOK /\ pc \in {"write", "read"} /\ serving.req = call
      /\ sent.end = "none"
  BY <1>1, AnsweringDuring DEF During, Decided, Answering, IInv
<1>3. Phase = "busy" /\ Phase' = "busy"
  BY <1>1, <1>2, PhaseIs, PhaseBecomes
<1>4. sent = [result |-> sent.result,
              drain |-> sent.drain, end |-> sent.end]
  BY <1>2 DEF TypeOK
<1>5. ASSUME sent'.end = sent.end PROVE [Promise!Next]_Promise!vars
  <2>1. Decision' = Decision
    BY <1>1, <1>5 DEF Decision
  <2> QED BY <1>1, <1>3, <2>1, Stutters
<1>6. ASSUME sent'.end \in {"ok", "exception"} PROVE [Promise!Next]_Promise!vars
  <2>1. Decision = "none" /\ Decision' = sent'.end
    BY <1>1, <1>2, <1>6 DEF Decision
  <2> QED BY <1>1, <1>3, <1>6, <2>1, Decides
<1>7. ASSUME NEW type, NEW body, NEW delta, Post(type, body, delta),
             type \notin Terminal, sent'.end = sent.end
      PROVE  [Promise!Next]_Promise!vars /\ Decided'
  BY <1>1, <1>5, <1>7, PostDecided
<1>8. ASSUME NEW body, SendBlock(body)
      PROVE  [Promise!Next]_Promise!vars /\ Decided'
  <2>1. Post("Data", body, BlockNumber(body)) /\ sent'.end = sent.end
    BY <1>4, <1>8 DEF SendBlock, Extra
  <2> QED BY <1>7, <2>1 DEF Terminal
<1>9. CASE SendUndecodable
  <2>1. Post("Data", "undecodable", 0) /\ sent'.end = sent.end
    BY <1>4, <1>9 DEF SendUndecodable, Extra
  <2> QED BY <1>7, <2>1 DEF Terminal
<1>10. CASE SendProgress
  <2>1. Post("Progress", "none", 1) /\ sent'.end = sent.end
    BY <1>4, <1>10 DEF SendProgress, Extra
  <2> QED BY <1>7, <2>1 DEF Terminal
<1>11. ASSUME NEW type \in SideTypes, SendSide(type)
       PROVE  [Promise!Next]_Promise!vars /\ Decided'
  <2>1. Post(type, "none", 0) /\ sent'.end = sent.end
    BY <1>4, <1>11 DEF SendSide, Extra
  <2>2. type \notin Terminal
    BY ConstantsAssumption DEF Terminal, AllSideTypes
  <2> QED BY <1>7, <2>1, <2>2
<1>12. ASSUME NEW body, SendSchema(body)
       PROVE  [Promise!Next]_Promise!vars /\ Decided'
  <2>1. Post("Data", body, 0) /\ sent'.end = sent.end
    BY <1>12 DEF SendSchema
  <2> QED BY <1>7, <2>1 DEF Terminal
<1>13. CASE Finish
  <2>1. Post("EndOfStream", "none", 0) /\ sent'.end = "ok" /\ srv' = "idle"
    BY <1>4, <1>13 DEF Finish
  <2> QED BY <1>1, <1>6, <2>1, PostDecided
<1>14. CASE Throw
  <2>1. /\ Post("Exception", "none", 0) /\ sent'.end = "exception"
        /\ srv' \in {"idle", "skip"}
    BY <1>4, <1>14 DEF Throw
  <2> QED BY <1>1, <1>6, <2>1, PostDecided
<1> QED BY <1>8, <1>9, <1>10, <1>11, <1>12, <1>13, <1>14

LEMMA TakingPromise ==
  ASSUME IInv, TypeOK', ~tainted, Decided,
         TakePing \/ TakeQuery \/ TakeBlock \/ TakeMarker
  PROVE  [Promise!Next]_Promise!vars /\ Decided'
<1>1. TypeOK /\ UNCHANGED <<pc, outcome, call, tainted>>
  BY DEF TakePing, TakeQuery, TakeBlock, TakeMarker, Take, IInv, client,
         issued, returned
<1>2. CASE TakeBlock \/ TakeMarker
  <2>1. UNCHANGED <<s2c, serving, sent>>
    BY <1>2 DEF TakeBlock, TakeMarker, server
  <2>2. Phase' = Phase /\ Decision' = Decision
    BY <1>1, <2>1 DEF Phase, Decision
  <2>3. srv' \in {"tables", "answer", "setup", "body", "finish"} =>
          srv \in {"tables", "body"}
    BY <1>2 DEF TakeBlock, TakeMarker, Welcome, server
  <2>4. Decided'
    BY <2>1, <2>3 DEF Decided
  <2> QED BY <1>1, <2>2, <2>4, Stutters
<1>3. ASSUME NEW type \in {"Ping", "Query"}, Take(type), srv = "idle"
      PROVE  /\ pc \in {"write", "read"} /\ s2c = <<>>
             /\ Head(c2s).req = call /\ serving.req # call
             /\ Head(c2s).type = type
  <2>1. /\ Len(Out) \in Nat \ {0} /\ Out[1] = Head(c2s) /\ Out # <<>>
        /\ Head(c2s).type = type /\ c2s # <<>>
    BY <1>1, <1>3, TakenMoves DEF Take
  <2>2. pc \in {"write", "read"} /\ s2c = <<>> /\ RequestAt(Out, 1)
    BY <1>3, <2>1, RequestTaken
  <2>3. Before
    BY <1>3, <2>1, <2>2 DEF IInv, InStep, During, Progressed
  <2>4. serving.req # call
    BY <1>1, <2>3 DEF Before, TypeOK
  <2> QED BY <2>1, <2>2, <2>4 DEF RequestAt
<1>4. CASE TakePing
  <2>1. /\ pc \in {"write", "read"} /\ s2c = <<>> /\ Head(c2s).req = call
        /\ serving.req # call /\ Head(c2s).type = "Ping"
    BY <1>3, <1>4 DEF TakePing
  <2>2. serving'.req = call /\ sent'.end = "ok" /\ srv' = "idle"
    BY <1>4, <2>1 DEF TakePing, Serve
  <2>3. Decision = "none" /\ Decision' = "ok"
    BY <1>1, <2>1, <2>2 DEF Decision
  <2>4. Phase = "busy" /\ Phase' = "busy"
    BY <1>1, <2>1, PhaseIs, PhaseBecomes
  <2>5. Decided'
    <3> DEFINE p == [type |-> "Pong", req |-> Head(c2s).req, body |-> "none",
                     comp |-> FALSE, delta |-> 0]
    <3>1. s2c' = <<p>> /\ p.type = "Pong"
      BY <1>4, <2>1 DEF TakePing
    <3> HIDE DEF p
    <3>2. DOMAIN s2c' = {1} /\ s2c'[1] = p
      BY <3>1
    <3> QED BY <2>2, <3>1, <3>2 DEF Decided
  <2> QED BY <1>1, <2>3, <2>4, <2>5, Decides
<1>5. CASE TakeQuery
  <2>1. /\ s2c = <<>> /\ serving.req # call /\ Head(c2s).type = "Query"
    BY <1>3, <1>5 DEF TakeQuery
  <2>2. s2c' = <<>> /\ sent'.end = "none"
    BY <1>5, <2>1 DEF TakeQuery, Serve
  <2>3. Decision = "none" /\ Decision' = "none" /\ Phase' = Phase
    BY <1>1, <2>1, <2>2 DEF Decision, Phase
  <2>4. Decided'
    BY <2>2 DEF Decided
  <2> QED BY <1>1, <2>3, <2>4, Stutters
<1> QED BY <1>2, <1>4, <1>5

LEMMA ServerPromise ==
  ASSUME PInv, TypeOK', ServerStep \/ GiveUp
  PROVE  /\ [Promise!Next]_Promise!vars
         /\ Heeded' /\ (~tainted' => Decided')
<1>1. UNCHANGED <<pc, outcome, call, tainted>>
  BY DEF ServerStep, SendBlock, SendUndecodable, SendProgress, SendSide,
         SendSchema, Finish, Throw, Extra, TakePing, TakeQuery, TakeBlock,
         TakeMarker, Take, Surprised, Swallow, GiveUp, client, issued, returned
<1>2. Heeded'
  BY <1>1 DEF PInv, Heeded
<1>3. CASE tainted
  <2>1. Phase' = Phase /\ Decision' = Decision
    BY <1>1, <1>3 DEF Phase, Decision
  <2> QED BY <1>1, <1>2, <1>3, <2>1, Stutters
<1>4. CASE ~tainted
  <2>1. IInv /\ Decided
    BY <1>4 DEF PInv
  <2>2. ~(Surprised \/ Swallow \/ GiveUp)
    BY <1>4, <2>1, NeverSurprisedStep, NotBroken DEF Swallow, GiveUp
  <2>3. [Promise!Next]_Promise!vars /\ Decided'
    BY <1>4, <2>1, <2>2, RepliesPromise, TakingPromise DEF ServerStep
  <2> QED BY <1>2, <2>3
<1> QED BY <1>3, <1>4

-----------------------------------------------------------------------------
(* The refinement. *)

LEMMA PromiseInit == Init => PInv /\ Promise!Init
<1> SUFFICES ASSUME Init PROVE PInv /\ Promise!Init
  OBVIOUS
<1>1. IInv /\ TypeOK
  BY IInvInit, TypeInit
<1>2. pc = "idle" /\ ~tainted /\ s2c = <<>> /\ srv = "idle" /\ call = 0
      /\ outcome = "none" /\ sent.end = "none"
  BY DEF Init
<1>3. Phase = "ready" /\ Decision = "none"
  BY <1>1, <1>2, PhaseIs DEF Decision
<1>4. Promise!Init
  BY <1>2, <1>3 DEF Promise!Init, Phase, Decision
<1>5. Heeded /\ Decided
  BY <1>2 DEF Heeded, Decided
<1> QED BY <1>1, <1>4, <1>5 DEF PInv

LEMMA PromiseStep ==
  ASSUME Protocol, ~ReuseAfterError, PInv, [Next]_vars
  PROVE  PInv' /\ [Promise!Next]_Promise!vars
<1>1. IInv' /\ TypeOK'
  BY IInvStep DEF PInv, IInv
<1>2. CASE CallerStep
  BY <1>1, <1>2, CallerPromise DEF PInv
<1>3. CASE ClientStep
  BY <1>1, <1>3, WritingPromise, ReadingPromise DEF PInv, ClientStep
<1>4. CASE ServerStep \/ GiveUp
  BY <1>1, <1>4, ServerPromise DEF PInv
<1>5. CASE Close \/ Gone \/ UNCHANGED vars
  <2>1. UNCHANGED <<pc, outcome, call, tainted, s2c, srv, serving, sent>>
    BY <1>5 DEF Close, Gone, vars, client, issued, returned, server
  <2>2. Phase' = Phase /\ Decision' = Decision
    BY <2>1 DEF Phase, Decision
  <2>3. Heeded' /\ (~tainted' => Decided')
    BY <2>1, DecidedKept DEF PInv, Heeded
  <2> QED BY <1>1, <2>1, <2>2, <2>3, Stutters DEF PInv
<1> QED BY <1>2, <1>3, <1>4, <1>5 DEF Next

(* The calls of client.rs, with the server's and the streams' steps between *)
(* them, keep the promise of Session: each returns what the server decided  *)
(* on that very call, at once refuses a compressed INSERT, or fails, after  *)
(* which a caller who heeds the error makes no other.                       *)
THEOREM PromiseIsKept ==
  ASSUME Protocol, ~ReuseAfterError PROVE Spec => KeepsPromise
<1>1. Init => PInv /\ Promise!Init
  BY PromiseInit
<1>2. PInv /\ [Next]_vars => PInv' /\ [Promise!Next]_Promise!vars
  BY PromiseStep
<1>3. Spec => Promise!Spec
  BY <1>1, <1>2, PTL DEF Spec, Promise!Spec
<1> QED BY <1>3 DEF KeepsPromise

=============================================================================
