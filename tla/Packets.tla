------------------------------ MODULE Packets ------------------------------
(***************************************************************************)
(* Packets field by field (src/proto/query.rs, client_info.rs, block.rs,   *)
(* external_table.rs, progress.rs, profile.rs, exception.rs,               *)
(* table_columns.rs, ClientHello of hello.rs): what encode writes at a     *)
(* protocol version, what decode of the same version makes of it, and what *)
(* a server of that version does (external, NATIVE_PROTOCOL.md 5 and 6).   *)
(*                                                                         *)
(* A packet is a record of its fields.  A layout lists the fields that are *)
(* on the wire, each with the way it is written; nothing on the wire says  *)
(* which field a byte belongs to, so an empty string, a zero and the end   *)
(* of a list are the same byte.  A string is a sequence of characters.     *)
(***************************************************************************)
EXTENDS Feature, Wire, TLC

CONSTANTS
  Versions,     \* protocol versions of the connection
  Characters,   \* of strings, a quote among them
  Queries,      \* records of the fields of a Query, its ClientInfo's among them
  Others,       \* other packets, records with their kind
  GroupBits,    \* bits of a number in a byte of a VarUInt: 7 in the code
  WordBits      \* bits of a number: 64 in the code

ASSUME NumbersAssumption ==
  /\ Versions \subseteq Nat
  /\ GroupBits \in Nat \ {0}
  /\ WordBits \in Nat /\ WordBits >= 3   \* three flags in one

VARIABLES
  version, packet,
  phase,     \* "composed", "sent", "refused", then who read it: "decoded", "served"
  wire,
  result     \* of the reader

vars == <<version, packet, phase, wire, result>>

(* An Option: a sequence of one value, or of none. *)
Absent == <<>>
Some(result_) == Then(result_, LAMBDA v, rest : Ok(<<v>>, rest))
OrElse(option, default) == IF option = Absent THEN default ELSE option[1]

-----------------------------------------------------------------------------
(* Characters. *)

Doubled(value) ==
  LET upto[i \in 0 .. Len(value)] ==
        IF i = 0 THEN <<>>
        ELSE upto[i - 1] \o IF value[i] = "'" THEN <<"'", "'">> ELSE <<value[i]>>
  IN upto[Len(value)]

(* replace("''", "'"), from the left: odd is a quote that may have a       *)
(* second one behind it.                                                   *)
Undoubled(value) ==
  LET upto[i \in 0 .. Len(value)] ==
        IF i = 0 THEN [text |-> <<>>, odd |-> FALSE]
        ELSE LET before == upto[i - 1]
             IN IF value[i] = "'" /\ before.odd THEN [before EXCEPT !.odd = FALSE]
                ELSE [text |-> Append(before.text, value[i]), odd |-> value[i] = "'"]
  IN upto[Len(value)].text

Quoted(value) == <<"'">> \o Doubled(value) \o <<"'">>

Unquoted(value) ==
  IF Len(value) >= 2 /\ Head(value) = "'" /\ Last(value) = "'"
  THEN Undoubled(SubSeq(value, 2, Len(value) - 1)) ELSE value

-----------------------------------------------------------------------------
(* The ways a field is written. *)

Number(x) == Written(write_varuint(GroupBits, WordBits, x))
TakeNumber(s) == read_varuint(GroupBits, WordBits, s)

write_string(value) ==
  Followed(Number(Len(value)), Written(IF value = <<>> THEN <<>> ELSE <<Unit(Text, value)>>))

read_string(s) ==
  Then(TakeNumber(s), LAMBDA n, rest :
    IF n = 0 THEN Ok(<<>>, rest)
    ELSE Then(Read1(Text, rest), LAMBDA value, behind :
           IF Len(value) = n THEN Ok(value, behind) ELSE Stop("misaligned")))

(* Setting::encode: important, custom and obsolete are bits of the flags.  *)
WriteSetting(setting) ==
  AllWritten(<<write_string(setting.key), Number(setting.flags), write_string(setting.value)>>)

(* Read until an empty key, which has no flags and no value behind it. *)
TakeSetting(list, s) ==
  Then(read_string(s), LAMBDA key, s1 :
    IF key = <<>> THEN Ok(Ends(list), s1)
    ELSE Then(TakeNumber(s1), LAMBDA flags, s2 : Then(read_string(s2), LAMBDA value, rest :
           Ok(Goes(Append(list, [key |-> key, flags |-> flags % 8, value |-> value])), rest))))

TakeSettings(s) == Repeat(s, <<>>, TakeSetting)

Custom == 2
ParamSetting(p) == [key |-> p.key, flags |-> Custom, value |-> Quoted(p.value)]

(* BlockInfo: tagged fields, 1 and 2 and the end marker when written here. *)
Overflow     == 1
BucketNumber == 2
OutOfOrder   == 3

Tagged(info, field) ==
  CASE field = Overflow -> AllWritten(<<Number(Overflow), Written(<<Unit(1, info.overflows)>>)>>)
    [] field = BucketNumber ->
         AllWritten(<<Number(BucketNumber), Written(<<Unit(4, info.bucket_number)>>)>>)
    [] field = OutOfOrder ->
         AllWritten(<<Number(OutOfOrder), Number(Len(info.out_of_order_buckets)),
                      Written(Units(4, info.out_of_order_buckets))>>)

WriteInfo(info) ==
  AllWritten(<<Tagged(info, Overflow), Tagged(info, BucketNumber), Number(0)>>)

NewInfo == [overflows |-> 0, bucket_number |-> -1, out_of_order_buckets |-> <<>>]

(* Bug: the tags are read and taken to be in order. *)
TakeInfo_Bug(s, info) ==
  Then(TakeNumber(s), LAMBDA one, s1 : Then(Read1(1, s1), LAMBDA v, s2 :
    Then(TakeNumber(s2), LAMBDA two, s3 : Then(Read1(4, s3), LAMBDA n, s4 :
      Then(TakeNumber(s4), LAMBDA end, rest :
        Ok([info EXCEPT !.overflows = v, !.bucket_number = n], rest))))))

(* Any fields in any order until the end marker. *)
TakeInfoField(info, s) ==
  Then(TakeNumber(s), LAMBDA field, rest :
    CASE field = 0 -> Ok(Ends(info), rest)
      [] field = Overflow -> Then(Read1(1, rest), LAMBDA v, behind :
           Ok(Goes([info EXCEPT !.overflows = IF v = 0 THEN 0 ELSE 1]), behind))
      [] field = BucketNumber -> Then(Read1(4, rest), LAMBDA v, behind :
           Ok(Goes([info EXCEPT !.bucket_number = v]), behind))
      [] field = OutOfOrder -> Then(TakeNumber(rest), LAMBDA count, at :
           Then(Read(count, 4, at), LAMBDA buckets, behind :
             Ok(Goes([info EXCEPT !.out_of_order_buckets = buckets]), behind)))
      [] OTHER -> Error)

TakeInfo(s, info) == Repeat(s, info, TakeInfoField)

(* How many columns and rows; columns are opaque, with the rows they have. *)
Columned == 97
WriteColumns(block) ==
  AllWritten(<<Number(Len(block.columns)), Number(block.rows),
               Written(Units(Columned, block.columns))>>)

TakeColumns(s) ==
  Then(TakeNumber(s), LAMBDA num_columns, s1 : Then(TakeNumber(s1), LAMBDA num_rows, s2 :
    IF num_columns = 0 THEN Ok([columns |-> <<>>, rows |-> num_rows], s2)
    ELSE Then(Read(num_columns, Columned, s2), LAMBDA columns, rest :
           IF \E i \in DOMAIN columns : columns[i] # num_rows THEN Stop("misaligned")
           ELSE Ok([columns |-> columns, rows |-> num_rows], rest))))

(* The value of an Option. *)
PutGiven(as, x) ==
  CASE as = "i64?" -> Written(<<Unit(8, x)>>)
    [] as \in {"varuint?", "flag?"} -> Number(x)
    [] as = "string?" -> write_string(x)
    [] as = "info?" -> WriteInfo(x)

(* An Option a version needs must be there; without it encode stops, with  *)
(* the fields in front of it written.  Others are written as 0.            *)
Put(as, v) ==
  CASE as \in {"kind", "bool", "interface"} ->
         [whole |-> as # "interface" \/ v = 1, units |-> <<Unit(1, v)>>]
    [] as = "i32" -> Written(<<Unit(4, v)>>)
    [] as \in {"varuint", "flag", "stage"} -> Number(v)
    [] as = "string" -> write_string(v)
    [] as \in {"i64?", "varuint?", "flag?", "string?", "info?"} ->
         IF v = Absent THEN Refused ELSE PutGiven(as, v[1])
    [] as = "varuint or 0" -> Number(OrElse(v, 0))
    [] as = "bool or 0" -> Written(<<Unit(1, OrElse(v, 0))>>)
    [] as \in {"trace", "jwt"} -> Written(<<Unit(1, 0)>>)
    [] as = "settings" ->
         Followed(AllWritten([i \in DOMAIN v |-> WriteSetting(v[i])]), write_string(<<>>))
    [] as = "params" ->
         Followed(AllWritten([i \in DOMAIN v |-> WriteSetting(ParamSetting(v[i]))]), write_string(<<>>))
    [] as = "end" -> write_string(<<>>)
    [] as = "roles" -> write_string(<<"0">>)
    [] as = "columns" -> WriteColumns(v)

Bit(result_) == Then(result_, LAMBDA v, rest : Ok(IF v = 0 THEN 0 ELSE 1, rest))

Take(as, s) ==
  CASE as = "bool" -> Bit(Read1(1, s))
    [] as = "bool or 0" -> Some(Bit(Read1(1, s)))
    [] as = "interface" -> Then(Read1(1, s), LAMBDA v, rest : ThenIf(v = 1, Ok(v, rest)))
    [] as = "kind" -> Then(Read1(1, s), LAMBDA v, rest : ThenIf(v <= 2, Ok(v, rest)))
    [] as = "i32" -> Read1(4, s)
    [] as = "i64?" -> Some(Read1(8, s))
    [] as = "varuint" -> TakeNumber(s)
    [] as \in {"varuint?", "varuint or 0"} -> Some(TakeNumber(s))
    [] as = "flag" -> Bit(TakeNumber(s))
    [] as = "flag?" -> Some(Bit(TakeNumber(s)))
    [] as = "stage" -> Then(TakeNumber(s), LAMBDA v, rest : ThenIf(v <= 2, Ok(v, rest)))
    [] as \in {"string", "roles"} -> read_string(s)
    [] as = "string?" -> Some(read_string(s))
    [] as = "trace" -> Then(Read1(1, s), LAMBDA has, rest :
         IF has = 0 THEN Ok(0, rest)
         ELSE Then(Read1(24, rest), LAMBDA ids, s1 : Then(read_string(s1), LAMBDA state, s2 :
                Read1(1, s2))))
    [] as = "jwt" -> Then(Read1(1, s), LAMBDA has, rest :
         IF has = 0 THEN Ok(0, rest) ELSE read_string(rest))
    [] as = "settings" -> TakeSettings(s)
    [] as = "params" -> Then(TakeSettings(s), LAMBDA list, rest :
         Ok([i \in DOMAIN list |-> [key |-> list[i].key, value |-> Unquoted(list[i].value)]], rest))
    [] as = "info?" -> Some(TakeInfo(s, NewInfo))
    [] as = "columns" -> TakeColumns(s)

WriteFields(fields, record) ==
  AllWritten([i \in DOMAIN fields |-> Put(fields[i].as, record[fields[i].name])])

(* The record with a field more. *)
With(got, name, v) == [x \in DOMAIN got \cup {name} |-> IF x = name THEN v ELSE got[x]]

ReadFields(fields, s) ==
  LET upto[n \in 0 .. Len(fields)] ==
        IF n = 0 THEN Ok(<<>>, s)
        ELSE Then(upto[n - 1], LAMBDA got, at : Then(Take(fields[n].as, at), LAMBDA v, rest :
               Ok(With(got, fields[n].name, v), rest)))
  IN upto[Len(fields)]

-----------------------------------------------------------------------------
(* Layouts. *)

Fields(as, names)   == [i \in DOMAIN names |-> [as |-> as, name |-> names[i]]]
Field(as, name)     == Fields(as, <<name>>)
Gated(feature, v, fields) == IF InVersion(feature, v) THEN fields ELSE <<>>

(* ClientInfo::encode: three gates by the version of the connection, the   *)
(* others by the one the client says it has.                               *)
ClientInfoWritten(info, v) ==
  LET own == info.protocol_version IN
  IF info.query_kind = 0 THEN Field("kind", "query_kind")
  ELSE Field("kind", "query_kind")
         \o Fields("string", <<"initial_user", "initial_query_id", "initial_address">>)
         \o Gated(INITIAL_QUERY_START_TIME, v, Field("i64?", "initial_time"))
         \o Field("interface", "query_interface")
         \o Fields("string", <<"os_user", "client_hostname", "client_name">>)
         \o Fields("varuint", <<"version_major", "version_minor", "version_index">>)
         \o Gated(QUOTA_KEY_IN_CLIENT_INFO, v, Field("string?", "quota_key"))
         \o Gated(DISTRIBUTED_DEPTH, own, Field("varuint?", "distributed_depth"))
         \o Gated(VERSION_PATCH, own, Field("varuint?", "version_patch"))
         \o Gated(OPEN_TELEMETRY, own, Field("trace", "trace"))
         \o Gated(PARALLEL_REPLICAS, own,
                  Field("flag?", "collaborate_with_initiator")
                  \o Fields("varuint?", <<"obsolete_count_participating_replicas",
                                          "count_current_replicas">>))
         \o Gated(QUERY_AND_LINE_NUMBERS, own,
                  Fields("varuint or 0", <<"script_query_number", "script_line_number">>))
         \o Gated(JWT_IN_INTERSERVER, own, Field("jwt", "jwt"))

(* ClientInfo::decode: every gate by the version of the connection. *)
ClientInfoRead(v) ==
  Field("kind", "query_kind")
    \o Fields("string", <<"initial_user", "initial_query_id", "initial_address">>)
    \o Gated(INITIAL_QUERY_START_TIME, v, Field("i64?", "initial_time"))
    \o Field("interface", "query_interface")
    \o Fields("string", <<"os_user", "client_hostname", "client_name">>)
    \o Fields("varuint", <<"version_major", "version_minor", "version_index">>)
    \o Gated(QUOTA_KEY_IN_CLIENT_INFO, v, Field("string?", "quota_key"))
    \o Gated(DISTRIBUTED_DEPTH, v, Field("varuint?", "distributed_depth"))
    \o Gated(VERSION_PATCH, v, Field("varuint?", "version_patch"))
    \o Gated(OPEN_TELEMETRY, v, Field("trace", "trace"))
    \o Gated(PARALLEL_REPLICAS, v,
             Field("flag?", "collaborate_with_initiator")
             \o Fields("varuint?", <<"obsolete_count_participating_replicas",
                                     "count_current_replicas">>))
    \o Gated(QUERY_AND_LINE_NUMBERS, v,
             Fields("varuint or 0", <<"script_query_number", "script_line_number">>))
    \o Gated(JWT_IN_INTERSERVER, v, Field("jwt", "jwt"))

QueryTail(v) ==
  Gated(INTERSERVER_SECRET, v, Field("string", "cluster_secret"))
    \o Field("stage", "stage") \o Field("flag", "compression") \o Field("string", "body")
    \o Gated(PARAMETERS, v, Field("params", "params"))

(* Bug: no empty list of roles. *)
QueryWritten_Bug(q, v) ==
  Field("string", "query_id") \o ClientInfoWritten(q, v) \o Field("settings", "settings")
    \o QueryTail(v)

(* Query::encode behind the packet's code.  The settings' end is written   *)
(* where the settings are not.                                             *)
QueryWritten(q, v) ==
  Field("string", "query_id")
    \o (IF InVersion(WRITE_CLIENT_INFO, v) THEN ClientInfoWritten(q, v) ELSE <<>>)
    \o (IF InVersion(SETTINGS_SERIALIZED_AS_STRINGS, v) THEN Field("settings", "settings")
        ELSE Field("end", "settings"))
    \o Gated(INTERSERVER_EXTERNALLY_GRANTED_ROLES, v, Field("roles", "roles")) \o QueryTail(v)

(* Query::decode, which knows of no roles. *)
QueryRead(v) ==
  Field("string", "query_id") \o ClientInfoRead(v) \o Field("settings", "settings") \o QueryTail(v)

TooOld(v) ==
  ~InVersion(WRITE_CLIENT_INFO, v) \/ ~InVersion(SETTINGS_SERIALIZED_AS_STRINGS, v)

(* A server does: NATIVE_PROTOCOL.md 5.3. *)
QueryServed(v) ==
  Field("string", "query_id") \o ClientInfoRead(v) \o Field("settings", "settings")
    \o Gated(INTERSERVER_EXTERNALLY_GRANTED_ROLES, v, Field("roles", "roles")) \o QueryTail(v)

BlockFields(v) == Gated(BLOCK_INFO, v, Field("info?", "info")) \o Field("columns", "columns")

ProgressFields(v) ==
  Fields("varuint", <<"rows", "bytes", "total_rows">>)
    \o Gated(TOTAL_BYTES_IN_PROGRESS, v, Field("varuint or 0", "total_bytes"))
    \o Gated(WRITE_CLIENT_INFO, v, Fields("varuint or 0", <<"wrote_rows", "wrote_bytes">>))
    \o Gated(SERVER_QUERY_TIME_IN_PROGRESS, v, Field("varuint or 0", "elapsed_ns"))

ProfileInfoFields(v) ==
  Fields("varuint", <<"rows", "blocks", "bytes">>) \o Field("bool", "applied_limit")
    \o Field("varuint", "rows_before_limit") \o Field("bool", "calculated_rows_before_limit")
    \o Gated(ROWS_BEFORE_AGGREGATION, v,
             Field("bool or 0", "applied_aggregation") \o Field("varuint or 0", "rows_before_aggregation"))

ExceptionFields ==
  Field("i32", "code") \o Fields("string", <<"name", "message", "stack_trace">>)
    \o Field("bool", "nested")

ClientHelloFields ==
  Field("string", "name") \o Fields("varuint", <<"version_major", "version_minor", "version_index">>)
    \o Fields("string", <<"database", "user", "password">>)

TableColumnsFields == Fields("string", <<"external_table", "columns_description">>)

(* Of the packets that are written as they are read. *)
Layout(kind, v) ==
  CASE kind = "Block" -> BlockFields(v)
    [] kind = "ExternalTable" -> Field("string", "table_name") \o BlockFields(v)
    [] kind = "Progress" -> ProgressFields(v)
    [] kind = "ProfileInfo" -> ProfileInfoFields(v)
    [] kind = "Exception" -> ExceptionFields
    [] kind = "ClientHello" -> ClientHelloFields
    [] kind = "TableColumns" -> TableColumnsFields
    [] kind = "TimezoneUpdate" -> Field("string", "timezone")

-----------------------------------------------------------------------------
(* What a field can hold, by the way it is written. *)

Words   == 0 .. Power2[WordBits] - 1
Strings == {value \in Seq(Characters) : Len(value) \in Words}
Options(S) == {option \in Seq(S) : Len(option) <= 1}

Settings == [key : Strings, flags : 0 .. 7, value : Strings]
Params   == {p \in [key : Strings, value : Strings] : Quoted(p.value) \in Strings}
Infos    == {info \in [overflows : 0 .. 1, bucket_number : Int, out_of_order_buckets : Seq(Int)] :
               Len(info.out_of_order_buckets) \in Words}
Blocks   == {block \in [columns : Seq(Words), rows : Words] :
               /\ Len(block.columns) \in Words
               /\ \A i \in DOMAIN block.columns : block.columns[i] = block.rows}

Values(as) ==
  CASE as \in {"bool", "flag"} -> 0 .. 1
    [] as \in {"kind", "stage"} -> 0 .. 2
    [] as = "interface" -> 0 .. 255
    [] as = "i32" -> Int
    [] as = "varuint" -> Words
    [] as = "string" -> Strings
    [] as = "i64?" -> Options(Int)
    [] as \in {"varuint?", "varuint or 0"} -> Options(Words)
    [] as \in {"flag?", "bool or 0"} -> Options(0 .. 1)
    [] as = "string?" -> Options(Strings)
    [] as = "settings" -> Seq(Settings)
    [] as = "params" -> Seq(Params)
    [] as = "info?" -> Options(Infos)
    [] as = "columns" -> Blocks

Fixed == {"end", "roles", "trace", "jwt"} \* written whatever the packet

Holds(record, fields) ==
  \A i \in DOMAIN fields :
    fields[i].as \in Fixed \/ record[fields[i].name] \in Values(fields[i].as)

ASSUME PacketsAssumption ==
  /\ {"'", "0"} \subseteq Characters
  /\ \A q \in Queries : q.kind = "Query"
  /\ \A p \in Others : p.kind \in {"Block", "ExternalTable", "Progress", "ProfileInfo", "Exception",
                                  "ClientHello", "TableColumns", "TimezoneUpdate"}
  /\ \A v \in Versions :
       /\ LET fields == QueryServed(v) IN \A q \in Queries : Holds(q, fields)
       /\ \A p \in Others : Holds(p, Layout(p.kind, v))

-----------------------------------------------------------------------------
(* A packet's way. *)

Encoded ==
  WriteFields(IF packet.kind = "Query" THEN QueryWritten(packet, version)
              ELSE Layout(packet.kind, version), packet)

Decoded ==
  IF packet.kind = "Query"
  THEN IF TooOld(version) THEN Error ELSE ReadFields(QueryRead(version), wire)
  ELSE ReadFields(Layout(packet.kind, version), wire)

(* ClientInfo has the connection's version or, by mistake, the client's. *)
Init ==
  /\ version \in Versions
  /\ packet \in Queries \cup Others
  /\ packet.kind = "Query" => packet.protocol_version \in {version, ClientVersion}
  /\ phase = "composed" /\ wire = <<>> /\ result = Stop("none")

Encode ==
  /\ phase = "composed"
  /\ wire' = Encoded.units /\ phase' = IF Encoded.whole THEN "sent" ELSE "refused"
  /\ UNCHANGED <<version, packet, result>>

(* A server writes the fields of a BlockInfo in the order it likes, those  *)
(* it has something to say of.                                             *)
ServerEncode ==
  /\ phase = "composed" /\ packet.kind = "Block" /\ InVersion(BLOCK_INFO, version)
  /\ packet.info # Absent
  /\ \E order \in {o \in UNION {[1 .. k -> {Overflow, BucketNumber, OutOfOrder}] : k \in 0 .. 3} :
                     IsInjective(o)} :
       /\ packet.info[1].overflows # 0 => Overflow \in ToSet(order)
       /\ packet.info[1].bucket_number # -1 => BucketNumber \in ToSet(order)
       /\ packet.info[1].out_of_order_buckets # <<>> => OutOfOrder \in ToSet(order)
       /\ wire' = (AllWritten([i \in DOMAIN order |-> Tagged(packet.info[1], order[i])]).units
                   \o Number(0).units \o WriteColumns(packet.columns).units)
  /\ phase' = "received"
  /\ UNCHANGED <<version, packet, result>>

Decode ==
  /\ phase \in {"sent", "received"}
  /\ result' = Decoded
  /\ phase' = IF phase = "sent" THEN "decoded" ELSE "understood"
  /\ UNCHANGED <<version, packet, wire>>

Serve ==
  /\ phase = "sent" /\ packet.kind = "Query" /\ ~TooOld(version)
  /\ result' = ReadFields(QueryServed(version), wire)
  /\ phase' = "served"
  /\ UNCHANGED <<version, packet, wire>>

Next == Encode \/ ServerEncode \/ Decode \/ Serve

Spec == Init /\ [][Next]_vars

-----------------------------------------------------------------------------
(* Properties. *)

(* A field as it is to be found again: out_of_order_buckets are not        *)
(* written, a missing count is written as 0.                               *)
Found(field) ==
  LET v == packet[field.name]
  IN CASE field.as = "info?" -> <<[v[1] EXCEPT !.out_of_order_buckets = <<>>]>>
       [] field.as \in {"varuint or 0", "bool or 0"} -> <<OrElse(v, 0)>>
       [] OTHER -> v

IsThePacket(fields) ==
  /\ result.status = "ok" /\ result.rest = <<>>
  /\ \A f \in {fields[i] : i \in DOMAIN fields} :
       f.as \notin Fixed => result.value[f.name] = Found(f)

(* A query as send_query_and_tables builds it: all the options, the version *)
(* of the connection; a caller who names no setting or parameter "".       *)
ByClient(q) ==
  /\ q.kind = "Query" /\ q.query_kind = 1 /\ q.query_interface = 1
  /\ q.protocol_version = version
  /\ \A option \in {"initial_time", "quota_key", "distributed_depth", "version_patch",
                     "collaborate_with_initiator", "obsolete_count_participating_replicas",
                     "count_current_replicas"} : q[option] # Absent
  /\ \A list \in {q.settings, q.params} : \A i \in DOMAIN list : list[i].key # <<>>

(* Every query goes through and is read by a server of the connection's    *)
(* version to its last byte, every field as it was meant, whatever gates   *)
(* the version is between.                                                 *)
ServerReadsQuery ==
  /\ phase = "served" /\ ByClient(packet) => IsThePacket(QueryServed(version))
  /\ packet.kind = "Query" /\ ByClient(packet) => phase # "refused"

(* decode undoes encode at every version, to the last byte, and numbers of *)
(* a whole word, quotes and missing options are no exception.  A Query is  *)
(* one from the version on that has roles.                                 *)
ReadBack ==
  phase = "decoded" =>
    IF packet.kind # "Query" THEN IsThePacket(Layout(packet.kind, version))
    ELSE ByClient(packet) /\ ~TooOld(version)
         /\ ~InVersion(INTERSERVER_EXTERNALLY_GRANTED_ROLES, version)
           => IsThePacket(QueryRead(version))

(* A server's BlockInfo is read whatever the order of its fields and       *)
(* whichever it leaves out, out_of_order_buckets included.                 *)
InfoInAnyOrder ==
  phase = "understood" =>
    /\ result.status = "ok" /\ result.rest = <<>>
    /\ result.value.info = packet.info /\ result.value.columns = packet.columns
=============================================================================
