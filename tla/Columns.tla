------------------------------ MODULE Columns ------------------------------
(***************************************************************************)
(* Columns on the wire (src/proto/column.rs): decode of what a server      *)
(* sent, the sparse and replicated forms it may come in, validate and      *)
(* encode of what the caller hands over.                                   *)
(*                                                                         *)
(* On the wire a column is a sequence of units (Wire), one per value,      *)
(* length, offset, index or string; a string's unit stands for its length  *)
(* and its bytes.  Values are small numbers; what has structure is a       *)
(* sequence of them.                                                       *)
(***************************************************************************)
EXTENDS ColumnData, TypeString, Wire

CONSTANTS
  Declared,       \* the types that type strings declare: a function to terms
                  \* [base, args, names], from sequences of lexemes
  Others,         \* strings of no type, or of one the client cannot take apart
  MaxRows,        \* bound: rows of a column
  Incoming,       \* values a unit of the stream may have
  MaxStream,      \* bound: units of such a stream behind the header
  Alike,          \* types that differ in the width of a value only: of these,
                  \* as of the older form of a header, streams of MaxRows units
  Columns,        \* columns a caller may hand over, records [type, rows, data]
  MaxWireCount,   \* 2^32 in the code
  EndOfGranule    \* the flag of a sparse stream's last group: 2^62

ASSUME ColumnsAssumption ==
  /\ MaxRows \in Nat /\ MaxStream \in Nat /\ MaxWireCount \in Nat
  /\ EndOfGranule \in Nat \ {0} /\ Incoming \subseteq Nat

VARIABLES
  type, rows,  \* what the block's header and the column's say
  phase,       \* "arriving", "decoded", "refused", "panicked", "aborted",
               \* "built", "written", "rejected", "reread"
  kind,        \* how the values come: "dense", "sparse", "replicated", "none"
  stream,      \* the column's units
  column,      \* Column.data
  again,       \* what the written column reads as
  expected     \* rows an encoder of the server meant: <<>> when none did

Types == DOMAIN Declared \cup Others

vars == <<type, rows, phase, kind, stream, column, again, expected>>

-----------------------------------------------------------------------------
(* Lengths and offsets. *)

checked_count(raw, rest) == ThenIf(raw <= MaxWireCount, Ok(raw, rest))

(* What a count sizes is allocated before it is read.  More than the sanity *)
(* bound may be too much: the process aborts (for 2^63 bytes it panics), or *)
(* gets the memory and waits for the rest of the stream.                    *)
Allocated(n, result) ==
  IF n > MaxWireCount /\ result.status = "eof" THEN Stop("huge") ELSE result

ReadVec(n, w, s) == Allocated(n, Read(n, w, s))

Last0(offsets) == IF offsets = <<>> THEN 0 ELSE Last(offsets)

Monotonic(offsets) == \A i \in 2 .. Len(offsets) : offsets[i] >= offsets[i - 1]

-----------------------------------------------------------------------------
(* Flat types: the variant a type is decoded to and the width it is read   *)
(* in, and, apart from it, the width each variant is written in.           *)
ReadAs ==
  [UInt8 |-> <<"Uint8", 1>>, UInt16 |-> <<"Uint16", 2>>, UInt32 |-> <<"Uint32", 4>>,
   UInt64 |-> <<"Uint64", 8>>, UInt128 |-> <<"Uint128", 16>>, UInt256 |-> <<"Uint256", 32>>,
   Int8 |-> <<"Int8", 1>>, Int16 |-> <<"Int16", 2>>, Int32 |-> <<"Int32", 4>>,
   Int64 |-> <<"Int64", 8>>, Int128 |-> <<"Int128", 16>>, Int256 |-> <<"Int256", 32>>,
   Enum8 |-> <<"Enum8", 1>>, Enum16 |-> <<"Enum16", 2>>, Bool |-> <<"Bool", 1>>,
   Float32 |-> <<"Float32", 4>>, Float64 |-> <<"Float64", 8>>, BFloat16 |-> <<"BFloat16", 2>>,
   Date |-> <<"Date", 2>>, Date32 |-> <<"Date32", 4>>, DateTime |-> <<"DateTime", 4>>,
   DateTime64 |-> <<"DateTime64", 8>>, Time |-> <<"Time", 4>>, Time64 |-> <<"Time64", 8>>,
   IntervalDay |-> <<"Interval", 8>>, IntervalSecond |-> <<"Interval", 8>>,
   IPv4 |-> <<"Ipv4", 4>>, IPv6 |-> <<"Ipv6", 16>>, String |-> <<"String", Text>>]

WrittenIn ==
  [Uint8 |-> 1, Uint16 |-> 2, Uint32 |-> 4, DateTime |-> 4, Uint64 |-> 8, Int8 |-> 1,
   Enum8 |-> 1, Int32 |-> 4, Int64 |-> 8, String |-> Text, Int16 |-> 2, Enum16 |-> 2,
   Float32 |-> 4, Float64 |-> 8, Bool |-> 1, Date |-> 2, Date32 |-> 4, DateTime64 |-> 8,
   BFloat16 |-> 2, Time |-> 4, Time64 |-> 8, Interval |-> 8, Ipv4 |-> 4, Ipv6 |-> 16,
   Decimal32 |-> 4, Decimal64 |-> 8, Decimal128 |-> 16, Decimal256 |-> 32,
   Int128 |-> 16, Uint128 |-> 16, Int256 |-> 32, Uint256 |-> 32]

DecimalOf == [w \in {4, 8, 16, 32} |->
  CASE w = 4 -> "Decimal32" [] w = 8 -> "Decimal64" [] w = 16 -> "Decimal128" [] w = 32 -> "Decimal256"]

(* Of key type codes 0 to 3, the low byte of a LowCardinality's metadata;  *)
(* bits 9 and 10 of it are set when the client writes.                     *)
KeyWidth == <<1, 2, 4, 8>>
KeyTypeCode(metadata) == metadata % (ByteMax + 1)
Metadata(width) ==
  (CHOOSE i \in DOMAIN KeyWidth : KeyWidth[i] = width) - 1 + (2 + 4) * (ByteMax + 1)

dynamic_discriminator_width(n) ==
  IF n <= ByteMax THEN 1 ELSE IF n <= (ByteMax + 1)^2 - 1 THEN 2 ELSE 4

(* Geo types are other types by another name. *)
Alias ==
  [Point |-> <<"Tuple", "(", "Float64", ",", "Float64", ")">>,
   Ring |-> <<"Array", "(", "Point", ")">>, LineString |-> <<"Array", "(", "Point", ")">>,
   Polygon |-> <<"Array", "(", "Ring", ")">>, MultiLineString |-> <<"Array", "(", "Ring", ")">>,
   MultiPolygon |-> <<"Array", "(", "Polygon", ")">>]

(* A type name read from the stream, in the prefix of a Dynamic. *)
TypeNames == <<<<"UInt8">>, <<"String">>, <<"JSON">>>>
NamedType(v) == IF v + 1 \in DOMAIN TypeNames THEN TypeNames[v + 1] ELSE <<"Unknown">>

-----------------------------------------------------------------------------
(* validate: the two lengths a composite carries agree. *)

Selecting(discriminators, d) == Cardinality({r \in DOMAIN discriminators : discriminators[r] = d})

Inside(col) ==
  CASE col.data = "Nullable" -> {col.inner}
    [] col.data = "LowCardinality" -> {col.dict}
    [] col.data \in ListKinds \cup UnionKinds \cup {"Tuple", "JsonObject"} -> ToSet(col.cols)
    [] OTHER -> {}

(* What a column says of itself agrees with the rows of those inside. *)
Consistent(col) ==
  LET all(n) == \A c \in Inside(col) : row_count(c) = n
  IN CASE col.data = "Nullable" -> all(Len(col.nulls))
       [] col.data \in ListKinds -> Monotonic(col.offsets) /\ all(Last0(col.offsets))
       [] col.data = "Tuple" -> col.cols # <<>> => all(row_count(col.cols[1]))
       [] col.data = "FixedString" -> col.n # 0 /\ Len(col.bytes) % col.n = 0
       [] col.data = "LowCardinality" ->
            /\ col.width \in ToSet(KeyWidth)
            /\ \A k \in ToSet(col.keys) : /\ col.width = 1 => k <= ByteMax
                                          /\ k < row_count(col.dict)
       [] col.data \in UnionKinds ->
            /\ col.data = "Dynamic" => Len(col.names) = Len(col.cols)
            /\ Len(col.offsets) = Len(col.discriminators)
            /\ \A d \in ToSet(col.discriminators) :
                 d = NullDiscriminator(col) \/ d < Len(col.cols)
            /\ \A i \in DOMAIN col.cols :
                 row_count(col.cols[i]) = Cardinality({r \in DOMAIN col.discriminators :
                   col.discriminators[r] = i - 1 /\ i - 1 # NullDiscriminator(col)})
       [] col.data = "JsonObject" -> all(col.n)
       [] OTHER -> TRUE

(* Bug: the columns inside are not validated. *)
validate_Bug(col) == Consistent(col)

RECURSIVE validate(_)
validate(col) == Consistent(col) /\ \A c \in Inside(col) : validate(c)

-----------------------------------------------------------------------------
(* encode: the units written, and whether the whole column was.  A column  *)
(* is validated before anything of it is written.                          *)

(* A UUID's halves, each with its bytes (of one bit here) reversed.        *)
Swapped(half) == (half % 2) * 2 + half \div 2

(* Bug: the low half first. *)
UuidHalves_Bug(u) == <<Swapped(u % 4), Swapped(u \div 4)>>

UuidHalves(u) == <<Swapped(u \div 4), Swapped(u % 4)>>

UuidOf(hi, lo) == Swapped(hi) * 4 + Swapped(lo)

RECURSIVE encode(_)
EncodeAll(cols) == AllWritten([i \in DOMAIN cols |-> encode(cols[i])])

encode(col) ==
  IF ~validate(col) THEN Refused
  ELSE
  CASE col.data = "FixedString" -> Written(Units(1, col.bytes))
    [] col.data = "Nullable" -> Followed(Written(Units(1, col.nulls)), encode(col.inner))
    [] col.data \in ListKinds ->
         Followed(Written(Units(8, col.offsets)), EncodeAll(col.cols))
    [] col.data = "Tuple" -> EncodeAll(col.cols)
    [] col.data = "Uuid" ->
         Written(Units(8, FlattenSeq([i \in DOMAIN col.values |-> UuidHalves(col.values[i])])))
    [] col.data = "Json" ->
         Written((IF col.values = <<>> THEN <<>> ELSE <<Unit(8, 1)>>) \o Units(Text, col.values))
    [] col.data = "LowCardinality" /\ col.keys # <<>> ->
         Followed(Followed(Written(<<Unit(8, 1), Unit(8, Metadata(col.width)),
                                     Unit(8, row_count(col.dict))>>),
                           encode(col.dict)),
                  Written(<<Unit(8, Len(col.keys))>> \o Units(col.width, col.keys)))
    [] col.data = "Nothing" -> Written(Units(1, [i \in 1 .. col.n |-> 0]))
    [] col.data = "Variant" /\ col.discriminators # <<>> ->
         Followed(Written(<<Unit(8, 0)>> \o Units(1, col.discriminators)),
                  EncodeAll(col.cols))
    [] col.data = "Dynamic" /\ col.discriminators # <<>> ->
         Followed(Written(<<Unit(8, 3), Unit(VarUInt, Len(col.names))>> \o Units(Text, col.names)
                          \o Units(dynamic_discriminator_width(Len(col.names)), col.discriminators)),
                  EncodeAll(col.cols))
    [] col.data \in {"LowCardinality", "Variant", "Dynamic"} -> Written(<<>>)
    [] col.data = "JsonObject" -> Refused
    [] OTHER -> Written(Units(WrittenIn[col.data], col.values))

-----------------------------------------------------------------------------
(* decode *)

RECURSIVE decode(_, _, _)

(* Columns one after the other, the i-th of type dts[i] with counts[i] rows. *)
DecodeAll(dts, counts, s) ==
  InTurn(Len(dts), s, LAMBDA i, at : decode(dts[i], counts[i], at))

Same(n, dts) == [i \in DOMAIN dts |-> n]

(* Bug: offsets taken as they come. *)
DecodeLists_Bug(data, dts, n, s) ==
  Then(ReadVec(n, 8, s), LAMBDA offsets, rest :
    Then(checked_count(Last0(offsets), rest), LAMBDA total, at :
      Then(DecodeAll(dts, Same(total, dts), at), LAMBDA cols, behind :
        Ok(Lists(data, cols, offsets), behind))))

(* Array, Map and Nested: offsets, then what is inside, as many as the     *)
(* last offset says.                                                       *)
DecodeLists(data, dts, n, s) ==
  Then(ReadVec(n, 8, s), LAMBDA offsets, rest :
    ThenIf(Monotonic(offsets),
      Then(checked_count(Last0(offsets), rest), LAMBDA total, at :
        Then(DecodeAll(dts, Same(total, dts), at), LAMBDA cols, behind :
          Ok(Lists(data, cols, offsets), behind)))))

(* Bug: a row's offset counts the row itself. *)
DecodeUnion_Bug(data, names, dts, discriminators, s) ==
  LET null == IF data = "Variant" THEN ByteMax ELSE Len(dts)
      d(r) == discriminators[r]
      offset(r) == IF d(r) = null THEN 0 ELSE Selecting(SubSeq(discriminators, 1, r), d(r))
      counts == [i \in DOMAIN dts |->
                  IF i - 1 = null THEN 0 ELSE Selecting(discriminators, i - 1)]
  IN ThenIf(\A r \in DOMAIN discriminators : d(r) = null \/ d(r) < Len(dts),
       Then(DecodeAll(dts, counts, s), LAMBDA cols, rest :
         Ok(Union(data, names, discriminators, [r \in DOMAIN discriminators |-> offset(r)], cols),
            rest)))

(* Discriminators and the columns they select from. *)
DecodeUnion(data, names, dts, discriminators, s) ==
  LET null == IF data = "Variant" THEN ByteMax ELSE Len(dts)
      d(r) == discriminators[r]
      offset(r) == IF d(r) = null THEN 0 ELSE Selecting(SubSeq(discriminators, 1, r - 1), d(r))
      counts == [i \in DOMAIN dts |->
                  IF i - 1 = null THEN 0 ELSE Selecting(discriminators, i - 1)]
  IN ThenIf(\A r \in DOMAIN discriminators : d(r) = null \/ d(r) < Len(dts),
       Then(DecodeAll(dts, counts, s), LAMBDA cols, rest :
         Ok(Union(data, names, discriminators, [r \in DOMAIN discriminators |-> offset(r)], cols),
            rest)))

(* The state prefix is read when there are rows; elements that would bring *)
(* one of their own are refused.                                           *)
decode_variant(dts, n, s) ==
  ThenIf(~\E t \in ToSet(dts) : is_stateful_type(t),
    IF n = 0
    THEN Then(DecodeAll(dts, Same(0, dts), s), LAMBDA cols, rest :
           Ok(Union("Variant", <<>>, <<>>, <<>>, cols), rest))
    ELSE Then(Read1(8, s), LAMBDA mode, rest : ThenIf(mode = 0,
           Then(ReadVec(n, 1, rest), LAMBDA ds, at : DecodeUnion("Variant", <<>>, dts, ds, at)))))

decode_dynamic_prefix(s) ==
  Then(Read1(8, s), LAMBDA version, rest : ThenIf(version = 3,
    Then(Read1(VarUInt, rest), LAMBDA num_types, at :
      Then(ReadVec(num_types, Text, at), LAMBDA names, behind :
        ThenIf(~\E v \in ToSet(names) : is_stateful_type(NamedType(v)), Ok(names, behind))))))

decode_dynamic_data(names, n, s) ==
  Then(ReadVec(n, dynamic_discriminator_width(Len(names)), s), LAMBDA ds, rest :
    DecodeUnion("Dynamic", names, [i \in DOMAIN names |-> NamedType(names[i])], ds, rest))

decode_dynamic(n, s) ==
  IF n = 0 THEN Ok(Union("Dynamic", <<>>, <<>>, <<>>, <<>>), s)
  ELSE Then(decode_dynamic_prefix(s), LAMBDA names, rest : decode_dynamic_data(names, n, rest))

(* The prefixes of all dynamic paths come before the data of any. *)
decode_json_object(typed, n, s) ==
  ThenIf(~\E t \in ToSet(typed) : is_stateful_type(t),
    Then(Read1(VarUInt, s), LAMBDA num_dynamic, s1 :
      Then(ReadVec(num_dynamic, Text, s1), LAMBDA names, s2 :
        Then(InTurn(num_dynamic, s2, LAMBDA i, at : decode_dynamic_prefix(at)), LAMBDA prefixes, s3 :
            Then(DecodeAll(typed, Same(n, typed), s3), LAMBDA paths, s4 :
              Then(InTurn(num_dynamic, s4, LAMBDA i, at : decode_dynamic_data(prefixes[i], n, at)),
                LAMBDA dynamic, rest : Ok(JsonObject(n, paths \o dynamic), rest)))))))

decode_json(dt, n, s) ==
  IF n = 0 THEN Ok(Flat("Json", <<>>), s)
  ELSE Then(Read1(8, s), LAMBDA version, rest :
         CASE version = 1 ->
                Then(ReadVec(n, Text, rest), LAMBDA vs, behind : Ok(Flat("Json", vs), behind))
           [] version = 3 -> decode_json_object(parse_json_typed_paths(dt), n, rest)
           [] OTHER -> Error)

(* The dictionary of LowCardinality(Nullable(T)) is one of T. *)
DictionaryType(inner) ==
  IF BaseType(inner) = "Nullable" THEN parse_composite_inner_type(inner) ELSE {inner}

DecodeLowCardinality(inner, n, s) ==
  IF n = 0
  THEN Then(decode(inner, 0, s), LAMBDA dict, rest : Ok(LowCardinality(dict, <<>>, 1), rest))
  ELSE Then(Read(2, 8, s), LAMBDA head, s1 :
         ThenIf(head[1] = 1 /\ KeyTypeCode(head[2]) + 1 \in DOMAIN KeyWidth,
           Then(Read1(8, s1), LAMBDA raw_size, s2 :
             Then(checked_count(raw_size, s2), LAMBDA dict_size, s3 :
               Then(decode(inner, dict_size, s3), LAMBDA dict, s4 :
                 Then(Read1(8, s4), LAMBDA raw_count, s5 :
                   Then(checked_count(raw_count, s5), LAMBDA keys_count, s6 :
                     Then(ReadVec(keys_count, KeyWidth[KeyTypeCode(head[2]) + 1], s6), LAMBDA keys, rest :
                       Ok(LowCardinality(dict, keys, KeyWidth[KeyTypeCode(head[2]) + 1]), rest)))))))))

DecodeEnum(dt, n, s) ==
  Then(ReadVec(n, ReadAs[BaseType(dt)][2], s), LAMBDA vs, rest :
    Ok([data |-> ReadAs[BaseType(dt)][1], values |-> vs, names |-> parse_enum_names(dt)], rest))

DecodeFlat(data, w, n, s) ==
  Then(ReadVec(n, w, s), LAMBDA vs, rest :
    Ok(Flat(data, IF data = "Bool" THEN [i \in 1 .. n |-> IF vs[i] = 0 THEN 0 ELSE 1] ELSE vs), rest))

decode(dt, n, s) ==
  LET base == BaseType(dt) IN
  IF SplitsNothing(dt) THEN Stop("panic") ELSE
  CASE base \in {"DateTime64", "Time64"} ->
         Parsed(parse_datetime64_scale(dt), LAMBDA scale :
           DecodeFlat(ReadAs[base][1], ReadAs[base][2], n, s))
    [] base \in {"Enum8", "Enum16"} -> DecodeEnum(dt, n, s)
    [] base \in DOMAIN ReadAs \ {"DateTime64", "Time64", "Enum8", "Enum16"} ->
         DecodeFlat(ReadAs[base][1], ReadAs[base][2], n, s)
    [] base \in DOMAIN Alias -> decode(Alias[base], n, s)
    [] base = "SimpleAggregateFunction" ->
         Parsed(parse_simple_aggregate_inner(dt), LAMBDA inner : decode(inner, n, s))
    [] base = "UUID" ->
         Then(Allocated(n, Read(2 * n, 8, s)), LAMBDA halves, rest :
           Ok(Flat("Uuid", [i \in 1 .. n |-> UuidOf(halves[2 * i - 1] % 4, halves[2 * i] % 4)]), rest))
    [] base = "Decimal" ->
         Parsed(parse_decimal_p_s(dt), LAMBDA ps : Parsed(decimal_byte_width(ps[1]), LAMBDA w :
           DecodeFlat(DecimalOf[w], w, n, s)))
    [] base = "LowCardinality" ->
         Parsed(UNION {DictionaryType(i) : i \in parse_composite_inner_type(dt)}, LAMBDA inner :
           DecodeLowCardinality(inner, n, s))
    [] base = "JSON" -> decode_json(dt, n, s)
    [] base = "Variant" ->
         Parsed(parse_variant_inner_types(dt), LAMBDA dts : decode_variant(dts, n, s))
    [] base = "Dynamic" -> decode_dynamic(n, s)
    [] base = "FixedString" ->
         Parsed(parse_fixed_string_n(dt), LAMBDA size :
           Then(ReadVec(size * n, 1, s), LAMBDA bytes, rest : Ok(FixedString(size, bytes), rest)))
    [] base = "Nullable" ->
         Parsed(parse_composite_inner_type(dt), LAMBDA inner :
           Then(ReadVec(n, 1, s), LAMBDA nulls, rest :
             Then(decode(inner, n, rest), LAMBDA col, behind : Ok(Nullable(col, nulls), behind))))
    [] base = "Nothing" -> Then(ReadVec(n, 1, s), LAMBDA zeros, rest : Ok(Nothing(n), rest))
    [] base = "Tuple" ->
         Parsed(parse_tuple_inner_types(dt), LAMBDA dts :
           IF dts = <<>>
           THEN Then(ReadVec(n, 1, s), LAMBDA zeros, rest : Ok(Tuple(<<>>), rest))
           ELSE Then(DecodeAll(dts, Same(n, dts), s), LAMBDA cols, rest : Ok(Tuple(cols), rest)))
    [] base = "Array" ->
         Parsed(parse_composite_inner_type(dt), LAMBDA i : DecodeLists("Array", <<i>>, n, s))
    [] base = "Nested" ->
         Parsed(parse_nested_inner_types(dt), LAMBDA dts : DecodeLists("Nested", dts, n, s))
    [] base = "Map" ->
         Parsed(parse_map_inner_types(dt), LAMBDA dts : DecodeLists("Map", dts, n, s))
    [] OTHER -> Error

-----------------------------------------------------------------------------
(* Sparse and replicated columns: decoded, then spread over the rows. *)

(* Rows of the values that are there, from groups of defaults before each; *)
(* the group behind the last has the flag.                                 *)
RECURSIVE SparsePositions(_, _, _, _)
SparsePositions(s, n, cursor, positions) ==
  Then(Read1(VarUInt, s), LAMBDA raw, rest :
    LET flagged == (raw \div EndOfGranule) % 2 = 1
        pos == cursor + raw - (IF flagged THEN EndOfGranule ELSE 0)
    IN IF flagged THEN ThenIf(pos = n, Ok(positions, rest))
       ELSE ThenIf(pos < n, SparsePositions(rest, n, pos + 1, Append(positions, pos))))

Unsparse == {"Int256", "Uint256", "Decimal256", "Json"}

(* Bug: each value lands one row early. *)
Spread_Bug(values, positions, n, default) ==
  [r \in 1 .. n |-> IF r \in ToSet(positions)
                    THEN values[CHOOSE i \in DOMAIN positions : positions[i] = r] ELSE default]

(* The values at their rows, the default between them. *)
Spread(values, positions, n, default) ==
  [r \in 1 .. n |-> IF r - 1 \in ToSet(positions)
                    THEN values[CHOOSE i \in DOMAIN positions : positions[i] = r - 1] ELSE default]

RECURSIVE materialize_sparse(_, _, _, _)
materialize_sparse(col, positions, n, rest) ==
  CASE col.data \in (DOMAIN WrittenIn \cup {"Uuid"}) \ Unsparse ->
         Ok([col EXCEPT !.values = Spread(@, positions, n, 0)], rest)
    [] col.data = "FixedString" ->
         LET value(i) == SubSeq(col.bytes, (i - 1) * col.n + 1, i * col.n)
             zeros == [b \in 1 .. col.n |-> 0]
         IN Ok([col EXCEPT !.bytes = FlattenSeq(
              Spread([i \in DOMAIN positions |-> value(i)], positions, n, zeros))], rest)
    [] col.data = "Nullable" ->
         Then(materialize_sparse(col.inner, positions, n, rest), LAMBDA inner, at :
           Ok(Nullable(inner, Spread(col.nulls, positions, n, 1)), at))
    [] OTHER -> Error

decode_sparse(dt, n, s) ==
  Then(SparsePositions(s, n, 0, <<>>), LAMBDA positions, rest :
    Then(decode(dt, Len(positions), rest), LAMBDA col, behind :
      materialize_sparse(col, positions, n, behind)))


check_bounds(indexes, num_elements) == \A i \in DOMAIN indexes : indexes[i] < num_elements

(* The elements at the indexes, once these are checked: an index may pass  *)
(* and still be out of what is there.                                      *)
Pick(values, indexes, num_elements, rest) ==
  ThenIf(check_bounds(indexes, num_elements),
    IF \E i \in DOMAIN indexes : indexes[i] >= Len(values) THEN Stop("panic")
    ELSE Ok([i \in DOMAIN indexes |-> values[indexes[i] + 1]], rest))

(* The rows of a list column that the indexes stand for, one after another. *)
FlatIndexes(offsets, indexes) ==
  FlattenSeq([i \in DOMAIN indexes |->
    [j \in 1 .. offsets[indexes[i] + 1] - Start(offsets, indexes[i]) |->
       Start(offsets, indexes[i]) + j - 1]])

Lengths(offsets, indexes) ==
  [i \in DOMAIN indexes |-> offsets[indexes[i] + 1] - Start(offsets, indexes[i])]

RECURSIVE materialize_replicated(_, _, _, _)
materialize_replicated(col, indexes, n, rest) ==
  LET all(cols, ix, m) ==
        FoldLeft(LAMBDA sofar, c : Then(sofar, LAMBDA done, at :
                   Then(materialize_replicated(c, ix, m, at), LAMBDA new, behind :
                     Ok(Append(done, new), behind))), Ok(<<>>, rest), cols)
  IN CASE col.data \in DOMAIN WrittenIn \cup {"Uuid", "Json"} ->
            Then(Pick(col.values, indexes, n, rest), LAMBDA vs, at : Ok([col EXCEPT !.values = vs], at))
       [] col.data = "FixedString" ->
            Then(Pick([i \in 1 .. n |-> SubSeq(col.bytes, (i - 1) * col.n + 1, i * col.n)],
                      indexes, n, rest), LAMBDA vs, at : Ok([col EXCEPT !.bytes = FlattenSeq(vs)], at))
       [] col.data = "Nullable" ->
            Then(materialize_replicated(col.inner, indexes, n, rest), LAMBDA inner, at :
              Then(Pick(col.nulls, indexes, n, at), LAMBDA nulls, behind : Ok(Nullable(inner, nulls), behind)))
       [] col.data \in ListKinds ->
            Then(Pick(col.offsets, indexes, n, rest), LAMBDA ends, at :
              LET lengths == Lengths(col.offsets, indexes) IN
              Then(all(col.cols, FlatIndexes(col.offsets, indexes), Last0(col.offsets)),
                LAMBDA cols, behind : Ok(Lists(col.data, cols,
                  [i \in DOMAIN lengths |-> FoldLeft(+, 0, SubSeq(lengths, 1, i))]), behind)))
       [] col.data = "Tuple" -> Then(all(col.cols, indexes, n), LAMBDA cols, at : Ok(Tuple(cols), at))
       [] col.data = "LowCardinality" ->
            Then(Pick(col.keys, indexes, n, rest), LAMBDA keys, at : Ok([col EXCEPT !.keys = keys], at))
       [] col.data = "Nothing" -> Ok(Nothing(Len(indexes)), rest)
       [] OTHER -> Error

decode_replicated(dt, n, s) ==
  Then(Read1(VarUInt, s), LAMBDA declared, s1 : ThenIf(declared = n,
    Then(Read1(1, s1), LAMBDA width, s2 : ThenIf(n = 0 \/ width \in ToSet(KeyWidth),
      Then(Read(n, width, s2), LAMBDA indexes, s3 :
        Then(Read1(VarUInt, s3), LAMBDA num_elements, s4 :
          Then(decode(dt, num_elements, s4), LAMBDA col, rest :
            materialize_replicated(col, indexes, num_elements, rest))))))))

-----------------------------------------------------------------------------
(* Column::decode and encode, from CUSTOM_SERIALIZATION on; name and type  *)
(* string are in front of these units.                                     *)

KindByte == [dense |-> 0, sparse |-> 1, replicated |-> 4]

DecodeColumn(dt, n, s) ==
  Then(Read1(1, s), LAMBDA has_custom, s1 :
    CASE has_custom = 0 -> decode(dt, n, s1)
      [] has_custom = 1 -> Then(Read1(1, s1), LAMBDA byte, s2 :
           CASE byte = KindByte.dense -> decode(dt, n, s2)
             [] byte = KindByte.sparse -> decode_sparse(dt, n, s2)
             [] byte = KindByte.replicated -> decode_replicated(dt, n, s2)
             [] OTHER -> Error)
      [] OTHER -> Error)

(* The kind a column came in is written before it again. *)
EncodeColumn(col, k) ==
  Followed(Written(Units(1, IF k = "none" THEN <<0>> ELSE <<1, KindByte[k]>>)), encode(col))

-----------------------------------------------------------------------------
(* A column's way: it arrives unit by unit and is decoded, or a caller     *)
(* built it; it is encoded, and what was encoded is decoded again.         *)

Header == [none |-> <<0>>, dense |-> <<1, 0>>, sparse |-> <<1, 1>>, replicated |-> <<1, 4>>,
           combination |-> <<1, 5>>, unknown |-> <<2>>]

(* Of a replicated column: one row, its index, how many elements there are  *)
(* to pick from; then the version and the key type of a LowCardinality.     *)
KeysToFollow == Units(AnyWidth, Header.replicated \o <<1, 1, 0, 1, 1, 0>>)

(* Whatever the stream says. *)
Arriving ==
  /\ phase = "arriving" /\ type \in Types /\ rows \in 0 .. MaxRows
  /\ kind \in DOMAIN Header
  /\ stream \in {Units(AnyWidth, Header[kind])} \cup (IF kind = "replicated" THEN {KeysToFollow} ELSE {})
  /\ column = Nil /\ expected = <<>>

(* SerializationSparse: groups of defaults, then the values between them. *)
SparseUnits(positions, n, values) ==
  LET at == Ascending(positions)
      from(i) == IF i = 1 THEN 0 ELSE at[i - 1] + 1
  IN Units(VarUInt, [i \in 1 .. Len(at) + 1 |->
                       IF i <= Len(at) THEN at[i] - from(i) ELSE n - from(i) + EndOfGranule])
     \o values

DefaultCell(col) ==
  CASE col.data = "Nullable" -> <<>>
    [] col.data = "FixedString" -> [b \in 1 .. col.n |-> 0]
    [] OTHER -> <<0>>

SparseServed ==
  \E c \in Columns, n \in 1 .. MaxRows : \E positions \in SUBSET (0 .. n - 1) :
    /\ validate(c.data) /\ Cardinality(positions) = row_count(c.data)
    /\ c.data.data \in {"Uint8", "String", "FixedString", "Uuid", "Nullable"}
    /\ phase = "arriving" /\ type = c.type /\ rows = n /\ kind = "sparse" /\ column = Nil
    /\ stream = Units(1, Header.sparse) \o SparseUnits(positions, n, encode(c.data).units)
    /\ expected = [r \in 1 .. n |->
                     IF r - 1 \notin positions THEN DefaultCell(c.data)
                     ELSE Cells(c.data)[Cardinality({q \in positions : q < r})]]

(* SerializationReplicated: indexes, then the elements they pick. *)
ReplicatedServed ==
  \E c \in Columns, n \in 1 .. MaxRows : \E indexes \in [1 .. n -> 0 .. row_count(c.data) - 1] :
    /\ validate(c.data) /\ encode(c.data).whole
    /\ c.data.data \notin UnionKinds
    /\ phase = "arriving" /\ type = c.type /\ rows = n /\ kind = "replicated" /\ column = Nil
    /\ stream = Units(1, Header.replicated) \o <<Unit(VarUInt, n), Unit(1, 1)>> \o Units(1, indexes)
                \o <<Unit(VarUInt, row_count(c.data))>> \o encode(c.data).units
    /\ expected = [i \in 1 .. n |-> Cell(c.data, indexes[i])]

(* A server's dense columns: of each row 0 or 1 for what is in it, from the *)
(* type itself and not its string.  What a row means, as Cell has it: ...   *)
RECURSIVE Meant(_, _)
Meant(t, x) ==
  LET each(y) == [c \in DOMAIN t.args |-> Meant(t.args[c], y)]
  IN CASE t.base = "Nothing" \/ (t.base = "Nullable" /\ x = 0) -> <<>>
       [] t.base \in {"Nullable", "LowCardinality"} -> Meant(t.args[1], x)
       [] t.base \in ListKinds -> [j \in 1 .. x |-> each(1)]
       [] t.base = "Tuple" -> each(x)
       [] t.base = "JSON" /\ t.args # <<>> -> Append(each(x), <<x>>)
       [] t.base = "Variant" -> Meant(t.args[x + 1], x)
       [] t.base = "FixedString" -> [b \in 1 .. t.names[1] |-> x]
       [] t.base = "UUID" -> <<Swapped(x)>>
       [] OTHER -> <<x>>

(* ... and what it sends for all of them.  In a dictionary a placeholder is *)
(* first, and then the marker for NULL, if there are NULLs; a JSON with     *)
(* typed paths has a dynamic one besides.                                   *)
RECURSIVE Sent(_, _)
Sent(t, xs) ==
  LET n == Len(xs)
      plain == IF t.args[1].base = "Nullable" THEN t.args[1].args[1] ELSE t.args[1]
      all(ys) == FlattenSeq([c \in DOMAIN t.args |-> Sent(t.args[c], ys)])
      ones == SelectSeq(xs, LAMBDA x : x = 1)
      zeros == SelectSeq(xs, LAMBDA x : x = 0)
      ends == [r \in 1 .. n |-> FoldLeft(+, 0, SubSeq(xs, 1, r))]
  IN CASE t.base = "Nothing" \/ (t.base = "Tuple" /\ t.args = <<>>) -> [r \in 1 .. n |-> 0]
       [] t.base = "Nullable" -> [r \in 1 .. n |-> 1 - xs[r]] \o all(xs)
       [] t.base = "LowCardinality" ->
            <<1, Metadata(1), 3>> \o Sent(plain, <<0, 0, 1>>) \o <<n>> \o [r \in 1 .. n |-> xs[r] + 1]
       [] t.base \in ListKinds -> ends \o all(ones)
       [] t.base = "Tuple" /\ t.args # <<>> -> all(xs)
       [] t.base = "Variant" -> <<0>> \o xs \o Sent(t.args[1], zeros) \o Sent(t.args[2], ones)
       [] t.base = "Dynamic" -> <<3, 2, 0, 1>> \o xs \o zeros \o ones
       [] t.base = "JSON" ->
            IF t.args = <<>> THEN <<1>> \o xs
            ELSE <<3, 1, 0, 3, 1, 0>> \o all(xs) \o [r \in 1 .. n |-> 0] \o xs
       [] t.base = "FixedString" -> FlattenSeq([r \in 1 .. n |-> Meant(t, xs[r])])
       [] t.base = "UUID" -> FlattenSeq([r \in 1 .. n |-> <<0, xs[r]>>])
       [] OTHER -> xs

DenseServed ==
  \E t \in DOMAIN Declared, n \in 1 .. MaxRows : \E xs \in [1 .. n -> 0 .. 1] :
    /\ phase = "arriving" /\ type = t /\ rows = n /\ kind = "none" /\ column = Nil
    /\ stream = Units(AnyWidth, Header.none \o Sent(Declared[t], xs))
    /\ expected = [r \in 1 .. n |-> Meant(Declared[t], xs[r])]

Built ==
  \E c \in Columns : /\ phase = "built" /\ type = c.type /\ rows = row_count(c.data)
                     /\ kind = "none" /\ stream = <<>> /\ column = c.data /\ expected = <<>>

Init == (Arriving \/ DenseServed \/ SparseServed \/ ReplicatedServed \/ Built) /\ again = Nil

Result == DecodeColumn(type, rows, stream)

Arrive(result) ==
  /\ Len(stream) < (IF IsPrefix(KeysToFollow, stream) THEN Len(KeysToFollow) ELSE Len(Header[kind]))
                   + (IF type \in Alike \/ kind = "none" THEN MaxRows ELSE MaxStream)
  /\ result.status \in {"eof", "huge"}
  /\ \E v \in Incoming : stream' = Append(stream, Unit(AnyWidth, v))
  /\ UNCHANGED <<type, rows, phase, kind, column, again, expected>>

Decode(result) ==
  /\ result.status # "eof"
  /\ phase' = CASE result.status = "ok" -> "decoded" [] result.status = "panic" -> "panicked"
                [] result.status = "huge" -> "aborted" [] OTHER -> "refused"
  /\ column' = result.value
  /\ UNCHANGED <<type, rows, kind, stream, again, expected>>

Encode ==
  /\ phase \in {"decoded", "built"}
  /\ LET written == EncodeColumn(column, kind)
     IN stream' = written.units /\ phase' = IF written.whole THEN "written" ELSE "rejected"
  /\ UNCHANGED <<type, rows, kind, column, again, expected>>

Reread ==
  /\ phase = "written"
  /\ LET result == Result
     IN again' = IF result.status = "ok" /\ result.rest = <<>> THEN result.value ELSE Nil
  /\ phase' = "reread"
  /\ UNCHANGED <<type, rows, kind, stream, column, expected>>

Next ==
  \/ phase = "arriving" /\ \E result \in {Result} : Arrive(result) \/ Decode(result)
  \/ Encode
  \/ Reread

Spec == Init /\ [][Next]_vars

-----------------------------------------------------------------------------
(* Properties. *)

Mentions(words) == ToSet(type) \cap words # {}

(* Types the decoder lets through without holding them to what encode       *)
(* demands: keys against dictionary and rows, tuples of nothing, strings of *)
(* no bytes.                                                                *)
Loose ==
  \/ Mentions({"LowCardinality"})
  \/ \E i \in 1 .. Len(type) - 1 : type[i] = "(" /\ type[i + 1] \in {")", " ", "0"}

(* A type with arguments that has none, or only blanks. *)
NoArguments ==
  \E i \in 2 .. Len(type) - 1 :
    type[i] = "(" /\ type[i + 1] \in {")", " "} /\ type[i - 1] # "Tuple"


(* A decoded column is one encode would accept, with as many rows as the    *)
(* block said, whatever the stream said.                                    *)
DecodedIsConsistent ==
  phase = "decoded" /\ ~Loose => validate(column) /\ row_count(column) = rows

(* ... so that the formatter finds every row of it, through offsets,        *)
(* discriminators and null maps.                                            *)
EveryRowReadable ==
  phase = "decoded" /\ ~Loose => \A r \in 0 .. rows - 1 : InBounds(column, r)

(* A sparse column has its values at their rows and the default elsewhere,  *)
(* a replicated one the element each index picks, in lists and tuples too.  *)
ExpandsToWhatWasMeant ==
  expected # <<>> /\ kind # "none" => /\ phase \notin {"refused", "panicked", "aborted"}
                                      /\ phase = "decoded" => Cells(column) = expected

ReadsTheSame == again # Nil /\ Cells(again) = Cells(column)

(* What encode writes is, to its last unit, what decode reads, row by row;  *)
(* kind says how, if it is the dense form encode has.                       *)
ReadBack ==
  phase = "reread" /\ kind \in {"none", "dense"} /\ row_count(column) = rows => ReadsTheSame

(* The same of every column the client can hold, those a server sent in     *)
(* another form included: "When `kind_stack = 0x01`, the column `data` is   *)
(* two streams written back-to-back" (NATIVE_FORMAT.md:174).                *)
EveryKindReadBack ==
  phase = "reread" /\ row_count(column) = rows => ReadsTheSame

(* ColumnData::encode refuses an inconsistent column before it writes any   *)
(* of it, however deep the inconsistency is; a FLATTENED JSON inside is     *)
(* found out too late.                                                      *)
RejectedBeforeItsData ==
  phase = "rejected" /\ ~Mentions({"JSON"}) =>
    stream = Units(1, IF kind = "none" THEN <<0>> ELSE <<1, KindByte[kind]>>)

RECURSIVE Conforms(_, _)
Conforms(t, col) ==
  LET plain(a) == IF a.base = "Nullable" THEN a.args[1] ELSE a
      all(cols) == /\ Len(cols) = Len(t.args)
                   /\ \A i \in DOMAIN cols : Conforms(t.args[i], cols[i])
  IN CASE t.base = "Decimal" -> col.data \in ToSet(t.names)
       [] t.base \in {"Enum8", "Enum16"} -> col.data = t.base /\ col.names = t.names
       [] t.base = "Nullable" -> col.data = "Nullable" /\ Conforms(t.args[1], col.inner)
       [] t.base = "LowCardinality" ->
            col.data = t.base /\ Conforms(plain(t.args[1]), col.dict)
       [] t.base \in ListKinds \cup {"Tuple", "Variant"} -> col.data = t.base /\ all(col.cols)
       [] t.base = "JSON" -> \/ col.data = "Json"
                             \/ /\ col.data = "JsonObject"
                                /\ all(SubSeq(col.cols, 1, Len(t.args)))
       [] t.base = "FixedString" -> col.data = t.base /\ col.n = t.names[1]
       [] t.base \in {"Dynamic", "Nothing"} -> col.data = t.base
       [] t.base = "UUID" -> col.data = "Uuid"
       [] OTHER -> col.data = ReadAs[t.base][1]

(* A column that is a server's own is arriving or has been decoded. *)
Served == kind = "none" /\ expected # <<>>

(* A type string is taken apart as its type is put together: a column has   *)
(* the type's shape whatever was in the stream, and what a server sends of  *)
(* the type is read to its last unit, as the rows it meant; but a NULL of a *)
(* LowCardinality(Nullable(T)) is read as the value that stands at its key. *)
TypeIsUnderstood ==
  /\ phase = "decoded" /\ type \in DOMAIN Declared => Conforms(Declared[type], column)
  /\ Served => phase \notin {"refused", "panicked", "aborted"}
  /\ Served /\ phase = "arriving" => Result.status = "ok" /\ Result.rest = <<>>
  /\ Served /\ phase = "decoded" =>
       \A r \in DOMAIN expected :
         \/ Mentions({"LowCardinality"}) /\ expected[r] = <<>>
         \/ Cell(column, r - 1) = expected[r]
=============================================================================
