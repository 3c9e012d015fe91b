--------------------------------- MODULE Tsv ---------------------------------
(***************************************************************************)
(* Rows as TabSeparated text (src/tsv.rs).  A text is a sequence of        *)
(* characters; the ones that may not appear in a value have names ("tab",  *)
(* "nl", ...), and a value's string is such a sequence too.  Writers       *)
(* return what was written and whether it was all there was to write: a    *)
(* type without a text ends in the middle of its line.                     *)
(***************************************************************************)
EXTENDS ColumnData, Wire, Cut, Numbers

Scaled(data, scale, values) == [data |-> data, scale |-> scale, values |-> values]
Enum(data, names, values)   == [data |-> data, names |-> names, values |-> values]

-----------------------------------------------------------------------------
(* Strings. *)

EscapeOf(c) ==
  CASE c = "\\" -> "\\" [] c = "tab" -> "t" [] c = "nl" -> "n" [] c = "cr" -> "r"
    [] c = "nul" -> "0" [] c = "bs" -> "b" [] c = "ff" -> "f" [] OTHER -> c

Escaped(chars, Special) ==
  FlattenSeq([i \in DOMAIN chars |->
    IF chars[i] \in Special THEN <<"\\", EscapeOf(chars[i])>> ELSE <<chars[i]>>])

(* Bug: a backslash stands for itself. *)
write_string_escaped_Bug(chars) == Escaped(chars, {"tab", "nl", "cr", "nul", "bs", "ff", "'"})

write_string_escaped(chars) == Escaped(chars, {"\\", "tab", "nl", "cr", "nul", "bs", "ff", "'"})

write_json_string(chars) == <<"dq">> \o Escaped(chars, {"dq", "\\", "nl", "cr", "tab"}) \o <<"dq">>

(* A value outside the map has its number for a label. *)
LabelsOf(names, value) == {p[2] : p \in {q \in names : q[1] = value}}

-----------------------------------------------------------------------------
(* write_value and the writers of composites. *)

Whole == {"Uint8", "Uint16", "Uint32", "Uint64", "Int8", "Int16", "Int32", "Int64",
          "Int128", "Uint128", "Interval", "Uuid", "Ipv6"}
Enums == {"Enum8", "Enum16"}

(* Types written in single quotes inside a composite; an enum's label too. *)
Quoted == Instants \cup {"String", "FixedString", "Uuid", "Ipv4", "Ipv6"}
Scalars == Whole \cup Floats \cup Decimals \cup Wides \cup Enums \cup Quoted \cup {"Bool", "Json"}

Ipv4Bytes(n) == [i \in 1 .. 4 |-> (n \div ByteBase^(4 - i)) % ByteBase]

(* The text of a type that has no others inside. *)
Leaf(col, r) ==
  IF col.data = "FixedString"
  THEN write_string_escaped(SubSeq(col.bytes, r * col.n + 1, (r + 1) * col.n))
  ELSE
  LET v == col.values[r + 1] IN
  CASE col.data \in Whole -> Signed(v)
    [] col.data = "Bool" -> IF v # 0 THEN <<"true">> ELSE <<"false">>
    [] col.data \in {"String", "Json"} -> write_string_escaped(v)
    [] col.data = "Ipv4" -> Joined([i \in 1 .. 4 |-> Digits(Ipv4Bytes(v)[i])], <<".">>)
    [] col.data \in Enums ->
         IF LabelsOf(col.names, v) = {} THEN Signed(v)
         ELSE write_string_escaped(CHOOSE l \in LabelsOf(col.names, v) : TRUE)
    [] OTHER -> NumberText(col, v)

(* Texts one after another, with something around and between them. *)
Enclosed(open, parts, close) ==
  LET between(i) == IF i = 1 THEN parts[i] ELSE Followed(Written(<<",">>), parts[i])
  IN Followed(Followed(Written(open), AllWritten([i \in DOMAIN parts |-> between(i)])), Written(close))

RECURSIVE write_value_quoted(_, _)

QuotesOf(col, r) ==
  IF \/ col.data \in Quoted
     \/ col.data \in Enums /\ LabelsOf(col.names, col.values[r + 1]) # {}
  THEN <<"'">> ELSE <<>>

Around(quotes, text) == quotes \o text \o quotes

(* Array, Map and Nested, from one offset to the next. *)
write_list(col, r) ==
  LET from == Start(col.offsets, r)
      element(i) ==
        LET values == [j \in DOMAIN col.cols |-> write_value_quoted(col.cols[j], i)]
        IN CASE col.data = "Array" -> values[1]
             [] col.data = "Map" -> Followed(Followed(values[1], Written(<<":">>)), values[2])
             [] col.data = "Nested" -> Enclosed(<<"(">>, values, <<")">>)
  IN Enclosed(IF col.data = "Map" THEN <<"{">> ELSE <<"[">>,
              [i \in 1 .. col.offsets[r + 1] - from |-> element(from + i - 1)],
              IF col.data = "Map" THEN <<"}">> ELSE <<"]">>)

write_tuple(col, r) ==
  Enclosed(<<"(">>, [j \in DOMAIN col.cols |-> write_value_quoted(col.cols[j], r)], <<")">>)

write_value_quoted(col, r) ==
  CASE col.data \in Scalars \ {"Json"} -> Written(Around(QuotesOf(col, r), Leaf(col, r)))
    [] col.data = "Nullable" ->
         IF col.nulls[r + 1] = 1 THEN Written(<<"N", "U", "L", "L">>)
         ELSE write_value_quoted(col.inner, r)
    [] col.data \in ListKinds -> write_list(col, r)
    [] col.data = "Tuple" -> write_tuple(col, r)
    [] col.data = "LowCardinality" -> write_value_quoted(col.dict, col.keys[r + 1])
    [] OTHER -> Refused

RECURSIVE write_value(_, _)

(* Paths by their number, without the dynamic ones that are NULL; a value  *)
(* of a type JSON has no form for is a string of its text.                 *)
write_json_object(col, r) ==
  LET isNull(c) == c.data = "Dynamic" /\ c.discriminators[r + 1] >= Len(c.cols)
      shown == SelectSeq([i \in DOMAIN col.cols |-> i], LAMBDA i : ~isNull(col.cols[i]))
      bare  == (Whole \ {"Interval", "Uuid", "Ipv6"}) \cup {"Float32", "Float64", "Bool"}
      Value(c, at) ==
        LET text == write_value(c, at)
        IN CASE c.data \in bare -> text
             [] c.data = "String" -> Written(write_json_string(c.values[at + 1]))
             [] OTHER -> IF text.whole THEN Written(write_json_string(text.units)) ELSE Refused
      cell(c) == IF c.data # "Dynamic" THEN [of |-> c, at |-> r]
                 ELSE [of |-> c.cols[c.discriminators[r + 1] + 1], at |-> c.offsets[r + 1]]
      member(i) == Followed(Written(write_json_string(Digits(i)) \o <<":">>),
                            Value(cell(col.cols[i]).of, cell(col.cols[i]).at))
  IN Enclosed(<<"{">>, [k \in DOMAIN shown |-> member(shown[k])], <<"}">>)

write_value(col, r) ==
  CASE col.data \in Scalars -> Written(Leaf(col, r))
    [] col.data \in ListKinds -> write_list(col, r)
    [] col.data = "Tuple" -> write_tuple(col, r)
    [] col.data = "LowCardinality" -> write_value(col.dict, col.keys[r + 1])
    [] col.data = "Nullable" ->
         IF col.nulls[r + 1] = 1 THEN Written(<<"\\", "N">>) ELSE write_value(col.inner, r)
    [] col.data \in UnionKinds ->
         IF col.discriminators[r + 1] = NullDiscriminator(col) THEN Written(<<"\\", "N">>)
         ELSE write_value(col.cols[col.discriminators[r + 1] + 1], col.offsets[r + 1])
    [] col.data = "JsonObject" -> write_json_object(col, r)
    [] OTHER -> Refused

write_row(columns, r) ==
  LET field(i) ==
        Followed(Written(IF i = 1 THEN <<>> ELSE <<"tab">>), write_value(columns[i], r))
  IN Followed(AllWritten([i \in DOMAIN columns |-> field(i)]), Written(<<"nl">>))

=============================================================================
