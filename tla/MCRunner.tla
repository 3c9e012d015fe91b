------------------------------- MODULE MCRunner -------------------------------
(* Scripts, results and command lines for the model checker. *)
EXTENDS ChTsv

MCHints ==
     ("{1}" :> <<Number(1)>>) @@ ("{2,y}" :> <<Number(2), Name("y")>>)
  @@ ("{x}" :> <<Name("x")>>) @@ ("{y}" :> <<Name("y")>>) @@ ("{}" :> <<>>)

MCCodeOf == "x" :> 1

MCCommandLines ==
  {<<>>, <<"a.sql">>, <<"a.sql", "b.sql">>, <<"--host">>, <<"--host", "h", "a.sql", "--user", "u">>,
   <<"--unknown", "a.sql">>, <<"a.sql", "--help">>, <<"a.sql", "--password">>}

UpTo(n, elements) == UNION {[1 .. k -> elements] : k \in 0 .. n}

(* Every order of a few characters that mean something ... *)
Fragments ==
  {<<"a">>, <<";">>, <<" ">>, <<"nl">>, <<"'">>, <<"dq">>, <<"\\">>, <<"-">>, <<"-", "-">>,
   <<"/", "*">>, <<"*", "/">>, <<"{x}">>}

(* ... and of whole pieces. *)
Parts ==
  {<<"a", ";">>, <<"b", ";">>, <<"'", ";", "'", "'", "-", "-", "'">>,
   <<"nl", "-", "-", "{1}", "nl">>, <<"-", "-", "{x}", ";", "nl">>, <<"/", "*", "{2,y}", "*", "/">>,
   <<"-", "-", "{}", "{1}", "nl">>, <<"tick", ";", "\\", "tick">>, <<"dq", "\\", "dq", ";", "dq">>,
   <<"-", "-", "{y}", "nl">>}

(* ... and one script for each family of columns below. *)
Families == {"string", "json", "fixed", "nullable", "array", "nulls", "tuple", "map", "nested",
             "dictionary", "variant", "dynamic", "object", "enum", "mixed", "dates", "ticks", "floats",
             "wide", "wide decimals", "small"}

MCScripts == {FlattenSeq(f) : f \in UpTo(4, Fragments) \cup UpTo(3, Parts)} \cup {<<"r", f>> : f \in Families}

-----------------------------------------------------------------------------

Characters == {"a", "tab", "nl", "\\", "'", "N", ",", "dq"}
Strings2   == UpTo(2, Characters)
Strings1   == {<<>>, <<"a">>, <<"\\">>, <<"'">>, <<",">>, <<"N", "U", "L", "L">>, <<"\\", "N">>, <<"'", ",", "'">>}

Pairs(set) == {<<v, w>> : v \in set, w \in set}

Str(values) == Flat("String", values)
U8(values)  == Flat("Uint8", values)

Days == -719530 .. -719526 \cup -25570 .. -25564 \cup {-366, -365, -1, 0, 1, 31, 58, 59, 364, 365}
        \cup 788 .. 791 \cup 11015 .. 11018 \cup 47539 .. 47541 \cup {-719469, -719468, -719467, 157112}

Seconds == {-86401, -86400, -86399, -1, 0, 1, 59, 3599, 3600, 86399, 86400, 951782399, 951782400}

Float(neg, digits, exp) == [neg |-> neg, digits |-> digits, exp |-> exp]

FloatSamples ==
  LET exps == Ascending(-9 .. 3 \cup 19 .. 22)
      some == <<<<"1">>, <<"1", "5">>, <<"1", "0", "5">>>>
  IN [n \in 1 .. 3 * Len(exps) |-> Float(FALSE, some[(n % 3) + 1], exps[(n + 2) \div 3])]
     \o <<Float(TRUE, <<"2">>, 0), Float(FALSE, <<"0">>, 0), Float(FALSE, <<"nan">>, 0), Float(TRUE, <<"inf">>, 0)>>

(* All wide values, in columns of an eighth of them each. *)
WideColumns ==
  {[n \in 1 .. ByteBase^WideBytes \div 8 |->
      [i \in 1 .. WideBytes |-> ((8 * (n - 1) + k) \div ByteBase^(i - 1)) % ByteBase]] : k \in 0 .. 7}

(* Rows of strings, alone and inside every composite, and of numbers. *)
ColumnsOf(family) ==
  CASE family = "string" -> {Str(p) : p \in Pairs(Strings2)}
    [] family = "json" -> {Flat("Json", p) : p \in Pairs(Strings1)}
    [] family = "fixed" -> {FixedString(2, p[1] \o p[2]) : p \in Pairs([1 .. 2 -> {"a", "\\", "nul", "tab"}])}
    [] family = "nullable" ->
         {Nullable(Str(p), n) : p \in Pairs(Strings1), n \in {<<0, 1>>, <<1, 0>>, <<0, 0>>}}
    [] family = "array" ->
         {Lists("Array", <<Str(v)>>, o) : v \in [1 .. 3 -> Strings1], o \in {<<1, 3>>, <<0, 3>>}}
    [] family = "nulls" -> {Lists("Array", <<Nullable(Str(p), <<0, 1>>)>>, <<1, 2>>) : p \in Pairs(Strings1)}
    [] family = "tuple" -> {Tuple(<<Str(p), Str(<<<<"a">>, <<"'">>>>)>>) : p \in Pairs(Strings1)}
    [] family = "map" -> {Lists("Map", <<Str(p), U8(<<1, 2>>)>>, <<1, 2>>) : p \in Pairs(Strings1)}
    [] family = "nested" -> {Lists("Nested", <<Str(p), U8(<<1, 1>>)>>, <<1, 2>>) : p \in Pairs(Strings1)}
    [] family = "dictionary" ->
         {LowCardinality(Str(p), k, 1) : p \in Pairs(Strings1), k \in {<<0, 1>>, <<1, 1>>}}
    [] family = "variant" ->
         {Union("Variant", <<>>, d, <<0, 0>>, <<Str(<<v>>), Str(<<<<"a">>>>)>>)
            : v \in Strings1, d \in {<<0, 3>>, <<3, 1>>, <<0, 1>>}}
    [] family = "dynamic" ->
         {Union("Dynamic", <<0, 1>>, d, o, <<U8(<<1, 2>>), Str(p)>>)
            : p \in Pairs({<<>>, <<"1">>, <<"\\", "N">>}),
              <<d, o>> \in {<<<<0, 1, 1>>, <<0, 0, 1>>>>, <<<<0, 0, 1>>, <<0, 1, 0>>>>, <<<<2, 1, 0>>, <<0, 0, 0>>>>}}
    [] family = "object" ->
         {JsonObject(2, <<Nullable(Str(p), <<0, 1>>),
                          Union("Dynamic", <<1>>, <<1, 0>>, <<0, 0>>, <<Str(<<v>>)>>)>>)
            : p \in Pairs(Strings1), v \in Strings1}
         \cup {JsonObject(2, <<Union("Dynamic", <<0, 1>>, <<0, 1>>, <<0, 0>>, <<c, Str(<<<<"1">>>>)>>)>>)
                  : c \in {U8(<<1>>), Enum("Enum8", {<<1, <<"1">>>>}, <<1>>)}}
         \cup {JsonObject(2, <<Str(p)>>) : p \in Pairs(Strings1)}
    [] family = "enum" ->
         {Lists("Array", <<Enum("Enum8", {<<1, <<"a", ",">>>>, <<2, <<"'", "tab">>>>}, v)>>, <<1, 3>>)
            : v \in [1 .. 3 -> 1 .. 3]}
         \cup {Enum("Enum8", {<<1, <<"3">>>>, <<2, <<"a">>>>}, v) : v \in [1 .. 2 -> 1 .. 3]}
    [] family = "mixed" ->
         {Tuple(<<Lists("Array", <<U8(<<1, 2>>)>>, o), Tuple(<<U8(<<1, 1>>)>>),
                  LowCardinality(Str(<<<<"a">>>>), <<0, 0>>, 1), Flat("Ipv4", <<27, 228>>),
                  Flat("Uuid", <<7, 8>>), Flat("Date", <<0, 1>>)>>)
            : o \in {<<0, 2>>, <<1, 2>>, <<2, 2>>}}
    [] family = "dates" ->
         {Flat("Date32", Ascending(Days)), Flat("Date", Ascending({d \in Days : d >= 0})),
          Flat("DateTime", Ascending(Seconds)), Flat("Time", <<-3600001, -3600000, -3599999, -5, 0, 59, 3599999, 3600000, 3600007>>),
          Lists("Array", <<Flat("Time", <<3600007, 5, 3600000, 5, 6>>)>>, <<2, 4, 5>>)}
    [] family = "ticks" ->
         {Scaled("DateTime64", 1, <<-864001, -10, -1, 0, 1, 9, 10, 863999>>),
          Scaled("Time64", 2, <<-360000101, -360000000, -359999999, -359999900, -100, -1, 0, 1, 99, 100,
                              359999900, 359999999, 360000000, 360000001>>),
          Scaled("Decimal32", 2, Ascending(-12 .. 12 \cup {-120, -105, 90, 99, 100, 101, 110})), Scaled("Decimal64", 0, Ascending(-12 .. 12))}
    [] family = "floats" -> {Flat("Float64", FloatSamples), Flat("Float32", FloatSamples)}
    [] family = "wide" -> {Flat(type, v) : type \in {"Int256", "Uint256"}, v \in WideColumns}
    [] family = "wide decimals" -> {Scaled("Decimal256", n, v) : n \in {0, 1, 3}, v \in WideColumns}
    [] family = "small" -> {Flat("Int8", Ascending(-12 .. 12)), Flat("Bool", <<0, 1>>), Flat("Ipv4", Ascending(0 .. 20))}

Of(columns) == Block(columns, row_count(columns[1]))

Single(c) == Rows(QueryResult(<<Of(<<c>>)>>, NoBlock, NoBlock))

One == Of(<<U8(<<1>>), Str(<<<<"a">>>>)>>)
Two == Of(<<U8(<<1, 2>>), Nullable(U8(<<1, 2>>), <<1, 0>>)>>)

MCAnswers(text) ==
  CASE text # <<>> /\ text[1] = "r" -> {Single(c) : c \in ColumnsOf(text[2])}
    [] text = <<"a">> ->
         {Rows(QueryResult(<<One>>, NoBlock, NoBlock)), Exception(1), Exception(2), Broken({}), Broken({1})}
    [] text = <<"b">> ->
         {Rows(QueryResult(b, t, e)) : b \in {<<>>, <<One, Two>>}, t \in {NoBlock, Two}, e \in {NoBlock, Two}}
         \cup {Single(c) : c \in {Nothing(1), Tuple(<<U8(<<1>>), Nothing(1)>>),
                                  Lists("Array", <<Flat("Json", <<<<"a">>>>)>>, <<1>>)}}
    [] OTHER -> {Rows(QueryResult(<<>>, NoBlock, NoBlock)), Exception(1)}
=============================================================================
