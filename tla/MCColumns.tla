----------------------------- MODULE MCColumns -----------------------------
(* Type strings and columns for the model checker: every decoder and every  *)
(* parser, composites of composites, and columns a caller may get wrong.    *)
EXTENDS Columns

T(base)            == [base |-> base, args |-> <<>>, names |-> <<>>]
Of(base, args)     == [base |-> base, args |-> args, names |-> <<>>]

RECURSIVE Spelled(_)
Spelled(t) ==
  <<t.base>> \o IF t.args = <<>> THEN <<>>
               ELSE <<"(">> \o Joined([i \in DOMAIN t.args |-> Spelled(t.args[i])], <<",">>) \o <<")">>

UInt8 == T("UInt8")
Str   == T("String")

Leaves == {T(b) : b \in (DOMAIN ReadAs \ {"Enum8", "Enum16", "DateTime64", "Time64"})
                        \cup {"UUID", "Dynamic", "JSON"}}

Composites ==
  {Of("Nullable", <<UInt8>>), Of("Nullable", <<T("Nothing")>>),
   Of("Array", <<UInt8>>), Of("Array", <<Of("Nullable", <<UInt8>>)>>),
   Of("Tuple", <<UInt8, Str>>), Of("Tuple", <<Of("Array", <<UInt8>>), Str>>),
   Of("Map", <<UInt8, Of("Array", <<UInt8>>)>>), Of("Variant", <<UInt8, Str>>),
   Of("LowCardinality", <<Str>>), Of("LowCardinality", <<Of("Nullable", <<Str>>)>>)}

Lit(words, base, args, names) == words :> [base |-> base, args |-> args, names |-> names]

(* Strings with more in them than their types. *)
Literal ==
     Lit(<<"Tuple", "(", ")">>, "Tuple", <<>>, <<>>)
  @@ Lit(<<"Array", "(", "Tuple", "(", ")", ")">>, "Array", <<T("Tuple")>>, <<>>)
  @@ Lit(<<"Tuple", "(", "a", "UInt8", ",", "b", "Array", "(", "String", ")", ")">>,
         "Tuple", <<UInt8, Of("Array", <<Str>>)>>, <<>>)
  @@ Lit(<<"Nested", "(", "a", "UInt8", ",", "b", "Tuple", "(", "x", "UInt8", ",", "String", ")", ")">>,
         "Nested", <<UInt8, Of("Tuple", <<UInt8, Str>>)>>, <<>>)
  @@ Lit(<<"SimpleAggregateFunction", "(", "quantile", "(", "1", ")", ",", "UInt8", ")">>,
         "UInt8", <<>>, <<>>)
  @@ Lit(<<"Point">>, "Tuple", <<T("Float64"), T("Float64")>>, <<>>)
  @@ Lit(<<"Ring">>, "Array", <<Of("Tuple", <<T("Float64"), T("Float64")>>)>>, <<>>)
  @@ Lit(<<"Tuple", "(", " ", ")">>, "Tuple", <<>>, <<>>)
  @@ Lit(<<"JSON", "(", "max_dynamic_paths=", "9", ",", "tick", "a", ",", "tick", "UInt8", ",", "b", "Array", "(", "UInt8", ")", ")">>,
         "JSON", <<UInt8, Of("Array", <<UInt8>>)>>, <<>>)
  @@ Lit(<<"Enum8", "(", "'", "a", ",", "b", "'", "=", "1", ",", "'", "c", "'", "=", "2", ")">>,
         "Enum8", <<>>, {<<1, <<"a", ",", "b">>>>, <<2, <<"c">>>>})
  @@ Lit(<<"Enum16", "(", "'", "c", "'", "=", "2", ")">>, "Enum16", <<>>, {<<2, <<"c">>>>})
  @@ Lit(<<"FixedString", "(", "2", ")">>, "FixedString", <<>>, <<2>>)
  @@ Lit(<<"DateTime64", "(", "3", ",", "'", "UTC", "'", ")">>, "DateTime64", <<>>, <<>>)
  @@ Lit(<<"Time64", "(", "9", ")">>, "Time64", <<>>, <<>>)
  @@ Lit(<<"Decimal", "(", "9", ",", "2", ")">>, "Decimal", <<>>, <<"Decimal32">>)
  @@ Lit(<<"Decimal", "(", "10", ",", "2", ")">>, "Decimal", <<>>, <<"Decimal64">>)
  @@ Lit(<<"Decimal", "(", "38", ",", "2", ")">>, "Decimal", <<>>, <<"Decimal128">>)
  @@ Lit(<<"Decimal", "(", "76", ",", "2", ")">>, "Decimal", <<>>, <<"Decimal256">>)

MCDeclared ==
  LET terms == Leaves \cup Composites
      strings == {Spelled(t) : t \in terms}
  IN [s \in strings |-> CHOOSE t \in terms : Spelled(t) = s] @@ Literal

MCOthers ==
  {<<"Unknown">>, <<"Tuple", "(", "UInt8">>, <<"Array", "(", ")">>, <<"Array", "(", " ", ")">>,
   <<"Map", "(", "UInt8", ")">>, <<"Map", "(", " ", ")">>, <<"Nested", "(", "UInt8", ")">>,
   <<"Variant", "(", ")">>, <<"SimpleAggregateFunction", "(", ")">>,
   <<"SimpleAggregateFunction", "(", "sum", ")">>, <<"FixedString", "(", "0", ")">>,
   <<"FixedString", "(", "9", ")">>, <<"Decimal", "(", "77", ",", "2", ")">>,
   <<"DateTime64", "(", "10", ")">>,
   <<"JSON", "(", "tick", "a", "b", "tick", "UInt8", ")">>}

MCAlike ==
  MCOthers \cup {<<"LowCardinality", "(", "Nullable", "(", "String", ")", ")">>} \cup
  {s \in DOMAIN MCDeclared : s[1] \in (DOMAIN ReadAs \cup {"Decimal"}) \ {"UInt8", "String"}}

Values(n) == UNION {[1 .. k -> 0 .. 1] : k \in 0 .. n}
Offsets   == UNION {[1 .. k -> 0 .. 2] : k \in 0 .. 2}
U8(n)     == {Flat("Uint8", v) : v \in Values(n)}

(* Offsets as they follow from the discriminators, or too few of them: the  *)
(* client compares nothing else of a caller's.                              *)
Derived(discriminators) ==
  {<<>>, [r \in DOMAIN discriminators |->
            Selecting(SubSeq(discriminators, 1, r - 1), discriminators[r])]}

Column(t, data) == [type |-> t, data |-> data]

MCColumns ==
  LET nullable == {Nullable(c, nulls) : c \in U8(2), nulls \in Values(2)}
      arrays == {Lists("Array", <<c>>, o) : c \in U8(2), o \in Offsets}
      S(t) == Spelled(t)
  IN {Column(S(UInt8), c) : c \in U8(2)}
     \cup {Column(S(Str), Flat("String", v)) : v \in Values(2)}
     \cup {Column(S(T("UUID")), Flat("Uuid", v)) : v \in {<<6, 13>>, <<1>>, <<>>}}
     \cup {Column(<<"FixedString", "(", "2", ")">>, FixedString(2, v)) : v \in Values(4)}
     \cup {Column(S(Of("Nullable", <<UInt8>>)), c) : c \in nullable}
     \cup {Column(S(Of("Array", <<UInt8>>)), c) : c \in arrays}
     \cup {Column(S(Of("Array", <<Of("Nullable", <<UInt8>>)>>)), Lists("Array", <<c>>, o))
             : c \in nullable, o \in Offsets}
     \cup {Column(S(Of("Tuple", <<Of("Array", <<UInt8>>), Str>>)), Tuple(<<a, Flat("String", v)>>))
             : a \in arrays, v \in {<<>>, <<1>>, <<0, 1>>}}
     \cup {Column(S(Of("Map", <<UInt8, Of("Array", <<UInt8>>)>>)), Lists("Map", <<k, a>>, <<1, 2>>))
             : k \in U8(2), a \in arrays}
     \cup {Column(S(Of("LowCardinality", <<Str>>)), LowCardinality(Flat("String", v), keys, w))
             : v \in {<<1>>, <<0, 1>>}, keys \in Offsets, w \in {1, 2, 3}}
     \cup {Column(S(Of("Variant", <<UInt8, Str>>)), Union("Variant", <<>>, d, o, <<c, Flat("String", v)>>))
             : <<d, o>> \in UNION {{d} \X Derived(d) : d \in {<<>>, <<0, 1>>, <<1, 1>>, <<ByteMax, 0>>, <<2>>}},
               c \in U8(1), v \in Values(2)}
     \cup {Column(S(T("Dynamic")), Union("Dynamic", names, d, o, cols))
             : names \in {<<0>>, <<0, 1>>},
               <<d, o>> \in UNION {{d} \X Derived(d) : d \in {<<>>, <<0, 1>>, <<1, 0>>, <<2, 1>>}},
               cols \in {<<c>> : c \in U8(1)} \cup {<<c, Flat("String", v)>> : c \in U8(1), v \in Values(1)}}
     \cup {Column(S(T("JSON")), JsonObject(1, <<c>>)) : c \in U8(1)}
     \cup {Column(S(T("JSON")), Flat("Json", v)) : v \in Values(2)}
=============================================================================
