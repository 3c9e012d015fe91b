----------------------------- MODULE TypeString -----------------------------
(***************************************************************************)
(* How the client takes apart the type strings the server sends (the       *)
(* parsers at the end of src/proto/column.rs).  A string is a sequence of  *)
(* lexemes: what the scanners look at (parentheses, commas, quotes, back   *)
(* ticks, =) and the words between; two words in a row have a space        *)
(* between them, and so have a back tick that closes a name and a word     *)
(* behind it.  A blank is a lexeme where there is nothing else.  No        *)
(* recursive definition of the grammar is followed, here or there: each    *)
(* parser cuts out what is between the first "(" and the last ")" and      *)
(* leaves the pieces to the decoder that asked.  A parser returns the set  *)
(* of its results: empty is an error.                                      *)
(***************************************************************************)
EXTENDS Cut

Marks == {"(", ")", ",", "=", "'", "tick"}

(* What str::parse makes of the words that are numbers. *)
Number == [n \in {"0", "1", "2", "3", "4", "9", "10", "18", "19", "38", "39", "76", "77"} |->
  CASE n = "0" -> 0 [] n = "1" -> 1 [] n = "2" -> 2 [] n = "3" -> 3 [] n = "4" -> 4
    [] n = "9" -> 9 [] n = "10" -> 10 [] n = "18" -> 18 [] n = "19" -> 19 [] n = "38" -> 38
    [] n = "39" -> 39 [] n = "76" -> 76 [] n = "77" -> 77]

(* All in front of the first "(": no type has a name of several words. *)
BaseType(dt) ==
  IF Len(dt) = 1 \/ (Len(dt) > 1 /\ dt[2] = "(") THEN dt[1] ELSE "of no type"

(* From the first "(" to the last ")", trimmed; at least `least` lexemes   *)
(* before that.                                                            *)
Between(dt, least) ==
  IF Positions(dt, "(") = {} \/ Positions(dt, ")") = {} THEN {}
  ELSE LET open  == Min(Positions(dt, "("))
           close == Max(Positions(dt, ")"))
       IN IF close >= open + 1 + least
          THEN {SelectSeq(SubSeq(dt, open + 1, close - 1), LAMBDA x : x # " ")} ELSE {}

parse_composite_inner_type(dt) == Between(dt, 1)

(* Parentheses opened before position i and not closed. *)
Depth(s, i) ==
  LET before(mark) == Cardinality({j \in Positions(s, mark) : j < i})
  IN before("(") - before(")")

(* Bug: commas inside parentheses separate as well. *)
split_with_composite_Bug(s) ==
  IF Depth(s, Len(s) + 1) # 0 THEN {} ELSE {Pieces(s, Positions(s, ","))}

(* Commas at depth 0; quotes mean nothing here, so a label with a          *)
(* parenthesis unbalances the string and is refused.                       *)
split_with_composite(s) ==
  IF Depth(s, Len(s) + 1) # 0 THEN {}
  ELSE {Pieces(s, {i \in Positions(s, ",") : Depth(s, i) = 0})}

parse_variant_inner_types(dt) ==
  UNION {split_with_composite(inner) : inner \in parse_composite_inner_type(dt)}

(* Of the words before the first "(", the last one starts the type. *)
strip_field_name(s) ==
  LET cutoff == Min({Len(s) + 1} \cup Positions(s, "("))
  IN SubSeq(s, cutoff - 1, Len(s))

parse_tuple_inner_types(dt) ==
  UNION {IF inner = <<>> THEN {<<>>}
         ELSE {[k \in DOMAIN parts |-> strip_field_name(parts[k])]
                : parts \in split_with_composite(inner)}
          : inner \in Between(dt, 0)}

(* The first word is the field's name; the type is behind the space. *)
parse_nested_inner_types(dt) ==
  LET fields(parts) == [k \in DOMAIN parts |-> Tail(parts[k])]
      named(part)   == Len(part) >= 2 /\ part[1] \notin Marks /\ part[2] \notin Marks
  IN {fields(parts) : parts \in {p \in parse_variant_inner_types(dt) :
                                   \A k \in DOMAIN p : named(p[k])}}

parse_map_inner_types(dt) ==
  {parts \in parse_variant_inner_types(dt) : Len(parts) = 2}

(* Everything behind the function's name, joined again. *)
parse_simple_aggregate_inner(dt) ==
  {Joined(Tail(parts), <<",">>) : parts \in
     {p \in UNION {split_with_composite(inner) : inner \in Between(dt, 0)} : Len(p) >= 2}}

(* What split_with_composite is handed is nothing at all: it slices the    *)
(* first byte of it, which panics.  A tuple alone looks before it splits,  *)
(* a SimpleAggregateFunction lets even adjacent parentheses through.       *)
SplitsNothing(dt) ==
  \/ BaseType(dt) = "SimpleAggregateFunction" /\ Between(dt, 0) = {<<>>}
  \/ BaseType(dt) \in {"Variant", "Nested", "Map"} /\ Between(dt, 1) = {<<>>}

(* Commas outside back ticks and parentheses. *)
split_json_paths(s) ==
  LET quoted(i) == Cardinality({j \in Positions(s, "tick") : j < i}) % 2 = 1
      shown(i, mark) == {j \in Positions(s, mark) : j < i /\ ~quoted(j)}
      depth(i)  == Cardinality(shown(i, "(")) - Cardinality(shown(i, ")"))
  IN Pieces(s, {i \in Positions(s, ",") : ~quoted(i) /\ depth(i) = 0})

(* The word behind the first space, back ticks or not. *)
BehindSpace(part) ==
  LET closing(i) == part[i] = "tick" /\ Cardinality({j \in Positions(part, "tick") : j <= i}) % 2 = 0
  IN Find(part, 2, LAMBDA i : part[i] \notin Marks /\ (part[i - 1] \notin Marks \/ closing(i - 1)))

(* A typed path is a name, then its type; parameters and names alone are   *)
(* skipped.                                                                *)
parse_json_typed_paths(dt) ==
  LET skipped(part) == \/ part = <<>> \/ BehindSpace(part) > Len(part)
                       \/ part[1] \in {"max_dynamic_paths=", "max_dynamic_types=", "SKIP"}
      inner == parse_composite_inner_type(dt)
      parts == IF inner = {} THEN <<>> ELSE split_json_paths(CHOOSE s \in inner : TRUE)
      typed == SelectSeq(parts, LAMBDA part : ~skipped(part))
  IN [k \in DOMAIN typed |-> SubSeq(typed[k], BehindSpace(typed[k]), Len(typed[k]))]

(* Any mention anywhere in the string counts. *)
is_stateful_type(dt) ==
  ToSet(dt) \cap {"LowCardinality", "Variant", "Dynamic", "JSON", "Object"} # {}

FirstNumber(dt) ==
  UNION {LET word == Pieces(inner, Positions(inner, ","))[1]
         IN IF Len(word) = 1 /\ word[1] \in DOMAIN Number THEN {Number[word[1]]} ELSE {}
          : inner \in Between(dt, 1)}

parse_datetime64_scale(dt) == {n \in FirstNumber(dt) : n <= 9}

parse_fixed_string_n(dt) ==
  {n \in FirstNumber(dt) : Positions(dt, ",") = {}}

parse_decimal_p_s(dt) ==
  UNION {LET parts == Pieces(inner, Positions(inner, ","))
         IN IF Len(parts) = 2 /\ \A k \in 1 .. 2 : Len(parts[k]) = 1 /\ parts[k][1] \in DOMAIN Number
            THEN {<<Number[parts[1][1]], Number[parts[2][1]]>>} ELSE {}
          : inner \in Between(dt, 1)}

decimal_byte_width(precision) ==
  CASE precision \in 1 .. 9 -> {4} [] precision \in 10 .. 18 -> {8}
    [] precision \in 19 .. 38 -> {16} [] precision \in 39 .. 76 -> {32}
    [] OTHER -> {}

(* Label and value pairs: the words between two quotes, then the number    *)
(* behind the next =.  Whatever does not fit is passed over.               *)
parse_enum_names(dt) ==
  LET quotes == Ascending(Positions(dt, "'"))
      label(k) == SubSeq(dt, quotes[2 * k - 1] + 1, quotes[2 * k] - 1)
      equal(k) == {i \in Positions(dt, "=") : i > quotes[2 * k]}
      value(k) == IF equal(k) = {} THEN {}
                  ELSE {dt[Min(equal(k)) + 1]} \cap DOMAIN Number
  IN IF Positions(dt, "(") = {} THEN {}
     ELSE {<<Number[n], label(k)>> : <<k, n>> \in
            {<<k, n>> \in (1 .. Len(quotes) \div 2) \X DOMAIN Number : n \in value(k)}}
=============================================================================
