-------------------------------- MODULE ChTsv --------------------------------
(***************************************************************************)
(* ch-tsv with all it reads and prints: Runner with the command line, the  *)
(* scanners of Script and the formatters of Tsv.                           *)
(***************************************************************************)
EXTENDS Results, Script, Tsv

NoBlock == Block(<<>>, 0)

-----------------------------------------------------------------------------
(* The command line: the options take a word each, one word is the path.   *)

Options == {"--host", "--database", "--user", "--password"}

RECURSIVE ParseArguments(_, _)
ParseArguments(args, path) ==
  CASE args = <<>> -> IF path = {} THEN 4 ELSE NoExit
    [] args # <<>> /\ args[1] \in Options ->
         IF Len(args) < 2 THEN 4 ELSE ParseArguments(SubSeq(args, 3, Len(args)), path)
    [] args # <<>> /\ args[1] \in {"-h", "--help"} -> 0
    [] args # <<>> /\ args[1] = "--unknown" -> 4
    [] OTHER -> IF path # {} THEN 4 ELSE ParseArguments(Tail(args), {args[1]})

read_arguments(args) == ParseArguments(args, {})

-----------------------------------------------------------------------------
(* print_result: the rows of the blocks, then totals and extremes, each    *)
(* behind an empty line if there are any.                                  *)

BlockText(b) == AllWritten([r \in 1 .. b.rows_count |-> write_row(b.columns, r - 1)])

(* The blocks printed, in order, and which are behind an empty line. *)
Shown(result) ==
  result.rows \o SelectSeq(<<result.totals, result.extremes>>, LAMBDA b : b.rows_count > 0)

LineAbove(result, i) == IF i > Len(result.rows) THEN <<"nl">> ELSE <<>>

print_result(result) ==
  AllWritten([i \in DOMAIN Shown(result) |->
    Followed(Written(LineAbove(result, i)), BlockText(Shown(result)[i]))])

-----------------------------------------------------------------------------
(* Properties. *)

(* The scanners that split the script, take hints from the front of a piece *)
(* and from its middle agree on what is a string and what a comment: the    *)
(* statements are those between the semicolons that are code, and every     *)
(* hint is of the statement it follows.                                     *)
ReadsTheScript ==
  pc \in {"codes", "running"} /\ Closed(script) => statements = AsWritten(script)

Lines(text) == Front(Pieces(text, Positions(text, "nl")))

(* A clock's ticks as they are shown: beyond its cap it stands still. *)
Ticks(col, r) ==
  LET v == col.values[r + 1]
      second == IF col.data = "Time" THEN 1 ELSE Power10[col.scale]
  IN IF Magnitude(v) < (TimeCap + 1) * second THEN v
     ELSE (IF v < 0 THEN -1 ELSE 1) * TimeCap * second

(* Nothing in two rows that their texts are meant to tell apart: ticks      *)
(* beyond the cap, an enum's value without a label and the label that       *)
(* spells it, and values of different members of a Variant or a Dynamic,    *)
(* which have their own texts ('1' and 1), are not told apart.              *)
RECURSIVE Indistinct(_, _, _)
Indistinct(col, r, q) ==
  LET null(x) == col.discriminators[x + 1] = NullDiscriminator(col)
      from(x) == Start(col.offsets, x)
      length(x) == col.offsets[x + 1] - from(x)
      label(x) == LabelsOf(col.names, col.values[x + 1])
  IN CASE col.data = "Nullable" ->
            /\ col.nulls[r + 1] = col.nulls[q + 1]
            /\ col.nulls[r + 1] = 1 \/ Indistinct(col.inner, r, q)
       [] col.data \in ListKinds ->
            /\ length(r) = length(q)
            /\ \A j \in 0 .. length(r) - 1 : \A c \in DOMAIN col.cols :
                 Indistinct(col.cols[c], from(r) + j, from(q) + j)
       [] col.data \in {"Tuple", "JsonObject"} -> \A c \in DOMAIN col.cols : Indistinct(col.cols[c], r, q)
       [] col.data = "LowCardinality" -> Indistinct(col.dict, col.keys[r + 1], col.keys[q + 1])
       [] col.data \in UnionKinds ->
            LET d == col.discriminators[r + 1] IN
            /\ null(r) = null(q)
            /\ null(r) \/ d # col.discriminators[q + 1]
                 \/ Indistinct(col.cols[d + 1], col.offsets[r + 1], col.offsets[q + 1])
       [] col.data \in {"Time", "Time64"} -> Ticks(col, r) = Ticks(col, q)
       [] col.data \in Enums /\ (label(r) = {}) # (label(q) = {}) ->
            label(r) \cup label(q) = {Signed(col.values[IF label(r) = {} THEN r + 1 ELSE q + 1])}
       [] OTHER -> Cell(col, r) = Cell(col, q)

(* The output comes apart again: a line for every row, a field for every    *)
(* column, and rows of a block whose lines are the same have the same in    *)
(* them, whatever is in their strings, lists and labels: nothing, as        *)
(* Indistinct has it, that their texts are meant to tell apart.             *)
OutputComesApart ==
  exit \in {NoExit, 0} /\ happened # <<>> =>
    LET results == SelectSeq(happened, LAMBDA o : o.kind = "rows")
        blocks  == FlattenSeq([k \in DOMAIN results |->
                     LET n == Len(results[k].result.rows)
                     IN [i \in DOMAIN Shown(results[k].result) |->
                          [block |-> Shown(results[k].result)[i], blank |-> i > n]]])
        before(i) == FoldLeft(LAMBDA sum, b : sum + b.block.rows_count + (IF b.blank THEN 1 ELSE 0), 0,
                              SubSeq(blocks, 1, i - 1)) + (IF blocks[i].blank THEN 1 ELSE 0)
        lines == Lines(out)
    IN /\ Len(lines) = IF blocks = <<>> THEN 0 ELSE before(Len(blocks)) + Last(blocks).block.rows_count
       /\ \A i \in DOMAIN blocks :
            LET b == blocks[i].block IN
            \A r \in 1 .. b.rows_count :
              /\ Cardinality(Positions(lines[before(i) + r], "tab")) = Len(b.columns) - 1
              /\ \A q \in 1 .. r - 1 :
                   lines[before(i) + r] = lines[before(i) + q] =>
                     \A c \in DOMAIN b.columns : Indistinct(b.columns[c], r - 1, q - 1)
=============================================================================
