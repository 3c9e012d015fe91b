----------------------------- MODULE ColumnData -----------------------------
(***************************************************************************)
(* Columns in memory (enum ColumnData of src/proto/column.rs), and the     *)
(* rows that the formatter picks out of them (src/tsv.rs).  A value is a   *)
(* member of a small set; a column of many columns has its rows counted in *)
(* one of them, in offsets or in discriminators.                           *)
(***************************************************************************)
EXTENDS Naturals, Integers, Sequences, SequencesExt, FiniteSetsExt

CONSTANT ByteMax  \* the largest number in a byte: 255 in the code

ASSUME ByteMaxAssumption == ByteMax \in Nat \ {0}

Flat(data, values)        == [data |-> data, values |-> values]
FixedString(n, bytes)     == [data |-> "FixedString", n |-> n, bytes |-> bytes]
Nullable(inner, nulls)    == [data |-> "Nullable", inner |-> inner, nulls |-> nulls]
Lists(data, cols, offsets) == [data |-> data, cols |-> cols, offsets |-> offsets]
Tuple(cols)               == [data |-> "Tuple", cols |-> cols]
LowCardinality(dict, keys, width) ==
  [data |-> "LowCardinality", dict |-> dict, keys |-> keys, width |-> width]
Nothing(n)                == [data |-> "Nothing", n |-> n]
Union(data, names, discriminators, offsets, cols) ==
  [data |-> data, names |-> names, discriminators |-> discriminators,
   offsets |-> offsets, cols |-> cols]
JsonObject(n, cols)       == [data |-> "JsonObject", n |-> n, cols |-> cols]

ListKinds  == {"Array", "Map", "Nested"}
UnionKinds == {"Variant", "Dynamic"}

RECURSIVE row_count(_)
row_count(col) ==
  CASE col.data = "FixedString" -> IF col.n = 0 THEN 0 ELSE Len(col.bytes) \div col.n
    [] col.data = "Nullable" -> Len(col.nulls)
    [] col.data \in ListKinds -> Len(col.offsets)
    [] col.data = "Tuple" -> IF col.cols = <<>> THEN 0 ELSE row_count(col.cols[1])
    [] col.data = "LowCardinality" -> Len(col.keys)
    [] col.data \in UnionKinds -> Len(col.discriminators)
    [] col.data \in {"Nothing", "JsonObject"} -> col.n
    [] OTHER -> Len(col.values)

NullDiscriminator(col) ==
  IF col.data = "Variant" THEN ByteMax ELSE Len(col.cols)

Start(offsets, i) == IF i = 0 THEN 0 ELSE offsets[i]

-----------------------------------------------------------------------------
(* A row of a column, as write_value and the writers it calls pick it out: *)
(* a sequence of what it consists of, nothing for NULL.  Rows from 0.      *)

RECURSIVE InBounds(_, _), Cell(_, _)
InBounds(col, r) ==
  LET all(cols, at) == \A c \in ToSet(cols) : InBounds(c, at)
      has(seq) == r < Len(seq)
  IN CASE col.data = "FixedString" -> (r + 1) * col.n <= Len(col.bytes)
       [] col.data = "Nullable" -> has(col.nulls) /\ (col.nulls[r + 1] # 1 => InBounds(col.inner, r))
       [] col.data \in ListKinds ->
            has(col.offsets) /\ \A j \in Start(col.offsets, r) .. col.offsets[r + 1] - 1 : all(col.cols, j)
       [] col.data \in {"Tuple", "JsonObject"} -> all(col.cols, r)
       [] col.data = "LowCardinality" -> has(col.keys) /\ InBounds(col.dict, col.keys[r + 1])
       [] col.data \in UnionKinds ->
            /\ has(col.discriminators)
            /\ col.discriminators[r + 1] # NullDiscriminator(col) =>
                 InBounds(col.cols[col.discriminators[r + 1] + 1], col.offsets[r + 1])
       [] col.data = "Nothing" -> TRUE
       [] OTHER -> has(col.values)

Cell(col, r) ==
  CASE col.data = "FixedString" -> SubSeq(col.bytes, r * col.n + 1, (r + 1) * col.n)
    [] col.data = "Nullable" -> IF col.nulls[r + 1] = 1 THEN <<>> ELSE Cell(col.inner, r)
    [] col.data \in ListKinds ->
         [j \in 1 .. col.offsets[r + 1] - Start(col.offsets, r) |->
            [c \in DOMAIN col.cols |-> Cell(col.cols[c], Start(col.offsets, r) + j - 1)]]
    [] col.data \in {"Tuple", "JsonObject"} -> [c \in DOMAIN col.cols |-> Cell(col.cols[c], r)]
    [] col.data = "LowCardinality" -> Cell(col.dict, col.keys[r + 1])
    [] col.data \in UnionKinds ->
         IF col.discriminators[r + 1] = NullDiscriminator(col) THEN <<>>
         ELSE Cell(col.cols[col.discriminators[r + 1] + 1], col.offsets[r + 1])
    [] col.data = "Nothing" -> <<>>
    [] OTHER -> <<col.values[r + 1]>>

Cells(col) == [r \in 1 .. row_count(col) |-> Cell(col, r - 1)]
=============================================================================
