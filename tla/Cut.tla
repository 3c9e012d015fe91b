--------------------------------- MODULE Cut ---------------------------------
(* Sequences cut at some of their positions. *)
EXTENDS Naturals, Integers, Sequences, SequencesExt, FiniteSetsExt

Positions(s, mark) == {i \in DOMAIN s : s[i] = mark}

(* The first position from there on, or the one behind the end. *)
Find(s, from, Here(_)) == Min({i \in from .. Len(s) : Here(i)} \cup {Len(s) + 1})

(* Numbers from the least. *)
Ascending(set) ==
  [k \in 1 .. Cardinality(set) |-> CHOOSE x \in set : Cardinality({y \in set : y < x}) = k - 1]

(* The pieces of s between the separators. *)
RECURSIVE PiecesFrom(_, _, _)
PiecesFrom(s, separators, from) ==
  LET behind == {i \in separators : i >= from}
  IN IF behind = {} THEN <<SubSeq(s, from, Len(s))>>
     ELSE <<SubSeq(s, from, Min(behind) - 1)>> \o PiecesFrom(s, behind, Min(behind) + 1)

Pieces(s, separators) == PiecesFrom(s, separators, 1)

(* ... put together again, with a separator between them. *)
Joined(pieces, separator) ==
  FlattenSeq([k \in DOMAIN pieces |-> (IF k = 1 THEN <<>> ELSE separator) \o pieces[k]])
=============================================================================
