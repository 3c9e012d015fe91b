------------------------------- MODULE Results -------------------------------
(***************************************************************************)
(* The numbers in what queries return: Runner with the formatters of       *)
(* Numbers.                                                                *)
(***************************************************************************)
EXTENDS Runner, Numbers

Block(columns, n) == [columns |-> columns, rows_count |-> n]
QueryResult(blocks, totals, extremes) == [rows |-> blocks, totals |-> totals, extremes |-> extremes]

(* The columns of a decoded block have its rows and values of their type.  *)
ASSUME ResultsAssumption ==
  \A s \in Scripts : \A statement \in ToSet(Statements(s)) : \A outcome \in Answers(statement.text) :
    outcome.kind = "rows" =>
      \A i \in DOMAIN outcome.result.rows :
        LET b == outcome.result.rows[i] IN
        \A j \in DOMAIN b.columns : \A r \in 1 .. b.rows_count :
          b.columns[j].data \in NumberKinds =>
            r \in DOMAIN b.columns[j].values /\ Holds(b.columns[j], b.columns[j].values[r])

(* Every number, date and time printed says its value, to the last digit    *)
(* and on either side of 1970, and dates are dates there are; clocks do so  *)
(* up to their cap.                                                         *)
NumbersSayTheirValue ==
  \A k \in DOMAIN happened : happened[k].kind = "rows" =>
    LET rows == happened[k].result.rows IN
    \A i \in DOMAIN rows : \A j \in DOMAIN rows[i].columns :
      rows[i].columns[j].data \in NumberKinds =>
        \A r \in 1 .. rows[i].rows_count : SaysItsValue(rows[i].columns[j], rows[i].columns[j].values[r])
=============================================================================
