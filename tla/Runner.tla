-------------------------------- MODULE Runner --------------------------------
(***************************************************************************)
(* ch-tsv (src/bin/ch-tsv.rs): it reads a script, runs one statement after *)
(* another over one connection, prints what they return and stops at the   *)
(* first that does not do what the script says of it.  The exit code is    *)
(* the verdict its caller goes by.                                         *)
(*                                                                         *)
(* How arguments and scripts are read and results are printed is left open *)
(* here; ChTsv has that.  The connection (Connection) is seen from         *)
(* outside: a query returns rows, an exception the server raised, or an    *)
(* error that leaves the stream wherever it was.                           *)
(***************************************************************************)
EXTENDS Integers, Sequences, SequencesExt

CONSTANTS
  CommandLines,   \* argument lists, sequences of words
  Arguments(_),   \* what a list comes to: an exit code, or NoExit
  Scripts,        \* contents the script's file may have
  Statements(_),  \* the statements of a script, with their hints
  Answers(_),     \* what the query with a text may return: outcomes
  Printed(_),     \* the text of a result, and whether it is whole
  CodeOf          \* the server's errors by name: a function to their codes

VARIABLES
  pc,          \* "start", "connecting", "codes", "running", "done"; "usage"
               \* when the arguments alone have decided
  script,      \* the file's contents
  statements,  \* what is left of them is behind `at`
  code_map,    \* error names the client knows
  at,          \* statements run
  happened,    \* their outcomes (history)
  out,         \* characters written to stdout
  exit         \* the exit code, or NoExit

vars == <<pc, script, statements, code_map, at, happened, out, exit>>

NoExit == -1

Rows(result)      == [kind |-> "rows", result |-> result]
Exception(code)   == [kind |-> "exception", codes |-> {code}]
Broken(shown)     == [kind |-> "broken", codes |-> shown]  \* its message may end with "code: N"

(* An exception has one code; a statement has a text, so that the loop      *)
(* never skips one.                                                         *)
ASSUME RunnerAssumption ==
  \A s \in Scripts :
    /\ Statements(s) \in Seq(ToSet(Statements(s)))
    /\ \A statement \in ToSet(Statements(s)) :
         /\ statement.text # <<>>
         /\ \A outcome \in Answers(statement.text) :
              /\ outcome.kind \in {"rows", "exception", "broken"}
              /\ outcome.kind = "exception" => \E code \in outcome.codes : outcome.codes = {code}

-----------------------------------------------------------------------------
(* Errors.  The code is what is between "code: " and another character; at *)
(* a message's end it is none.                                             *)

(* Bug: a code at the message's end is one, too. *)
extract_server_code_Bug(error) == error.codes

extract_server_code(error) == IF error.kind = "exception" THEN error.codes ELSE {}

(* A hint's errors are numbers or names; a name may be unknown. *)
Number(n)  == [number |-> {n}, name |-> {}]
Name(name) == [number |-> {}, name |-> {name}]

CodesOf(errors, names) ==
  UNION {e.number \cup {names[x] : x \in e.name \cap DOMAIN names} : e \in ToSet(errors)}

expected_codes(statement) ==
  CodesOf(statement.expected_errors, code_map)

expects_error(statement) == statement.expected_errors # <<>>

-----------------------------------------------------------------------------

Init ==
  /\ pc = "start" /\ script \in Scripts /\ statements = <<>> /\ code_map = <<>>
  /\ at = 0 /\ happened = <<>> /\ out = <<>> /\ exit = NoExit

Stopped(code) == pc' = "done" /\ exit' = code

(* The arguments, then the file. *)
ReadArguments ==
  /\ pc = "start"
  /\ \E args \in CommandLines :
       IF Arguments(args) # NoExit THEN pc' = "usage" /\ exit' = Arguments(args)
       ELSE \/ Stopped(1)
            \/ pc' = "connecting" /\ UNCHANGED exit
  /\ UNCHANGED <<script, statements, code_map, at, happened, out>>

(* Connect, and take the script apart; names need the server's list. *)
Connect ==
  /\ pc = "connecting"
  /\ \/ Stopped(1) /\ UNCHANGED statements
     \/ /\ statements' = Statements(script)
        /\ pc' = IF \E s \in ToSet(statements') : \E e \in ToSet(s.expected_errors) : e.name # {}
                 THEN "codes" ELSE "running"
        /\ UNCHANGED exit
  /\ UNCHANGED <<script, code_map, at, happened, out>>

(* fetch_error_code_map *)
FetchCodes ==
  /\ pc = "codes"
  /\ \/ Stopped(1) /\ UNCHANGED code_map
     \/ code_map' = CodeOf /\ pc' = "running" /\ UNCHANGED exit
  /\ UNCHANGED <<script, statements, at, happened, out>>

Current == statements[at + 1]

Running == pc = "running" /\ at < Len(statements)

Returns(outcome) ==
  /\ at' = at + 1 /\ happened' = Append(happened, outcome)
  /\ UNCHANGED <<script, statements, code_map>>

Continues == UNCHANGED <<pc, exit>>

(* Rows: printed, unless an error was expected.  Of a cell without a text  *)
(* the line's beginning is left.                                           *)
Succeed ==
  Running /\ \E outcome \in Answers(Current.text) :
    /\ outcome.kind = "rows"
    /\ Returns(outcome)
    /\ IF expects_error(Current) THEN Stopped(2) /\ UNCHANGED out
       ELSE \E text \in {Printed(outcome.result)} :
              out' = out \o text.units /\ IF text.whole THEN Continues ELSE Stopped(3)

(* stdout takes some of it, or nothing. *)
PrintFails ==
  Running /\ \E outcome \in Answers(Current.text) :
    /\ outcome.kind = "rows" /\ ~expects_error(Current)
    /\ Returns(outcome)
    /\ \E text \in {Printed(outcome.result).units} : \E n \in 0 .. Len(text) - 1 :
         out' = out \o SubSeq(text, 1, n)
    /\ Stopped(1)

(* An error: passed over if it is the one expected. *)
Fail ==
  Running /\ \E outcome \in Answers(Current.text) :
    /\ outcome.kind # "rows"
    /\ Returns(outcome)
    /\ IF expects_error(Current) /\ extract_server_code(outcome) \cap expected_codes(Current) # {}
       THEN Continues ELSE Stopped(2)
    /\ UNCHANGED out

(* out.flush() *)
Finish ==
  /\ pc = "running" /\ at = Len(statements)
  /\ Stopped(0) \/ Stopped(1)
  /\ UNCHANGED <<script, statements, code_map, at, happened, out>>

Next == ReadArguments \/ Connect \/ FetchCodes \/ Succeed \/ PrintFails \/ Fail \/ Finish

Spec == Init /\ [][Next]_vars

-----------------------------------------------------------------------------
(* Properties. *)

(* What a statement did is what the script says of it. *)
AsExpected(statement, outcome) ==
  IF statement.expected_errors = <<>> THEN outcome.kind = "rows"
  ELSE /\ outcome.kind = "exception"
       /\ outcome.codes \subseteq CodesOf(statement.expected_errors, CodeOf)

(* Once the arguments name a script, 0 says that every statement of it ran  *)
(* and did what the script says, 2 that the last one that ran did not; and  *)
(* no statement is sent behind one that did not, among them those whose     *)
(* query left the connection in the middle of a reply with an error whose   *)
(* message ends with the number that was expected.                          *)
ExitIsTheVerdict ==
  LET n == Len(happened)
      good(k) == AsExpected(statements[k], happened[k])
  IN /\ \A k \in 1 .. n - 1 : good(k)
     /\ pc # "usage" => (exit = 2) = (n > 0 /\ ~good(n))
     /\ pc = "done" /\ exit = 0 =>
          statements = Statements(script) /\ n = Len(statements) /\ (n > 0 => good(n))

(* "Exit codes (must stay stable for the harness): ... 1 io / connect /     *)
(* protocol error, 2 server-side exception" (src/bin/ch-tsv.rs:7): 2 says   *)
(* that the server raised an exception.                                     *)
ExitSaysWhy == exit = 2 => happened # <<>> /\ Last(happened).kind = "exception"
=============================================================================
