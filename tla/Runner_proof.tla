---------------------------- MODULE Runner_proof ----------------------------
(***************************************************************************)
(* The exit code of ch-tsv is the verdict on its script, whatever the      *)
(* script, the hints in it, the server's answers and the list of its       *)
(* errors, and wherever reading or printing fails; and the numbers, dates  *)
(* and times among the answers are printed as what they are.               *)
(***************************************************************************)
EXTENDS Results, Numbers_proof, SequenceTheorems, TLAPS

AllAnswers ==
  UNION {Answers(s.text) : s \in UNION {ToSet(Statements(x)) : x \in Scripts}}

Good(k) == AsExpected(statements[k], happened[k])

(* Where names occur, the server's list is there before the first query. *)
NamesKnown ==
  \/ code_map = CodeOf
  \/ /\ code_map = <<>>
     /\ \A s \in ToSet(statements) : \A e \in ToSet(s.expected_errors) : e.name = {}

(* The last statement that ran is the only one that may have gone wrong, and *)
(* only behind the program's end.                                            *)
VInv ==
  /\ pc \in {"start", "usage", "connecting", "codes", "running", "done"}
  /\ script \in Scripts /\ statements \in {<<>>, Statements(script)}
  /\ happened \in Seq(AllAnswers) /\ at = Len(happened) /\ at <= Len(statements)
  /\ pc \notin {"usage", "done"} => exit = NoExit
  /\ pc \in {"start", "usage", "connecting", "codes"} => at = 0
  /\ pc \in {"start", "connecting", "codes"} => code_map = <<>>
  /\ pc \in {"codes", "running"} => statements = Statements(script)
  /\ pc = "running" => NamesKnown
  /\ \A k \in 1 .. at : k < at \/ pc # "done" => Good(k)
  /\ pc = "done" => (exit = 2) = (at > 0 /\ ~Good(at))
  /\ pc = "done" /\ exit = 0 => statements = Statements(script) /\ at = Len(statements)

-----------------------------------------------------------------------------
LEMMA StatementsType ==
  ASSUME VInv
  PROVE  statements \in Seq(ToSet(statements)) /\ Len(statements) \in Nat
<1>1. CASE statements = <<>>
  BY <1>1
<1>2. CASE statements = Statements(script)
  <2>1. statements \in Seq(ToSet(statements))
    BY <1>2, RunnerAssumption DEF VInv, RunnerAssumption
  <2> QED BY <2>1, LenProperties
<1> QED BY <1>1, <1>2 DEF VInv

(* The statement that is run, and what its query may return. *)
LEMMA CurrentType ==
  ASSUME VInv, Running
  PROVE  /\ Current \in ToSet(statements) /\ Current \in ToSet(Statements(script))
         /\ at \in Nat /\ at + 1 \in 1 .. Len(statements)
         /\ Answers(Current.text) \subseteq AllAnswers
         /\ \A o \in Answers(Current.text) :
              /\ o.kind \in {"rows", "exception", "broken"}
              /\ o.kind = "exception" => \E code \in o.codes : o.codes = {code}
<1>1. statements \in Seq(ToSet(statements)) /\ Len(statements) \in Nat
  BY StatementsType
<1>2. at \in Nat /\ at < Len(statements)
  BY LenProperties DEF VInv, Running
<1>3. at + 1 \in 1 .. Len(statements)
  BY <1>1, <1>2
<1>4. Current \in ToSet(statements)
  BY <1>1, <1>3, ElementOfSeq DEF Current
<1>5. statements = Statements(script) /\ script \in Scripts
  BY DEF VInv, Running
<1>6. Current \in ToSet(Statements(script))
  BY <1>4, <1>5
<1>7. \A o \in Answers(Current.text) :
         /\ o.kind \in {"rows", "exception", "broken"}
         /\ o.kind = "exception" => \E code \in o.codes : o.codes = {code}
  BY <1>5, <1>6, RunnerAssumption DEF RunnerAssumption
<1>8. Answers(Current.text) \subseteq AllAnswers
  BY <1>5, <1>6 DEF AllAnswers
<1> QED BY <1>2, <1>3, <1>4, <1>6, <1>7, <1>8

(* What a hint names is looked up in the server's list or needs no list. *)
LEMMA CodesKnown ==
  ASSUME NamesKnown, NEW s \in ToSet(statements)
  PROVE  expected_codes(s) = CodesOf(s.expected_errors, CodeOf)
<1>1. CASE code_map = CodeOf
  BY <1>1 DEF expected_codes
<1>2. CASE \A e \in ToSet(s.expected_errors) : e.name = {}
  <2>1. \A names : CodesOf(s.expected_errors, names)
                     = UNION {e.number : e \in ToSet(s.expected_errors)}
    BY <1>2 DEF CodesOf
  <2> QED BY <2>1 DEF expected_codes
<1> QED BY <1>1, <1>2 DEF NamesKnown

(* A statement has run: either it is as expected and the next one follows,  *)
(* or the program has stopped and says so.                                  *)
LEMMA Judged ==
  ASSUME VInv, Running, NEW o \in Answers(Current.text), Returns(o),
         \/ pc' = pc /\ exit' = exit /\ AsExpected(Current, o)
         \/ /\ pc' = "done" /\ exit' \in {1, 2, 3}
            /\ (exit' = 2) = ~AsExpected(Current, o)
  PROVE  VInv'
<1>1. /\ at' = at + 1 /\ happened' = Append(happened, o)
      /\ UNCHANGED <<script, statements, code_map>>
  BY DEF Returns
<1>2. /\ at \in Nat /\ at + 1 \in 1 .. Len(statements) /\ o \in AllAnswers
  BY CurrentType
<1>3. /\ happened \in Seq(AllAnswers) /\ at = Len(happened)
      /\ pc = "running" /\ exit = NoExit
  BY DEF VInv, Running
<1>4. /\ happened' \in Seq(AllAnswers) /\ Len(happened') = at + 1
      /\ \A k \in 1 .. at : happened'[k] = happened[k]
      /\ happened'[at + 1] = o
  BY <1>1, <1>2, <1>3, AppendProperties
<1>5. \A k \in 1 .. at : AsExpected(statements'[k], happened'[k])
  <2>1. \A k \in 1 .. at : AsExpected(statements[k], happened[k])
    BY <1>3 DEF VInv, Good
  <2> QED BY <1>1, <1>4, <2>1
<1>6. AsExpected(statements'[at'], happened'[at']) = AsExpected(Current, o)
  BY <1>1, <1>4 DEF Current
<1>7. \A k \in 1 .. at' : k \in 1 .. at \/ k = at'
  BY <1>1, <1>2
<1>8. /\ script' \in Scripts /\ statements' = Statements(script')
      /\ happened' \in Seq(AllAnswers) /\ at' = Len(happened')
      /\ at' <= Len(statements')
  BY <1>1, <1>2, <1>3, <1>4 DEF VInv
<1>9. pc' \in {"running", "done"} /\ exit' # 0 /\ (pc' # "done" => exit' = NoExit)
  BY <1>3 DEF NoExit
<1>10. NamesKnown'
  BY <1>1, <1>3 DEF VInv, NamesKnown
<1>11. \A k \in 1 .. at' : k < at' \/ pc' # "done" => Good(k)'
  <2> SUFFICES ASSUME NEW k \in 1 .. at', k < at' \/ pc' # "done"
               PROVE  AsExpected(statements'[k], happened'[k])
    BY DEF Good
  <2>1. CASE k \in 1 .. at
    BY <1>5, <2>1
  <2>2. CASE k = at' /\ pc' # "done"
    BY <1>6, <2>2
  <2> QED BY <1>7, <2>1, <2>2
<1>12. pc' = "done" => (exit' = 2) = (at' > 0 /\ ~(Good(at))')
  BY <1>1, <1>2, <1>3, <1>6 DEF Good
<1> QED BY <1>8, <1>9, <1>10, <1>11, <1>12 DEF VInv

-----------------------------------------------------------------------------
LEMMA VInvInit == ASSUME Init PROVE VInv
<1>1. /\ pc = "start" /\ script \in Scripts /\ statements = <<>>
      /\ code_map = <<>> /\ at = 0 /\ happened = <<>> /\ exit = NoExit
  BY DEF Init
<1>2. Len(<<>>) = 0 /\ <<>> \in Seq(AllAnswers) /\ NoExit # 0
  BY DEF NoExit
<1> QED BY <1>1, <1>2 DEF VInv

(* A step before the first statement. *)
LEMMA NothingRun ==
  ASSUME VInv, at = 0, UNCHANGED <<script, at, happened>>,
         statements' \in {<<>>, Statements(script)},
         pc' \in {"usage", "connecting", "codes", "running", "done"},
         pc' \notin {"usage", "done"} => exit' = NoExit,
         pc' = "done" => exit' = 1,
         pc' \in {"connecting", "codes"} => code_map' = <<>>,
         pc' \in {"codes", "running"} => statements' = Statements(script),
         pc' = "running" => NamesKnown'
  PROVE  VInv'
<1>1. 0 <= Len(Statements(script)) /\ 0 <= Len(<<>>)
  <2>1. Statements(script) \in Seq(ToSet(Statements(script)))
    BY RunnerAssumption DEF VInv, RunnerAssumption
  <2> QED BY <2>1, LenProperties
<1>2. at' = 0 /\ 0 <= Len(statements')
  BY <1>1
<1>3. /\ script' \in Scripts /\ statements' \in {<<>>, Statements(script')}
      /\ happened' \in Seq(AllAnswers) /\ at' = Len(happened')
  BY DEF VInv
<1>4. 1 .. at' = {} /\ ~(at' > 0)
  BY <1>2
<1>5. \A k \in 1 .. at' : k < at' \/ pc' # "done" => Good(k)'
  BY <1>4
<1> QED BY <1>2, <1>3, <1>4, <1>5 DEF VInv

LEMMA VInvStep == ASSUME VInv, [Next]_vars PROVE VInv'
<1>1. CASE ReadArguments
  <2>1. at = 0 /\ exit = NoExit /\ code_map = <<>> /\ statements \in {<<>>, Statements(script)}
    BY <1>1 DEF VInv, ReadArguments
  <2>2. /\ UNCHANGED <<script, statements, code_map, at, happened>>
        /\ \/ pc' = "usage" \/ (pc' = "done" /\ exit' = 1)
           \/ (pc' = "connecting" /\ exit' = exit)
    BY <1>1 DEF ReadArguments, Stopped
  <2> QED BY <2>1, <2>2, NothingRun
<1>2. CASE Connect
  <2>1. at = 0 /\ exit = NoExit /\ code_map = <<>> /\ statements \in {<<>>, Statements(script)}
    BY <1>2 DEF VInv, Connect
  <2>2. UNCHANGED <<script, code_map, at, happened>>
    BY <1>2 DEF Connect
  <2>3. CASE Stopped(1) /\ UNCHANGED statements
    BY <2>1, <2>2, <2>3, NothingRun DEF Stopped
  <2>4. CASE /\ statements' = Statements(script)
             /\ pc' = IF \E s \in ToSet(statements') : \E e \in ToSet(s.expected_errors) : e.name # {}
                      THEN "codes" ELSE "running"
             /\ UNCHANGED exit
    <3>1. pc' \in {"codes", "running"}
      BY <2>4
    <3>2. pc' = "running" => NamesKnown'
      BY <2>1, <2>2, <2>4 DEF NamesKnown
    <3> QED BY <2>1, <2>2, <2>4, <3>1, <3>2, NothingRun
  <2> QED BY <1>2, <2>3, <2>4 DEF Connect
<1>3. CASE FetchCodes
  <2>1. at = 0 /\ exit = NoExit /\ statements = Statements(script)
    BY <1>3 DEF VInv, FetchCodes
  <2>2. /\ UNCHANGED <<script, statements, at, happened>>
        /\ \/ pc' = "done" /\ exit' = 1
           \/ (code_map' = CodeOf /\ pc' = "running" /\ exit' = exit)
    BY <1>3 DEF FetchCodes, Stopped
  <2>3. pc' = "running" => NamesKnown'
    BY <2>2 DEF NamesKnown
  <2> QED BY <2>1, <2>2, <2>3, NothingRun
<1>4. CASE Succeed
  <2>1. PICK o \in Answers(Current.text) :
          /\ Running /\ o.kind = "rows" /\ Returns(o)
          /\ IF expects_error(Current) THEN Stopped(2)
             ELSE (pc' = pc /\ exit' = exit) \/ Stopped(3)
    BY <1>4 DEF Succeed, Continues
  <2>2. CASE expects_error(Current)
    <3>1. ~AsExpected(Current, o) /\ pc' = "done" /\ exit' = 2
      BY <2>1, <2>2 DEF AsExpected, expects_error, Stopped
    <3> QED BY <2>1, <3>1, Judged
  <2>3. CASE ~expects_error(Current)
    <3>1. AsExpected(Current, o)
      BY <2>1, <2>3 DEF AsExpected, expects_error
    <3>2. (pc' = pc /\ exit' = exit) \/ (pc' = "done" /\ exit' = 3)
      BY <2>1, <2>3 DEF Stopped
    <3> QED BY <2>1, <3>1, <3>2, Judged
  <2> QED BY <2>2, <2>3
<1>5. CASE PrintFails
  <2>1. PICK o \in Answers(Current.text) :
          /\ Running /\ o.kind = "rows" /\ Returns(o)
          /\ ~expects_error(Current) /\ Stopped(1)
    BY <1>5 DEF PrintFails
  <2>2. AsExpected(Current, o)
    BY <2>1 DEF AsExpected, expects_error
  <2> QED BY <2>1, <2>2, Judged DEF Stopped
<1>6. CASE Fail
  <2> DEFINE passed(o) == /\ expects_error(Current)
                          /\ extract_server_code(o) \cap expected_codes(Current) # {}
  <2>1. PICK o \in Answers(Current.text) :
          /\ Running /\ o.kind # "rows" /\ Returns(o)
          /\ IF passed(o) THEN pc' = pc /\ exit' = exit ELSE Stopped(2)
    BY <1>6 DEF Fail, Continues
  <2>2. Current \in ToSet(statements) /\ NamesKnown
    BY <2>1, CurrentType DEF VInv, Running
  <2>3. expected_codes(Current) = CodesOf(Current.expected_errors, CodeOf)
    BY <2>2, CodesKnown
  <2>4. /\ o.kind \in {"exception", "broken"}
        /\ o.kind = "exception" => \E code \in o.codes : o.codes = {code}
    BY <2>1, CurrentType
  <2>5. AsExpected(Current, o) = passed(o)
    <3>1. CASE o.kind = "broken"
      BY <3>1 DEF AsExpected, expects_error, extract_server_code
    <3>2. CASE o.kind = "exception"
      <4>1. PICK code : o.codes = {code}
        BY <2>4, <3>2
      <4>2. extract_server_code(o) = {code}
        BY <3>2, <4>1 DEF extract_server_code
      <4> QED BY <2>3, <3>2, <4>1, <4>2 DEF AsExpected, expects_error
    <3> QED BY <2>4, <3>1, <3>2
  <2> QED BY <2>1, <2>5, Judged DEF Stopped
<1>7. CASE Finish
  <2>1. /\ pc = "running" /\ at = Len(statements) /\ pc' = "done" /\ exit' \in {0, 1}
        /\ UNCHANGED <<script, statements, code_map, at, happened>>
    BY <1>7 DEF Finish, Stopped
  <2>2. \A k \in 1 .. at' : Good(k)'
    BY <2>1 DEF VInv, Good
  <2>3. (exit' = 2) = (at' > 0 /\ ~(Good(at))')
    <3>1. at' > 0 => at' \in 1 .. at'
      BY <2>1, LenProperties DEF VInv
    <3>2. at' > 0 => AsExpected(statements'[at'], happened'[at'])
      BY <2>2, <3>1 DEF Good
    <3>3. exit' # 2
      BY <2>1
    <3> QED BY <3>2, <3>3 DEF Good
  <2> QED BY <2>1, <2>2, <2>3 DEF VInv
<1>8. CASE UNCHANGED vars
  BY <1>8 DEF vars, VInv, Good, NamesKnown
<1> QED BY <1>1, <1>2, <1>3, <1>4, <1>5, <1>6, <1>7, <1>8 DEF Next

LEMMA VInvVerdict == ASSUME VInv PROVE ExitIsTheVerdict
<1>1. at \in Nat /\ Len(happened) = at
  BY LenProperties DEF VInv
<1>2. \A k \in 1 .. Len(happened) - 1 : Good(k)
  <2>1. \A k \in 1 .. Len(happened) - 1 : k \in 1 .. at /\ k < at
    BY <1>1
  <2> QED BY <2>1 DEF VInv
<1>3. pc # "done" /\ at > 0 => Good(at)
  <2>1. at > 0 => at \in 1 .. at
    BY <1>1
  <2> QED BY <2>1 DEF VInv
<1>4. pc # "usage" => (exit = 2) = (Len(happened) > 0 /\ ~Good(Len(happened)))
  <2>1. CASE pc = "done"
    BY <1>1, <2>1 DEF VInv
  <2>2. CASE pc \notin {"done", "usage"}
    <3>1. exit # 2
      BY <2>2 DEF VInv, NoExit
    <3> QED BY <1>1, <1>3, <2>2, <3>1
  <2> QED BY <2>1, <2>2
<1>5. pc = "done" /\ exit = 0 =>
        /\ statements = Statements(script) /\ Len(happened) = Len(statements)
        /\ Len(happened) > 0 => Good(Len(happened))
  <2>1. exit = 0 => exit # 2
    OBVIOUS
  <2> QED BY <1>1, <2>1 DEF VInv
<1> QED BY <1>2, <1>4, <1>5 DEF ExitIsTheVerdict, Good

(* The exit code of ch-tsv is the verdict on the script, once the arguments *)
(* name one: 0 only if every statement of the file ran and did what its     *)
(* hints say, a file of no statements included, 2 exactly if the last one   *)
(* that ran did not, and nothing runs behind a statement that did not,      *)
(* whatever the script, its hints, the names the server knows and its       *)
(* answers, and wherever connecting, printing or flushing fails.  What made *)
(* it go wrong is not in the code (see ExitSaysWhy).                        *)
THEOREM VerdictIsRight == Spec => []ExitIsTheVerdict
<1>1. Init => VInv
  BY VInvInit
<1>2. VInv /\ [Next]_vars => VInv'
  BY VInvStep
<1>3. VInv => ExitIsTheVerdict
  BY VInvVerdict
<1> QED BY <1>1, <1>2, <1>3, PTL DEF Spec

-----------------------------------------------------------------------------
LEMMA AnswersSay ==
  ASSUME NEW o \in AllAnswers, o.kind = "rows",
         NEW i \in DOMAIN o.result.rows, NEW j \in DOMAIN o.result.rows[i].columns,
         o.result.rows[i].columns[j].data \in NumberKinds,
         NEW r \in 1 .. o.result.rows[i].rows_count
  PROVE  SaysItsValue(o.result.rows[i].columns[j], o.result.rows[i].columns[j].values[r])
<1> DEFINE col == o.result.rows[i].columns[j]
<1>1. PICK s \in Scripts : \E statement \in ToSet(Statements(s)) : o \in Answers(statement.text)
  BY Zenon DEF AllAnswers
<1>2. Holds(col, col.values[r])
  BY <1>1, ResultsAssumption, Zenon DEF ResultsAssumption
<1> HIDE DEF col
<1>3. SaysItsValue(col, col.values[r])
  BY <1>2, SaysWhatItHolds, Zenon DEF col
<1> QED BY <1>3, Zenon DEF col

LEMMA VInvNumbers == ASSUME VInv PROVE NumbersSayTheirValue
<1>1. \A k \in DOMAIN happened : happened[k] \in AllAnswers
  <2>1. happened \in Seq(AllAnswers)
    BY DEF VInv
  <2> QED BY <2>1
<1> QED BY <1>1, AnswersSay, Zenon DEF NumbersSayTheirValue

(* Every number, date and time that a query returns is printed as the value  *)
(* it has, whatever the value and however wide: floats in either notation,   *)
(* decimals of every scale, integers of two's complement of every width,     *)
(* days before and after 1970, instants and clocks of every precision.       *)
THEOREM NumbersAreRight == Spec => []NumbersSayTheirValue
<1>1. Init => VInv
  BY VInvInit
<1>2. VInv /\ [Next]_vars => VInv'
  BY VInvStep
<1>3. VInv => NumbersSayTheirValue
  BY VInvNumbers
<1> QED BY <1>1, <1>2, <1>3, PTL DEF Spec
==============================================================================
