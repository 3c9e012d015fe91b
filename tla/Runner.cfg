SPECIFICATION Spec
CONSTANTS
  ByteMax = 3
  ByteBase = 4
  WideBytes = 3
  TimeCap = 3599999
  Hints <- MCHints
  CommandLines <- MCCommandLines
  Scripts <- MCScripts
  Answers <- MCAnswers
  Arguments <- read_arguments
  Statements <- parse_statements_with_markers
  Printed <- print_result
  CodeOf <- MCCodeOf
INVARIANTS
  ReadsTheScript ExitIsTheVerdict OutputComesApart NumbersSayTheirValue
CHECK_DEADLOCK FALSE
