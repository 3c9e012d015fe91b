SPECIFICATION Spec
CONSTANTS
  Declared <- MCDeclared
  Others <- MCOthers
  Columns <- MCColumns
  MaxRows = 2
  Incoming = {0, 1, 2, 3, 4, 5}
  MaxStream = 5
  Alike <- MCAlike
  MaxWireCount = 4
  ByteMax = 4
  EndOfGranule = 4
INVARIANTS
  EveryKindReadBack
CHECK_DEADLOCK FALSE
