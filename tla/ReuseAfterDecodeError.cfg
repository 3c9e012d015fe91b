\* Two queries, the first answered with a block the client cannot decode.
SPECIFICATION Spec
CONSTANTS
  ServerVersion = 54484
  MaxCalls = 2
  MaxBlocks = 0
  MaxReplies = 2
  CapC2S = 2
  CapS2C = 2
  BlockKinds = {"rows"}
  QueryStatements = {"select"}
  InsertStatements = {}
  SideTypes = {}
  ServerFaults = {"undecodable"}
  ReuseAfterError = TRUE
  None = None
INVARIANT RowsAreItsOwn
CHECK_DEADLOCK FALSE
