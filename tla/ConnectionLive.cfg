\* Liveness and refinement: the smallest buffers, a caller who heeds errors.
SPECIFICATION FairSpec
CONSTANTS
  ServerVersion = 54484
  MaxCalls = 2
  MaxBlocks = 2
  MaxReplies = 2
  CapC2S = 1
  CapS2C = 1
  BlockKinds = {"rows", "inconsistent"}
  QueryStatements = {"select", "insert", "command"}
  InsertStatements = {"insert", "command"}
  SideTypes = {"Totals"}
  ServerFaults = {"undecodable", "close"}
  ReuseAfterError = FALSE
  None = None
INVARIANT BlockedOnlyInInsertBody
PROPERTIES CallsReturn KeepsPromise
CHECK_DEADLOCK FALSE
