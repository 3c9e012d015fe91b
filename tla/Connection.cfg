SPECIFICATION Spec
CONSTANTS
  ServerVersion = 54480
  MaxCalls = 2
  MaxBlocks = 1
  MaxReplies = 2
  CapC2S = 1
  CapS2C = 1
  BlockKinds = {"rows", "inconsistent"}
  QueryStatements = {"select", "command"}
  InsertStatements = {"insert", "command"}
  SideTypes = {"Log", "Totals", "TimezoneUpdate"}
  ServerFaults = {"undecodable", "close"}
  ReuseAfterError = TRUE
  None = None
INVARIANTS
  TypeOK OwnReplies QuietWhenIdle NeverSurprised CompressionAgrees
  ResultIsComplete ProgressSinceSchema
CHECK_DEADLOCK FALSE
