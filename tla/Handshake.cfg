SPECIFICATION FairSpec
CONSTANTS
  ServerVersions = {54471, 54478, 54479, 54481, 54484, 54490}
  MaxPings = 2
INVARIANTS TypeOK NothingGarbled EndsAgree ModesAreTheServersOrChunked
PROPERTY ConnectSucceeds
\* The client stops after its last ping, or after a failed connect.
CHECK_DEADLOCK FALSE
