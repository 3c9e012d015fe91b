\* A server one version short of the last field of ServerHello.
SPECIFICATION FairSpec
CONSTANTS
  ServerVersions = {54478}
  MaxPings = 0
PROPERTY NegotiatesDown
CHECK_DEADLOCK FALSE
