SPECIFICATION Spec
CONSTANTS
  Versions <- MCVersions
  Characters <- MCCharacters
  Queries <- MCQueries
  Others <- MCOthers
  GroupBits = 2
  WordBits = 5
INVARIANTS ServerReadsQuery ReadBack InfoInAnyOrder
CHECK_DEADLOCK FALSE
