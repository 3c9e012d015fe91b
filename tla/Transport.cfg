SPECIFICATION Spec
CONSTANTS
  Dirs = {"send", "receive"}
  Framings = {TRUE, FALSE}
  ShortWrites = FALSE
  SizeBits = 3
  MaxRequest = 7
  Bodies <- MCBodies
  MaxPackets = 2
  MaxCorrupt = 1
INVARIANTS TypeOK InStep NeverGarbled NothingStranded
PROPERTIES StopsOnlyOnDamage ImplementsPipe FlushedArrives
CHECK_DEADLOCK FALSE
