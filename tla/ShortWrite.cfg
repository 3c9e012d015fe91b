SPECIFICATION Spec
CONSTANTS
  Dirs = {"send"}
  Framings = {FALSE}
  ShortWrites = TRUE
  SizeBits = 3
  MaxRequest = 7
  Bodies <- MCBodies
  MaxPackets = 2
  MaxCorrupt = 0
INVARIANT ReadsWhatWasWritten
CHECK_DEADLOCK FALSE
