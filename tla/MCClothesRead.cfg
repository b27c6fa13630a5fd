CONSTANTS
  N = 6
  Last = 7
  NameLens = {1, 5}
  Chunks = {1, 2}
  MaxFaults = 1
  PerBlock = 2
  Counts = {1, 3}
  MaxOut = 5
SPECIFICATION SpecRead
INVARIANTS
  VolumeSound
  Durable
  FindRight
  ReadOwn
CHECK_DEADLOCK FALSE
