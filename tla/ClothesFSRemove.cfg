CONSTANTS
  N = 6
  Last = 7
  NameLens = {1}
  Chunks = {1}
  MaxFaults = 0
SPECIFICATION SpecRemove
PROPERTY FreedIsFirst
CHECK_DEADLOCK FALSE
