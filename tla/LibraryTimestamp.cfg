CONSTANTS
  Values = {v1, v2}
  MaxObjects = 4
  LIST_MAX_FREED = 3
  Chars = {"d", "u", "r"}
  MaxLen = 6
  Bits = 5
  WordBits = 4
  MaxFormat = 6
  MaxOwed = 1
  MaxTicks = 4
  MaxCalls = 2
  Dev <- MCDev
  Ustar <- MCUstar
  Files <- MCFiles
  Starts <- MCStarts
SPECIFICATION Spec
INVARIANT TimestampRight
SYMMETRY Symmetry
