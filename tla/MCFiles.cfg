CONSTANTS
  random = random
  file = file
  missing = missing
  Tasks = {t1, t2}
  Paths <- MCPaths
  Devices = {random}
  Size <- MCSize
  Nil = Nil
  LIST_MAX_FREED = 2
  MaxHandles = 3
  ByteValues = 3
  HeadValues = 2
  Wrap = 32
  Capacity = 30
  Cylinders = 3
  Heads = 2
  Sectors = 2
  BlockSize = 2
  Archive <- MCArchive
  Inner = "inner"
  Scratch = {10, 28}
  Values = {"v"}
  Unknown = Unknown
  Counts = {1, 3}
  Slow = {"identify", "packet", "store", "flush"}
  MaxLate = 1
  MaxErrors = 1
SPECIFICATION StoreSpec
INVARIANTS
  HandlesSound
  OnlyStatLeaks
  ReadFaithful
  WriteKept
  ArchiveFaithful
PROPERTY TableSpec
SYMMETRY Symmetry
