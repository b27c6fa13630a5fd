CONSTANTS
  WordBits = 4
  PageCnt = 12
  TablePages = 2
  PageSize = 4
  LowEnd = 2
  StaticInit = 3
  HeapStart = 8
  MaxVirt = 13
  DevicePages = {6, 10, 20}
  MaxCnt = 2
  Sizes = {1, 2, 3}
  Hdr = 2
  Word = 1
  MmPage = 10
  MaxPages = 2
  Top = 64
  Callers = {c1}
SPECIFICATION MemorySpec
INVARIANTS
  FrameExclusive
  FramesKnown
  BlocksOwned
  SearchTree
PROPERTIES
  HeapStable
  HeapSpec
