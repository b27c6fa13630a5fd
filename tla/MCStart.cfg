CONSTANTS
  LastBus = 1
  LastDev = 1
  LastFunc = 2
  TextWidth = 3
  TextHeight = 2
  FontWidth = 3
  FontHeight = 2
  TAB_SIZE = 1
  Glyphs = {"a"}
  LineLengths = {0, 18}
  PAGE_SIZE = 8
  MaxRow = 4
  MaxControllers = 5
  Ids = {0, 1, 2, 3}
  First = 0
  Roms <- MCRoms
  Machines <- MCMachines
  Prefer <- MCPrefer
  ModeLists <- MCModeLists
  Present = {1, 2}
  MaxCpus = 4
  MaxCnt = 2
  MaxAllocs = 1
  Cpus = {c1, c2}
  Late = {c2}
  MaxKeys = 2
SPECIFICATION StartSpec
INVARIANTS
  DevicesFound
  TextKept
  Handshake
  ObjectsReady
PROPERTIES
  ScreenFollows
  AllStart
  BootEnds
