CONSTANTS
  NoTask = NoTask
  Tasks = {kt, a}
  Kernel = kt
  Idle = {}
  Mutexes = {m1}
  MaxSlice = 1
  MaxFrames = 1
SPECIFICATION Spec
INVARIANT MutualExclusion
