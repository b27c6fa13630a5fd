CONSTANTS
  NoTask = NoTask
  Tasks = {kt, a, b}
  Kernel = kt
  Idle = {kt}
  Mutexes = {m1}
  MaxSlice = 1
  MaxFrames = 2
SPECIFICATION Spec
INVARIANTS
  MutualExclusion
  NoLostWakeup
  RunListRotates
  SchedulingLockDiscipline
