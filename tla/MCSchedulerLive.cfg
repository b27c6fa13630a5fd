CONSTANTS
  NoTask = NoTask
  Tasks = {kt, a, b}
  Kernel = kt
  Idle = {kt}
  Mutexes = {m1}
  MaxSlice = 1
  MaxFrames = 1
SPECIFICATION FairSpec
PROPERTIES
  RunnableRuns
  WaiterWakes
