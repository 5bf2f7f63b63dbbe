SPECIFICATION Spec
CONSTANTS
  Cpu = {c1}
  WINDOW = 2
  REPEAT = 3
  CALM = 3
  U32 = 16
  PWarnValues = {1}
  PCritValues = {2}
  MaxPerTick = 5
  MaxBusy = 3
  PostureMoves = FALSE
  HotCpu = {}
CHECK_DEADLOCK FALSE
INVARIANTS LoadIsNoticed
