SPECIFICATION MCSpec
CONSTANTS
  Cpu = {c1, c2}
  WINDOW = 1
  REPEAT = 1
  CALM = 1
  U32 = 16
  PWarnValues = {1}
  PCritValues = {2}
  MaxPerTick = 2
  MaxBusy = 0
  PostureMoves = TRUE
  HotCpu = {c2}
  Task = {p1, p2, p3}
  Nobody = nobody
  MaxVotes = 6
CHECK_DEADLOCK FALSE
INVARIANTS CoreStaysEscalated SamplerComesBack MajorityNamed
PROPERTIES Reescalated
