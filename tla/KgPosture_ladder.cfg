SPECIFICATION Spec
CONSTANTS
  c1 = c1
  c2 = c2
  Cpu = {c1, c2}
  Siblings <- MCSiblings
  MdsVuln = TRUE
  L1tfVuln = TRUE
  VerwClear = TRUE
  Integ = integ
  Pmu = pmu
  Thread = {integ, pmu, user}
  MaxPostureValues = {3}
  DecayValues = {1}
  OperatorTargets = {0, 1, 3}
  MaxQuiet = 1
  MaxCorruptions = 0
INVARIANTS FloorHeld FailSafeFlagComes
PROPERTIES LoweringIsDeliberate ImplementsLadder
