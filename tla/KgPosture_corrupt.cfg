SPECIFICATION FairSpec
CONSTANTS
  c1 = c1
  c2 = c2
  Cpu = {c1}
  Siblings <- MCSiblings
  MdsVuln = TRUE
  L1tfVuln = TRUE
  VerwClear = TRUE
  Integ = integ
  Pmu = pmu
  Thread = {integ, user}
  MaxPostureValues = {2, 3}
  DecayValues = {1, 2}
  OperatorTargets = {0, 1, 2, 3}
  MaxQuiet = 2
  MaxCorruptions = 1
PROPERTIES UntrustedNeverStepsDown 
