CONSTANTS
  Workers = {w1, w2, w3}
  Instances = {i1, i2}
  Home <- TwoProcesses
  None = None
  Limit = 1
  Window = 2
  HorizonWindows = 1
  BinsPerWindow = 2
  MinSamples = 2
  SteadyRatio = 15
  BurstyRatio = 20
  RampRatio = 18
  Policy <- MixedPolicy
  MinDwell = 1
  MaxTime = 4
  MaxCalls = 3

SPECIFICATION Spec
SYMMETRY ThreadSymmetry
INVARIANT WindowBoundedByItsGovernors
INVARIANT SettledArrivalsAreKept
CHECK_DEADLOCK FALSE
