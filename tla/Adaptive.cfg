CONSTANTS
  Workers = {w1}
  Instances = {i1}
  Home <- OneProcess
  None = None
  Limit = 2
  Window = 2
  HorizonWindows = 2
  BinsPerWindow = 2
  MinSamples = 3
  SteadyRatio = 15
  BurstyRatio = 20
  RampRatio = 18
  Policy <- MixedPolicy
  MinDwell = 2
  MaxTime = 9
  MaxCalls = 8

SPECIFICATION Spec
INVARIANT TypeOK
INVARIANT OneAlgorithmPerWindow
INVARIANT PrimedHandOffAddsNoBurst
INVARIANT SwitchNeedsDwell
CHECK_DEADLOCK FALSE
