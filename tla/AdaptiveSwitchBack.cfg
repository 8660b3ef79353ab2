CONSTANTS
  Workers = {w1}
  Instances = {i1}
  Home <- OneProcess
  None = None
  Limit = 2
  Window = 2
  HorizonWindows = 2
  BinsPerWindow = 2
  MinSamples = 5
  SteadyRatio = 15
  BurstyRatio = 20
  RampRatio = 18
  Policy <- DefaultPolicy
  MinDwell = 1
  MaxTime = 7
  MaxCalls = 9

SPECIFICATION Spec
INVARIANT NoDoubleAllowanceAtSwitch
CHECK_DEADLOCK FALSE
