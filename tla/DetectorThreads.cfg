CONSTANTS
  Workers = {w1, w2}
  None = None
  Window = 3
  HorizonWindows = 2
  BinsPerWindow = 3
  MinSamples = 3
  SteadyRatio = 18
  BurstyRatio = 30
  RampRatio = 18
  MaxTime = 7
  MaxArrivals = 7
  MaxLag = 1

SPECIFICATION Spec
SYMMETRY WorkerSymmetry
INVARIANT TypeOK
INVARIANT HorizonKept
INVARIANT ClustersAreBursty
INVARIANT EvenIsNeitherBurstyNorRamping
CHECK_DEADLOCK FALSE
