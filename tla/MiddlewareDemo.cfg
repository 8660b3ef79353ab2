CONSTANTS
  Instances = {i1, i2}
  Senders = {s1, s2}
  Headers = {}
  None = None
  Limit = 1
  Window = 3
  Second = 2
  MaxTime = 6
  MaxLag = 3
  MaxRequests = 3
  MaxFailures = 1

SPECIFICATION Spec
SYMMETRY Symmetry
INVARIANT TypeOK
INVARIANT RedisAnswersAsMemory
INVARIANT SharedLimit
INVARIANT PatienceIsRewarded
CHECK_DEADLOCK FALSE
