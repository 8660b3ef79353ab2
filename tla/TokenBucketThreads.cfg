CONSTANTS
  Workers = {w1, w2}
  None = None
  Limit = 2
  Window = 2
  MaxTime = 6
  Token = 3
  Capacity = 6
  RefillRate = 2
SPECIFICATION Spec
SYMMETRY WorkerSymmetry
INVARIANT TypeOK
INVARIANT BurstPlusRateBound
INVARIANT DebtIsBacked
PROPERTY AdmitsAfterRefill
