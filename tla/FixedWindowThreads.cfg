CONSTANTS
  Workers = {w1, w2}
  None = None
  Limit = 2
  Window = 2
  MaxTime = 5

SPECIFICATION Spec
SYMMETRY WorkerSymmetry
INVARIANT TypeOK
INVARIANT LateStepsBoundedOvershoot
INVARIANT BoundaryBurstBounded
PROPERTY RejectsOnlyWhenFull
