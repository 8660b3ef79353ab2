CONSTANTS
  Workers = {w1, w2}
  None = None
  Limit = 2
  Window = 3
  MaxTime = 6

SPECIFICATION Spec
SYMMETRY WorkerSymmetry
INVARIANT TypeOK
INVARIANT LateStepsBoundedOvershoot
INVARIANT OvershootBoundedByWeight
INVARIANT CountsAreTrueInOrder
PROPERTY RejectsOnlyWhenFull
