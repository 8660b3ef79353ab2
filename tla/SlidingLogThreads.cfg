CONSTANTS
  Workers = {w1, w2}
  None = None
  Limit = 2
  Window = 3
  MaxTime = 6

SPECIFICATION LogSpec
SYMMETRY WorkerSymmetry
INVARIANT LogTypeOK
INVARIANT NewestWindowExact
INVARIANT LateStepsAddOneEach
INVARIANT LogBounded
PROPERTY RejectsOnlyWhenTrailingFull
