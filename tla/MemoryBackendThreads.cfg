CONSTANTS
  Workers = {w1, w2, w3}
  Keys = {k1, k2}
  Times = {0, 1}
  None = None
  Limit = 1
  Window = 1
  Entries <- FixedWindowEntries
  Op <- FixedWindowStep

SPECIFICATION MemorySpec
INVARIANT MemoryTypeOK
PROPERTY ImplementsAtomicStore
PROPERTY SomeCallCompletes
