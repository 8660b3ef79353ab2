CONSTANTS
  Workers = {w1, w2}
  Keys = {k1}
  Times = {0, 1}
  None = None
  Limit = 1
  Window = 1
  Retries = 1
  Entries <- FixedWindowEntries
  Op <- FixedWindowStep

SPECIFICATION Spec
INVARIANT TypeOK
INVARIANT ExactlyOnceUnlessBroken
INVARIANT EffectsBounded
PROPERTY ImplementsRemoteStore
PROPERTY EveryCallEnds
