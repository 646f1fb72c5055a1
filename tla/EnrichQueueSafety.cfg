SPECIFICATION Spec
CONSTANTS
  Jobs = {j1, j2}
  Legacy = {j2}
  Workers = {w1, w2}
  BatchSize = 2
  Lease = 2
  MaxAttempts = 2
  MaxVersion = 1
  MaxId = 4
  MaxFaults = 2
SYMMETRY Symmetry
INVARIANTS
  TypeOK
  QueuedUntilEnriched
  LeaseExclusive
  DeadIffExhausted
  HandsMatchRows
PROPERTIES
  DeadIsFinal
  KeepsPromiseSafely
