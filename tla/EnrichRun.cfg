SPECIFICATION RunSpec
CONSTANTS
  Jobs = {j1, j2}
  Legacy = {}
  Workers = {w1}
  BatchSize = 2
  Lease = 3
  MaxAttempts = 3
  MaxVersion = 1
  MaxId = 2
  MaxFaults = 0
INVARIANT
  NeverReprocessedInRun
