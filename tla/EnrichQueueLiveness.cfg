SPECIFICATION FairSpec
CONSTANTS
  Jobs = {j1}
  Legacy = {}
  Workers = {w1, w2}
  BatchSize = 1
  Lease = 1
  MaxAttempts = 2
  MaxVersion = 2
  MaxId = 9
  MaxFaults = 1
PROPERTIES
  KeepsPromise
  RunsEnd
  Converges
