SPECIFICATION FairSpec
CONSTANTS
  l1 = l1
  l2 = l2
  Posts = {1, 2}
  Plausible = {2}
  Links = {l1, l2}
  LinksOf <- MCLinksOf
  LinkOrder <- MCLinkOrder
  MaxJobs = 1
  Workers = {w1, w2}
  BatchSize = 2
  Lease = 1
  MaxAttempts = 2
  MaxFaults = 1
INVARIANTS
  TypeOK
  LeaseExclusive
PROPERTIES
  PersistedWhole
  SettledIsFinal
  KeepsPromise
