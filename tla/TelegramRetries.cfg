SPECIFICATION RetrySpec
CONSTANTS
  l1 = l1
  Posts = {1, 2, 3}
  Plausible = {2}
  Links = {l1}
  LinksOf <- MCLinksOf
  LinkOrder <- NoOrder
  MaxJobs = 1
  Workers = {w1}
  BatchSize = 2
  Lease = 1
  MaxAttempts = 2
  MaxFaults = 2
INVARIANT
  RetryBudget
