SPECIFICATION FairSpec
CONSTANTS
  Postings = {p1, p2, p3}
  Internal = {p1}
  Unnamed = {p1, p2}
  Undescribed = {p2, p3}
  English = {p2}
  Listing = Listing
  PageSize = 2
  MaxPages = 2
  Workers = 2
  MaxRetries = 2
  RetryDelay = 2
  Second = 4
  HalfRange = 128
  MaxDelay = 120
  Hints = {0, 31, 40}
  MaxTransient = 3
  MaxFinal = 1
  MaxChanges = 1
INVARIANTS
  TypeOK
  Complete
  Tolerates
PROPERTY
  Ends
