SPECIFICATION Spec
CONSTANTS
  Postings <- ProbePostings
  Boards <- MCBoards
  BoardOf <- ProbeBoardOf
  ProviderOf <- MCProviderOf
  Registry <- MCRegistry
  Crawlers = {}
  Entries <- NoEntries
  Probers = {"w1", "w2"}
  Slots = 1
  Grace = 0
  Threshold = 2
  MaxPosts = 1
  MaxFaults = 0
PROPERTY
  ConsecutiveProbes
\* Once its only posting is closed and no link post is left, this instance has nothing to do.
CHECK_DEADLOCK FALSE
