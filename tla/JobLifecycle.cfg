SPECIFICATION FairSpec
CONSTANTS
  Postings <- MCPostings
  Boards <- MCBoards
  BoardOf <- MCBoardOf
  ProviderOf <- MCProviderOf
  Registry <- MCRegistry
  Crawlers = {"c1", "c2"}
  Entries <- MCEntries
  Probers = {"w1"}
  Slots = 1
  Grace = 0
  Threshold = 2
  MaxPosts = 1
  MaxFaults = 1
INVARIANTS
  TypeOK
  Territories
PROPERTIES
  SweepJustified
  ProbesJustified
  ListedReopens
  DelistedCloses
