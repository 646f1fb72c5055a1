SPECIFICATION FairSpec
CONSTANTS
  Texts = {"old", "new"}
  Modes = {"none"}
  NoMode = "none"
  Reindexers = {r1, r2}
  BatchSize = 1
  MaxId = 2
  MaxEdits = 2
  MaxFaults = 1
INVARIANT
  TypeOK
PROPERTIES
  RunSynchronizes
  Converges
