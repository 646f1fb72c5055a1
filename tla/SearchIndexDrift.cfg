SPECIFICATION Spec
CONSTANTS
  Texts = {"old"}
  Modes = {"none", "remote"}
  NoMode = "none"
  Reindexers = {r1}
  BatchSize = 1
  MaxId = 1
  MaxEdits = 1
  MaxFaults = 0
PROPERTY
  NoDrift
