SPECIFICATION FairSpec
CONSTANTS
  Ids = {1, 2}
  Crawled = {2}
  Names = {"acme", "yandex"}
  Texts = {"remote", "berlin"}
  Modes = {"", "remote", "hybrid"}
  Postings <- MCPostings
  NoMode = ""
  NoSlug = "none"
  SlugOf <- MCSlugOf
  GeoOf <- MCGeoOf
  ModeOf <- MCModeOf
  SkillsOf <- MCSkillsOf
  Empty = "empty"
  Runs = {r1, r2}
  BatchSize = 1
  MaxRuns = 2
  MaxEvents = 1
INVARIANT
  TypeOK
PROPERTIES
  RunDelivers
  LossesExplained
  Heals
