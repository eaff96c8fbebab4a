SPECIFICATION DatasetSpec
CONSTANTS
  NSeeds = 3
  Profiles <- AllProfiles
  Sizes = {1, 3}
  MaxSize = 3
  Limits = {1, 2}
  MaxRuns = 2
  Kill = TRUE
  None = None
  Torn = Torn
INVARIANTS LoadsSupported OwnBaselinePlain ManifestAudits
CHECK_DEADLOCK FALSE
