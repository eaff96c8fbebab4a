SPECIFICATION DatasetSpec
CONSTANTS
  NSeeds = 3
  Profiles <- AllProfiles
  Sizes = {2}
  MaxSize = 2
  Limits = {2}
  MaxRuns = 1
  Kill = FALSE
  None = None
  Torn = Torn
INVARIANTS OwnBaseline
CHECK_DEADLOCK FALSE
