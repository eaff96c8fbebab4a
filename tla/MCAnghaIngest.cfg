SPECIFICATION IngestSpec
CONSTANTS
  NFiles = 3
  Verdicts <- MCVerdicts
  Rejected = Rejected
  Stem <- MCStem
  Targets = {1, 2, 3}
  Chunk = 2
  Workers = 2
  MaxRuns = 2
  Kill = TRUE
  Break = TRUE
  None = None
  Torn = Torn
INVARIANTS IngestTypeOK WindowAccounts ManifestCounts OnePerFunction LoadedWhole
PROPERTIES Terminates
CHECK_DEADLOCK FALSE
