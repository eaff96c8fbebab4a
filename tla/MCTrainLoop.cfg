SPECIFICATION TrainSpec
CONSTANTS
  Corpora <- MCCorpora
  Options <- MCOptions
  EpochsOpt = {0, 3}
  EveryOpt = {2}
  ExpDirs = {x1, x2}
  MaxRuns = 2
  None = None
  Torn = Torn
  Shuffled <- MCShuffled
SYMMETRY MCSymmetry
INVARIANTS BestIsEarliestBest FinalNotBetter HeldOut LogTellsBest
CHECK_DEADLOCK FALSE
