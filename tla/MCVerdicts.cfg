SPECIFICATION VerdictsSpec
CONSTANTS
  EnumMax = 2
  Terms <- MCTerms
  Formulas <- MCFormulas
  Depth <- MCDepth
  Names = {"x", "y", "r", "b", "i", "j", "m"}
  Width <- MCWidth
  XLEN = 4
  IWidth = 2
  Specs <- MCSpecs
  SpecOf <- MCSpecOf
  Cands <- MCCands
  Refs <- MCRefs
  Boundary <- MCBoundary
  Hw <- MCHw
  Sym <- MCSym
  Others = {0, 9}
  Outcomes <- MCOutcomes
  Executable <- MCExecutable
  Touches <- MCTouches
  Texts = {text}
  NInputs = 2
  MaxAttempts = 2
  NoInput = NoInput
INVARIANTS SamplesRight AcceptCovers IoCexGenuine RefutedByBoth SmtCexGenuine DiffVerdictRight
PROPERTY VerdictReached
CHECK_DEADLOCK FALSE
