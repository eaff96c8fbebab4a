SPECIFICATION AstSpec
CONSTANTS
  W = 2
  X = 2
  Arith <- MCArith
  Defined <- MCDefined
  UB = UB
  Exprs <- MCExprs
  Height <- MCHeight
  Bodies <- MCBodies
  Params <- MCParams
  BinOps = {"sub", "udiv", "srem", "shl", "ashr", "and"}
INVARIANTS ExtractionFaithful EvaluatorsAgree
CHECK_DEADLOCK FALSE
