SPECIFICATION Spec
CONSTANTS
  W = 1
  X = 2
  Arith <- MCArith
  Defined <- MCDefined
  UB = UB
  Graphs <- MCGraphs
  Reg <- MCReg
  ArgReg <- MCArgReg
  Pool <- MCPool
  NoReg = NoReg
  MaxRefs = 4
  MaxInputs = 2
INVARIANTS TypeOK NoAlias NoLeak LiveMapped RefusalJustified OperandsReach CodeAssembles
CHECK_DEADLOCK FALSE
