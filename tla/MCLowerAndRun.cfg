SPECIFICATION RunSpec
CONSTANTS
  W = 2
  X = 4
  Arith <- MCArith
  Defined <- MCDefined
  WInsn <- MCWInsn
  UB = UB
  Graphs <- MCGraphs
  Inputs <- MCInputs
  InitialRegs <- MCInitialRegs
  Reg <- MCReg
  ArgReg <- MCArgReg
  Pool <- MCPool
  NoReg = NoReg
  Pending = Pending
  Refused = Refused
  LongWords <- MCLongWords
INVARIANTS ResultCorrect LiveValuesHeld
PROPERTIES ContractMet
CHECK_DEADLOCK FALSE
