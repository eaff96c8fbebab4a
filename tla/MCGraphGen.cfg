SPECIFICATION GenSpec
CONSTANTS
  W = 2
  X = 4
  Arith <- MCArith
  Defined <- MCDefined
  UB = UB
  Signatures <- MCSignatures
  MaxSteps = 3
  MaxInputPos = 2
  Vocabulary = {"const", "neg", "sub", "select", "return"}
  Buckets <- MCBuckets
  DecodeBucket <- MCDecodeBucket
  EncodeWord <- MCEncodeWord
  OOV = OOV
  NoBucket = NoBucket
INVARIANTS GenTypeOK ReturnsGraph TeacherParity
PROPERTIES GenTerminates
CHECK_DEADLOCK FALSE
