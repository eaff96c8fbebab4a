SPECIFICATION VocabulariesSpec
CONSTANTS
  Canon <- MCCanon
  Widths = {2, 4, 8}
  NoVal = NoVal
  Tys <- MCTys
  MaxVars = 5
  Exprs <- MCExprs
  Depth <- MCDepth
  Idents <- MCIdents
  Opcodes = {"ret", "beq", "j", "bgez", "call", "lw"}
  Regs = {"a0"}
  Alias <- MCAlias
  Buckets <- MCBuckets
  LabelMax = 2
  SpecIds <- MCSpecIds
  SpecAt <- MCSpecAt
  Lines <- MCLines
  MaxLines = 5
  Fn = Fn
  Tokens <- MCTokens
  MaxLen = 6
INVARIANTS ConstsRoundTrip SpecTokensFaithful AsmRoundTrip OperandsInOrder
CHECK_DEADLOCK FALSE
