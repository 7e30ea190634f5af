CONSTANTS
  MemSize = 5
  SigBytes = 2
  MaxLen = 2
  Bytes = {1, 2}
  UIntRange = 2
SPECIFICATION Spec
PROPERTY AllGoodReturns
