CONSTANTS
  MemSize = 7
  SigBytes = 2
  MaxLen = 2
  Bytes = {1, 2}
  UIntRange = 16
SPECIFICATION Spec
INVARIANTS SignedWhole OpensOnlySigned RejectedIsCleared
PROPERTIES CompleteIsVerified OpenReturns
