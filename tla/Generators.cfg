CONSTANTS
  Seeds = {s1, s2}
  BlockSize = 2
  K = 2
  CtrMod = 14
  MaxReq = 13
  Vectors = 3
  Junk = Junk
SPECIFICATION MCSpec
INVARIANTS
  CounterAligned
  UnreadIsStream
  AnswersAlone
  BlocksFresh
PROPERTIES
  ImplementsStream
CHECK_DEADLOCK FALSE
