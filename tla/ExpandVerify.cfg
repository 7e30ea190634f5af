CONSTANTS
  V = 3
  O = 2
  VecLen = 3
  Unit = 4
  BlockSize = 4
  CtrMod = 16
  Builds = {"gf16", "gf16_predicate", "gf256"}
  Junk = Junk
SPECIFICATION Spec
INVARIANTS SameKey ReadsWritten EvaluatesKey
