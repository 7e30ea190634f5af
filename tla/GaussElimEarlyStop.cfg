CONSTANTS
  F = {0, 1, 2, 3}
  Zero = 0
  One = 1
  Plus <- GFPlus
  Times <- GFTimes
  Inv <- GFInv
  L = 4
  Unit = 4
  StepBounds = {2, 4}
  Systems <- MCSystems
  Junk = {0, 2}
SPECIFICATION AllSpec
INVARIANTS FailsOnlySingular
