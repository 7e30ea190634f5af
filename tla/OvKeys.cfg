CONSTANTS
  F = {0, 1, 2, 3}
  Zero = 0
  Plus <- GFPlus
  Times <- GFTimes
  V = 3
  O = 2
  M = 2
  Tail = 2
  Variants = {"classic", "pkc", "pkc_skc"}
  Samples = {1, 2, 3}
  Os <- SampleOs
  P1s <- SampleP1s
  P2s <- SampleP2s
  Vinegars <- AllVinegars
  Targets <- SampleTargets
SPECIFICATION Spec
INVARIANTS OilSpaceVanishes SameSecretKey SignatureMaps
