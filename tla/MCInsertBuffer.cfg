CONSTANTS
  k1 = k1
  k2 = k2
  Keys = {k1, k2}
  HOT_CAP = 2
  FlushNum = 3
  FlushDen = 2
  MaxDup = 2
  MaxStamp = 9
  WindowsCover = TRUE
  Miss = Miss
  NoCall = NoCall
SYMMETRY KeySymmetry
SPECIFICATION Spec
PROPERTY ImplementsContract
INVARIANTS TypeOK SizesMatch VersionOrder StaleOnlyWithinTier WarmBelowRatio
