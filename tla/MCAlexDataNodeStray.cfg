CONSTANTS
  Keys = {1, 2}
  Payloads = {pa, pb}
  pa = pa
  pb = pb
  Sentinel = 9
  MaxSlots = 6
  CheckPeriod = 2
  W = 2
  StrayBits = {1}
  MaxKeys = 4
SYMMETRY PayloadSymmetry
SPECIFICATION Spec
INVARIANT FindsInRange
