CONSTANTS
  Keys <- LowKeys
  CostPatterns <- FallingCosts
  KeyMax = 1000
  MaxDepth = 2
  LoadMax = 2
  Crowd = 9
  MinWidth = 2
  Rounded = {}
  MinOut = 2
  MaxOut = 3
  Tolerance = 2
  MaxCount = 1
  MaxTotal = 6
  IntMax = 1000
  ShiftHairs = {0}
  NodeLookups = 1
  NodeSize = 2
  PointerSize = 1
SPECIFICATION Spec
INVARIANT EveryKeyReached
