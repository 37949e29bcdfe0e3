CONSTANTS
  Keys <- FarKeys
  CostPatterns <- NoCosts
  KeyMax = 2000
  MaxDepth = 2
  LoadMax = 1
  Crowd = 9
  MinWidth = 16
  Rounded = {}
  MinOut = 2
  MaxOut = 3
  Tolerance = 2
  MaxCount = 1
  MaxTotal = 3
  IntMax = 20
  ShiftHairs = {0}
  NodeLookups = 1
  NodeSize = 2
  PointerSize = 1
SPECIFICATION Spec
INVARIANT BoundsExact
