CONSTANTS
  Keys <- MCKeys
  CostPatterns <- MCCosts
  KeyMax = 1000
  MaxDepth = 2
  LoadMax = 2
  Crowd = 2
  MinWidth = 32
  Rounded = {144}
  MinOut = 1
  MaxOut = 2
  Tolerance = 2
  MaxCount = 2
  MaxTotal = 3
  IntMax = 1000
  ShiftHairs = {0}
  NodeLookups = 1
  NodeSize = 2
  PointerSize = 1
SPECIFICATION Spec
INVARIANTS
  TypeOK
  ModelNodesValid
  EveryKeyReached
  TraversalExact
  FanoutExact
