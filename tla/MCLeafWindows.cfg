CONSTANTS
  Arrays <- MCArrays
  NewKeys <- MCNewKeys
  MaxKeys = 9
  Epsilon = 4
  TrackMisses = TRUE
  DecayEvery = 2
  LdzThreshold = 1
  MaxErrs = 2
SPECIFICATION Spec
INVARIANTS TypeOK LeavesTileKeys LinesWithinEps RebuiltFindsStored
PROPERTIES QueryLosesNoKey RepairIsLocal
