CONSTANTS
  Arrays <- SkewedOnly
  NewKeys = {}
  MaxKeys = 60
  Epsilon = 8
  TrackMisses = FALSE
  DecayEvery = 128
  LdzThreshold = 5
  MaxErrs = 65535
SPECIFICATION Spec
INVARIANT FreshFindsStored
