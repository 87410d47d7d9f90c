CONSTANTS
  Slug = {s1, s2, s3}
  MatchSet = {{s1, s2}, {s2, s3}, {s1, s2, s3}}
  MaxSubs = 2
  SubBatch = 2
  MaxShards = 3
  MaxResync = 2
  MaxFault = 1
SPECIFICATION Spec
CHECK_DEADLOCK FALSE
INVARIANTS TypeOK LiveMeansExact PlacedWithinCap CoveredWhenQuiet
PROPERTIES ResyncReturns EventuallyCovered
