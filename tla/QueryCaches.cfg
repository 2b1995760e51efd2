SPECIFICATION Spec
CONSTANTS
  apex = apex
  other = other
  www = www
  Names <- OneName
  Zone <- InZone
  Rank <- ByName
  Workers = {w1, w2}
  Data <- MCData
  SoaTTL = 3
  PacketTTL = 2
  QueryTTL = 2
  NegQueryTTL = 3
  MaxCached = 1
  CleanupEvery = 2
  MaxWork = 1
INVARIANTS
  FreshEnough
  PurgeHolds
SYMMETRY WorkersAlike
