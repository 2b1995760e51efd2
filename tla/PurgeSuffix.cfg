SPECIFICATION Spec
CONSTANTS
  apex = apex
  other = other
  www = www
  Names <- ThreeNames
  Zone <- InZone
  Rank <- ByName
  Workers = {w1}
  Data <- OneVersion
  SoaTTL = 3
  PacketTTL = 2
  QueryTTL = 2
  NegQueryTTL = 3
  MaxCached = 1
  CleanupEvery = 2
  MaxWork = 1
PROPERTY DomainPurged
