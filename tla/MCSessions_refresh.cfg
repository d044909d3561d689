SPECIFICATION Spec
CONSTANTS
  Instance = {i1}
  Session = {s1}
  Token = {t1, t2}
  Handler = {h1, h2}
  None = none
  CacheWindow = 1
  WriteEvery = 1
  IdleTimeout = 2
  RotationGrace = 1
  AccessTtl = 9
  RefreshTtl = 9
  Retention = 9
  CacheCap = 0
  Latency = 1
  Offered <- Refreshing
  MaxTime = 4
SYMMETRY Alike
INVARIANTS
  IdleWindowHonoured
PROPERTIES
  RecordedReasonStands
CHECK_DEADLOCK FALSE
