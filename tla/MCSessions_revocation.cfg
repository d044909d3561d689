SPECIFICATION Spec
CONSTANTS
  Instance = {i1, i2}
  Session = {s1}
  Token = {t1}
  Handler = {h1, h2}
  None = none
  CacheWindow = 2
  WriteEvery = 2
  IdleTimeout = 3
  RotationGrace = 1
  AccessTtl = 9
  RefreshTtl = 9
  Retention = 9
  CacheCap = 0
  Latency = 1
  Offered <- Bearer
  MaxTime = 6
SYMMETRY Alike
INVARIANTS
  TypeOK
  EndedStopsWorking
CHECK_DEADLOCK FALSE
