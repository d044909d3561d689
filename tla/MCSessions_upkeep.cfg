SPECIFICATION FairSpec
CONSTANTS
  Instance = {i1}
  Session = {s1}
  Token = {t1}
  Handler = {h1}
  None = none
  CacheWindow = 1
  WriteEvery = 1
  IdleTimeout = 1
  RotationGrace = 1
  AccessTtl = 2
  RefreshTtl = 2
  Retention = 0
  CacheCap = 0
  Latency = 1
  Offered <- Upkeep
  MaxTime = 4
PROPERTIES
  StaleIsClosed
  EndedStreamHungUp
CHECK_DEADLOCK FALSE
