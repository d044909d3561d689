SPECIFICATION FairSpec
CONSTANTS
  Instance = {i1}
  Session = {s1, s2}
  Token = {t1, t2}
  Handler = {h1, h2}
  None = none
  CacheWindow = 1
  WriteEvery = 1
  IdleTimeout = 3
  RotationGrace = 1
  AccessTtl = 9
  RefreshTtl = 9
  Retention = 9
  CacheCap = 0
  Latency = 1
  Offered <- SigningOut
  MaxTime = 0
PROPERTIES
  BanReachesEverySession
CHECK_DEADLOCK FALSE
