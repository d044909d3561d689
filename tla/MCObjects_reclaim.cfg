SPECIFICATION FairSpec
CONSTANTS
  Object = {k1, k2}
  File = {}
  Doc = {d1}
  Handler = {h1}
  Drainer = {w1, w2}
  None = None
  Drive = FALSE
  MaxAttempts = 2
  Grace = 0
  MaxEntries = 1
  MaxTime = 1
  Offered <- Flaky
INVARIANTS
  TypeOK
PROPERTIES
  Reclaimed
CHECK_DEADLOCK FALSE
