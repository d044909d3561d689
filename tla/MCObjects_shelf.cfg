SPECIFICATION Spec
CONSTANTS
  Object = {k1, k2}
  File = {f1}
  Doc = {d1}
  Handler = {h1, h2}
  Drainer = {w1}
  None = None
  Drive = TRUE
  MaxAttempts = 1
  Grace = 0
  MaxEntries = 1
  MaxTime = 1
  Offered <- Ordinary
INVARIANTS
  Accounted
PROPERTIES
  KeepsItsPromise
SYMMETRY Interchangeable
CHECK_DEADLOCK FALSE
