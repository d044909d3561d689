SPECIFICATION FairSpec
CONSTANTS
  Org = {o1}
  Grant = {g1, g2}
  Folder = {f1, f2}
  Handler = {h1, h2}
  Checker = {c1}
  None = None
  PendingTtl = 0
  MaxTime = 1
  MaxKeys = 2
  Offered <- Usual
INVARIANTS
  TypeOK
  FolderKept
PROPERTIES
  KeyKept
  StatusComesTrue
CHECK_DEADLOCK FALSE
