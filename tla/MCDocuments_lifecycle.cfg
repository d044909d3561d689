SPECIFICATION Spec
CONSTANTS
  Doc = {d1, d2}
  Branch = {b1, b2}
  Handler = {h1}
  None = None
  Offered <- Failing
SYMMETRY Interchangeable
INVARIANTS
  TypeOK
  ForwardsOnlyToPublished
  VerdictStands
PROPERTIES
  AudienceKept
CHECK_DEADLOCK FALSE
