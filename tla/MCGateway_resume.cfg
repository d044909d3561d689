SPECIFICATION FairSpec
CONSTANTS
  o1 = o1
  u1 = u1
  h1 = h1
  h2 = h2
  None = None
  Org = {o1}
  Upload = {u1}
  Handler = {h1, h2}
  OwnerOf <- MCOwnerOf
  Total = 3
  Chunk = 2
  Document = 3
  AllLimit = 2
  OrgLimit = 3
  WarnAt = {2, 3}
  Attempts = 2
  Offered = {"read", "drop", "refuse", "transient", "not-found"}
INVARIANTS
  TypeOK
  NeverAhead
  WarnedOnce
  AllowanceHolds
PROPERTIES
  UploadEnds
CHECK_DEADLOCK FALSE
