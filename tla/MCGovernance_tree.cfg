SPECIFICATION Spec
CONSTANTS
  h1 = h1
  h2 = h2
  founder = founder
  chair = chair
  head = head
  mate = mate
  root = root
  main = main
  sub = sub
  Person = {founder, chair, head, mate}
  Branch = {root, main, sub}
  Handler = {h1, h2}
  Root = root
  Acting = {head, mate}
  Standing <- Ground
  Seated <- Bosses
  Granted <- Rights
  Grants <- CoOwner
  Offered <- Apart
  Newcomers = {mate, chair}
  Asked <- Filed
  Menu <- Shared
  MaxRequests = 1
  Kept = {}
  Backed = {sub}
  MaxBackups = 1
INVARIANTS
  TypeOK
  
PROPERTIES
  OpensOnlyGoverned
  OwnedStaysOwned
CHECK_DEADLOCK FALSE
