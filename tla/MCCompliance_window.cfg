SPECIFICATION Spec
CONSTANTS
  root = root
  Profile = {p1}
  Node = {root, left}
  Ancestors <- Under
  Settings <- Mixed
  Schedules <- OnceOrDaily
  Offered <- Serial
  MaxVersion = 2
  MaxTime = 4
INVARIANTS
  TypeOK
  WholeWindowGranted
PROPERTIES
  SweepChangesNoVerdict
  LateStaysLate
