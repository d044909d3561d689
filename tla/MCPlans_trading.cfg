SPECIFICATION Spec
CONSTANTS
  Org = {o1, o2}
  Founded = {o1}
  Code = {c1}
  Handler = {h1, h2}
  Opening = 1
  Price = 1
  Term = 1
  FirstTerm = 0
  OtpTtl = 0
  Retention = 0
  MaxCoins = 1
  MaxFiles = 1
  MaxRow = 2
  Kinds <- Everything
  Offered <- Trading
  MaxTime = 1
INVARIANTS
  TypeOK
  TermsWereBought
  LedgerExplainsBalance
PROPERTIES
  ComesBackRunning
SYMMETRY Interchangeable
