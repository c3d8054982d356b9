SPECIFICATION MCSpec
CONSTANTS
  ceo = ceo
  sup = sup
  mgr = mgr
  hr = hr
  mia = mia
  eli = eli
  Staff <- MCSmallStaff
  Guests = {mia, eli}
  Role <- MCRole
  Inviters <- MCFewInviters
  Chain <- MCChain
  MaxUsers = 4
  Workers = {w1, w2}
  MaxOpen = 2
  MaxRows = 2
  MaxCalls = 8
SYMMETRY WorkerSymmetry
INVARIANTS
  RejectedIsRemoved
  OneHome
  SentWasAgreed
  SeriallyQualified
PROPERTIES
  SeriallyApproved
  SeriallyFits
\* The calls are bounded by MaxCalls, so every behaviour ends.
CHECK_DEADLOCK FALSE
