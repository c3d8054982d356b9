SPECIFICATION Spec
CONSTANTS
  manager = manager
  ann = ann
  bob = bob
  Nobody = Nobody
  Users <- MCUsers
  Holders <- MCHolders
  Workers = {w1}
  MaxCalls = 6
INVARIANTS
  AuditIsAPath
  WorkHasAnOwner
  DecidedOnce
PROPERTIES
  ImplementsStateMachine
\* The calls are bounded by MaxCalls, so every behaviour ends.
CHECK_DEADLOCK FALSE
