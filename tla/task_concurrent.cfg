SPECIFICATION Spec
CONSTANTS
  manager = manager
  ann = ann
  bob = bob
  Nobody = Nobody
  Users <- MCUsers
  Holders <- MCHolders
  Workers = {w1, w2}
  MaxCalls = 5
SYMMETRY WorkerSymmetry
INVARIANTS
  OneDecisionAwaited
  AuditEndsAtStatus
  CompletedWasSubmitted
  RepeatedDataAgrees
  CancellationIsAnnounced
\* The calls are bounded by MaxCalls, so every behaviour ends.
CHECK_DEADLOCK FALSE
