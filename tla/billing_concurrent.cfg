SPECIFICATION FairSpec
CONSTANTS
  Never = Never
  WarnDay = 1
  ReadOnlyDay = 2
  PauseDay = 3
  LockDay = 4
  DeleteDay = 5
  TrialDays = 1
  MaxDay = 5
  MaxFaults = 1
  Handlers = {h1, h2}
  MaxEvents = 2
  MaxInvoices = 0
  AllowHardDelete = TRUE
  MaxActive = 2
INVARIANTS
  RowsInSync
  AppliedAtMostOnce
  SanctionsWereWarned
PROPERTY
  LadderCompletes
