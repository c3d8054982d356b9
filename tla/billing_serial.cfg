SPECIFICATION Spec
CONSTANTS
  Never = Never
  WarnDay = 1
  ReadOnlyDay = 2
  PauseDay = 3
  LockDay = 4
  DeleteDay = 5
  TrialDays = 1
  MaxDay = 5
  MaxFaults = 1
  Handlers = {h1}
  MaxEvents = 3
  MaxInvoices = 2
  AllowHardDelete = TRUE
  MaxActive = 1
INVARIANTS
  WarnedAboutThisCycle
  WebhookRecoveryIsComplete
  OneOpenInvoice
PROPERTIES
  AnchorIsSetOnce
  JobsSparePayers
