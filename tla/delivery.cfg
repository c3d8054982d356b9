SPECIFICATION FairSpec
CONSTANTS
  Users = {u1}
  Watchers = {u1}
  Ids = {n1, n2}
  Mailable = {n1}
  Pushing = {"afterCommit"}
  Attempts = 2
  MaxRequests = 3
  MaxFaults = 2
INVARIANTS
  MailIsAccountedFor
  BellIsCurrentAtRest
PROPERTIES
  QueuedIsMailed
  BellCatchesUp
\* Requests and faults are bounded, so every behaviour ends.
CHECK_DEADLOCK FALSE
