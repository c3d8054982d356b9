SPECIFICATION FairSpec
CONSTANTS
  founder = founder
  colleague = colleague
  ceo = ceo
  staff = staff
  Manage = manage
  Users <- MCUsers
  Roles <- MCRoles
  Seed <- MCSeed
  Founder <- MCFounder
  Permissions = {manage}
  TTL = 2
  MaxChanges = 3
INVARIANTS
  ChangesTakeEffect
PROPERTY
  WrongEntriesDie
\* The changes are bounded, so every behaviour ends.
CHECK_DEADLOCK FALSE
