SPECIFICATION Spec
CONSTANTS
  TTL = 1
  MaxTicks = 3
INVARIANT
  BlockedDoNotWrite
