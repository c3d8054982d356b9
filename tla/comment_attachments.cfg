SPECIFICATION Spec
CONSTANTS
  ann = ann
  bob = bob
  Users <- MCUsers
  Writers <- MCWriters
  Bodies <- MCBodies
  Files = {f1, f2}
  Comments = {c1, c2}
  None = None
  Purposes = {"comment_attachment"}
  Quota = 2
  MaxOpen = 2
  MaxFaults = 1
  MaxEdits = 2
SYMMETRY Symmetry
INVARIANTS
  StorageIsExact
  MentionedAreTold
  CommentIsWhole
  QueuedIsClaimable
\* File and comment ids are finite, so every behaviour ends.
CHECK_DEADLOCK FALSE
