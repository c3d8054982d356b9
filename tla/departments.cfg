SPECIFICATION FairSpec
CONSTANTS
  Depts = {d1, d2, d3}
  Roots = {d1, d2}
  Branches = {b1}
  Users = {u1}
  Teams = {t1, t2}
  None = None
  MaxMoves = 3
  MaxCalls = 3
INVARIANTS
  TreeIsAcyclic
  PrimaryChangesPass
PROPERTIES
  WalkEnds
\* The calls are bounded, so every behaviour ends.
CHECK_DEADLOCK FALSE
