SPECIFICATION Spec
CONSTANTS
  ann = ann
  bob = bob
  urgent = urgent
  billing = billing
  WeekLength = 2
  Cap = 2
  Tasks = {k1, k2}
  Tags = {urgent, billing}
  Category <- MCCategory
  Mandatory = {"area"}
  Calendars <- MCCalendars
  Days = {1}
  None = None
  Unset = Unset
  MaxOpen = 2
  MaxEdits = 3
SYMMETRY Symmetry
INVARIANTS
  DueDateIsFirstWorkingDay
  UsageIsExact
PROPERTIES
  FrozenOnceStarted
\* The edits are bounded, so a behaviour ends.
CHECK_DEADLOCK FALSE
