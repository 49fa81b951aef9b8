\* Status requests of the user in flight next to the tasks' transactions.
CONSTANTS
  d1 = d1
  d2 = d2
  c1 = c1
  c2 = c2
  w1 = w1
  w2 = w2
  r1 = r1
  r2 = r2
  Jobs = {d1, c1}
  Discovery = {d1}
  Workers = {w1}
  Requests = {r1}
  Decisions = {"APPLIED"}
  MaxLaunches = 2
  MaxFaults = 1
SPECIFICATION Spec
INVARIANTS
  SnapshotCurrent
PROPERTIES
  UserDecisionKept
CHECK_DEADLOCK FALSE
