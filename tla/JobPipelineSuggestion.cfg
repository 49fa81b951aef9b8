\* The stored suggestion.
CONSTANTS
  d1 = d1
  d2 = d2
  c1 = c1
  c2 = c2
  w1 = w1
  w2 = w2
  r1 = r1
  r2 = r2
  Jobs = {c1}
  Discovery = {}
  Workers = {w1}
  Requests = {r1}
  Decisions = {}
  MaxLaunches = 1
  MaxFaults = 0
SPECIFICATION Spec
INVARIANTS
  SuggestionStored
CHECK_DEADLOCK FALSE
