\* Every job is decided when nothing fails, and a stranded one is rescued.
CONSTANTS
  d1 = d1
  d2 = d2
  c1 = c1
  c2 = c2
  w1 = w1
  w2 = w2
  r1 = r1
  r2 = r2
  Jobs = {d1, c1}
  Discovery = {d1}
  Workers = {w1}
  Requests = {r1}
  Decisions = {}
  MaxLaunches = 2
  MaxFaults = 1
SPECIFICATION FairSpec
PROPERTIES
  EveryJobDecided
  SweepRescues
CHECK_DEADLOCK FALSE
