\* The source keeps raising.
CONSTANTS
  a = a
  b = b
  p1 = p1
  p2 = p2
  w1 = w1
  w2 = w2
  h1 = h1
  Runs = {a}
  Postings = {p1, p2}
  Broken = {p2}
  Workers = {w1}
  Handlers = {h1}
  Disabled = {}
  MaxRaises = 4
  MaxFaults = 0
SPECIFICATION FairSpec
PROPERTIES
  RunSettles
CHECK_DEADLOCK FALSE
