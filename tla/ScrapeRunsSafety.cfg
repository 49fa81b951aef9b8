\* Two workers, two runs, exhausted retries, a fault anywhere.
CONSTANTS
  a = a
  b = b
  p1 = p1
  p2 = p2
  w1 = w1
  w2 = w2
  h1 = h1
  Runs = {a, b}
  Postings = {p1, p2}
  Broken = {p2}
  Workers = {w1, w2}
  Handlers = {h1}
  Disabled = {"jobspy"}
  MaxRaises = 3
  MaxFaults = 1
SPECIFICATION FairSpec
INVARIANTS
  TypeOK
  InsertedOnce
  OneDelivery
  AccountedWithoutFaults
PROPERTIES
  ResultStands
  StrandedByFailure
  RunEnds
CHECK_DEADLOCK FALSE
