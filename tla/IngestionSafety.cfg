\* One worker beside two manual_ingest requests.
CONSTANTS
  A = A
  B = B
  x = x
  y = y
  w1 = w1
  h1 = h1
  h2 = h2
  Mapped = {"gh", "agg"}
  Unmapped = {"jobspy"}
  Discovery = {"agg", "jobspy"}
  Ats = {"gh"}
  Postings <- SomePostings
  Whats = {x, y}
  Pages = {A, B}
  Queries = {"plain", "tracked"}
  Externals = {"1", "2"}
  Workers = {w1}
  Handlers = {h1, h2}
  MaxBatch = 2
  MaxTxns = 3
SPECIFICATION Spec
INVARIANTS
  TypeOK
  HashFits
  UrlClaimedOnce
  ProvenanceKept
  NoDeadlock
CHECK_DEADLOCK FALSE
