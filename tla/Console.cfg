SPECIFICATION Spec
CONSTANTS
  Entries = {"j1", "j2"}
  Rank <- MCRank
  PerPage = 1
  AllPerPage = 1
  MaxInputs = 2
  MaxFailures = 1
  Runs = {"r1", "r2"}
  MaxInFlight = 2
  MaxFaults = 1
INVARIANTS
  TypeOK
  RowsCurrent
  RunsCurrent
PROPERTIES
  EndShown
CHECK_DEADLOCK FALSE
