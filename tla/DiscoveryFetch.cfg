SPECIFICATION Spec
CONSTANTS
  Postings = {p1, p2, p3, p4, p5}
  Items = {i1, i2}
  Junk = Junk
  Absent = Absent
  MaxChanges = 2
  MaxPerPage = 2
  DefaultPerPage = 2
  DefaultMaxPages = 2
  DefaultMaxResults = 4
  DefaultAttempts = 4
  DefaultInterval = 2
  DefaultTimeout = 4
  MinInterval = 1
  MinTimeout = 2
  MaxRequestTime = 2
  PageNumbers <- MCPageNumbers
  PollNumbers <- MCPollNumbers
INVARIANTS
  TypeOK
  NoPostingSkipped
  CompleteBelowLimits
  PollingBounded
  SuccessIsTheAnswer
  EmptySuccess
SYMMETRY PostingsAlike
CHECK_DEADLOCK FALSE
