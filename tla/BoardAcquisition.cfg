SPECIFICATION Spec
CONSTANTS
  Postings = {p1, p2}
  Junk = Junk
  Listing = Listing
  Adapters <- MCAdapters
  Fallbacks = {"none", "dynamic"}
  MaxAnchors = 3
  Limits <- MCLimits
SYMMETRY PostingsAlike
INVARIANTS
  TypeOK
  EveryUrlAnswered
  NoCandidateLost
  ErrorMeansNothing
  KeyStable
CHECK_DEADLOCK FALSE
