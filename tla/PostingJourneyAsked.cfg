\* A resolution or a submitted link on a board with one address inside another.
CONSTANTS
  gh = gh
  lv = lv
  be = be
  be2 = be2
  ad = ad
  Slugs <- MCSlugs
  Occurs <- MCOccurs
  Boards <- MCBoards
  Feeds <- MCFeeds
  Submitted <- MCSubmitted
  SkillFiles <- MCSkills
  Catalogs <- MCCatalogs
  Threshold = 500
  MaxRuns = 1
SPECIFICATION Spec
INVARIANTS
  FoundIsAsked
CHECK_DEADLOCK FALSE
