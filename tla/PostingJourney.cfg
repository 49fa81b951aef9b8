\* Two runs of sources over the postings of three tracking systems.
CONSTANTS
  gh = gh
  lv = lv
  be = be
  be2 = be2
  ad = ad
  Slugs <- MCSlugs
  Occurs <- MCOccurs
  Boards <- MCBoards
  Feeds <- MCFeeds
  Submitted <- MCSubmitted
  SkillFiles <- MCSkills
  Catalogs <- MCCatalogs
  Threshold = 500
  MaxRuns = 2
SPECIFICATION Spec
INVARIANTS
  PersonaOfOwnText
  TechAgreesWithAts
  CatalogOrderIrrelevant
PROPERTIES
  NotIngestedTwice
CHECK_DEADLOCK FALSE
