\* Two items for three pages and two clients; one read or write fails.
SPECIFICATION MCSpec
CONSTANTS
  Client = {c1, c2}
  PMax = 2
  MaxPages = 3
  MaxVersion = 3
  MaxFailures = 1
  Name = {m}
INVARIANTS
  TypeOK
  LatestIsSeen
  FlushedSurvives
  HoldersCounted
  MetaStoreKept
SYMMETRY MCSymmetry
CHECK_DEADLOCK FALSE
