\* Three topics, three locators: enough for one put to unite two sets that
\* belong to different topics.  Four vids.
SPECIFICATION Spec
CONSTANTS
  Topic = {1, 2, 3}
  Locator = {a, b, c}
  MaxVid = 4
  NoValue = NoValue
  Value <- MCValue
  Property <- MCProperty
INVARIANTS
  TypeOK
  TableMatchesArrays
  NoOrphanValue
  ValuesDisjoint
  NormalizedIsUnique
  NoAssertFails
PROPERTY ImplementsMap
CHECK_DEADLOCK FALSE
