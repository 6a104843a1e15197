\* Two topics share a source locator and have different subject addresses.
SPECIFICATION Spec
CONSTANTS
  Topic = {1, 2, 3}
  MaxVid = 6
  NoValue = NoValue
  Locator = {a, b}
  PropOrder <- ContradictionProps
  Kind <- MCKind
  Subjects <- ContradictionSubjects
  Forms = {}
  MaxCalls = 5
INVARIANT NoAssertFails
CHECK_DEADLOCK FALSE
