\* Four topics with two properties of two locators: two merge lists at a time,
\* classes joined by one property after the other.
SPECIFICATION Spec
CONSTANTS
  Topic = {1, 2, 3, 4}
  MaxVid = 8
  NoValue = NoValue
  Locator = {a, b}
  PropOrder <- IdentityProps
  Kind <- MCKind
  Subjects <- IdentitySubjects
  Forms = {}
  MaxCalls = 5
INVARIANTS
  StoresSound
  UnrelatedStayApart
  MergedIffRelated
  LocatorsKept
  NoAssertFails
SYMMETRY MCSymmetry
CHECK_DEADLOCK FALSE
