\* Five topics: a type, two roles that may become one or one of which may
\* become the type, a player, an assertion topic.  Six calls.
SPECIFICATION FairSpec
CONSTANTS
  Topic = {1, 2, 3, 4, 5}
  MaxVid = 6
  NoValue = NoValue
  Locator = {a}
  PropOrder <- AssertionProps
  Kind <- MCKind
  Subjects <- AssertionSubjects
  Forms <- MCForms
  MaxCalls = 6
INVARIANTS
  TypeOK
  DisposedIsGone
  AssertionsKept
PROPERTIES
  AssertsExplained
  CallsReturn
CHECK_DEADLOCK FALSE
