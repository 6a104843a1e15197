\* Six topics: three lists of two fit side by side.
SPECIFICATION Spec
CONSTANTS
  Topic = {1, 2, 3, 4, 5, 6}
  MaxStores = 2
  Arrays <- MCArrays
INVARIANTS
  ListsAreClasses
  NoTopicTwice
CHECK_DEADLOCK FALSE
