\* Seven topics: three lists, and an array that meets the two behind the head.
SPECIFICATION Spec
CONSTANTS
  Topic = {1, 2, 3, 4, 5, 6, 7}
  MaxStores = 2
  Arrays <- MCArrays
INVARIANT NothingLost
CHECK_DEADLOCK FALSE
