\* Four topics suffice: two lists, and an array that meets the first.
SPECIFICATION Spec
CONSTANTS
  Topic = {1, 2, 3, 4}
  MaxStores = 2
  Arrays <- MCArrays
INVARIANT NoFreedListRead
CHECK_DEADLOCK FALSE
