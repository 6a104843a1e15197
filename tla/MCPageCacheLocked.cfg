\* One item suffices for a second client to take the page of the first.
SPECIFICATION MCSpec
CONSTANTS
  Client = {c1, c2}
  PMax = 1
  MaxPages = 2
  MaxVersion = 1
  MaxFailures = 0
  Name = {m}
INVARIANT HeldIsLocked
CHECK_DEADLOCK FALSE
