SPECIFICATION FairSpec
CONSTANTS
  Threads = {t1, t2}
  Pages = {p1, p2}
  Limit = 9
  Sizes = {3, 4}
  Align = 2
  Null = Null
  Busy = Busy
  Requests = 2
INVARIANTS
  ChunksDisjoint
  OneMaker
PROPERTIES
  AllocationsEnd
CHECK_DEADLOCK FALSE
