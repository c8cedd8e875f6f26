SPECIFICATION FairSpec
CONSTANTS
  Worker = worker
  InPlace = InPlace
  None = None
  Mutators = {m1, m2}
  Objects = {o1, o2}
  Copies = {c1, c2}
  Loads = 3
  Remarks = 1
INVARIANTS
  FreedPageIsEmpty
  FreedOnceUnheld
  ReturnsTheObject
PROPERTIES
  ReleasedOrPinned
  ImplementsMap
CHECK_DEADLOCK FALSE
