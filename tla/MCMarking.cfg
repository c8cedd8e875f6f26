SPECIFICATION FairSpec
CONSTANTS
  a = a
  b = b
  c = c
  n = n
  m1 = m1
  Root = Root
  Null = Null
  Old = {a, b}
  New = {n}
  Arrays = {b}
  Width = 2
  RootSlots = 1
  Heaps <- MCHeaps
  PageOf <- MCPageOf
  NStripes = 2
  NWorkers = 2
  Mutators = {m1}
  Ops = 2
  Clears = TRUE
INVARIANTS
  GoodMeansMarked
  FollowedToTheEnd
PROPERTIES
  HealKeepsReference
  MarkingEnds
CHECK_DEADLOCK FALSE
