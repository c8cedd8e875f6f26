SPECIFICATION Spec
CONSTANTS
  a = a
  b = b
  c = c
  n = n
  m1 = m1
  Root = Root
  Null = Null
  Old = {a, b, c}
  New = {}
  Arrays = {}
  Width = 1
  RootSlots = 1
  Heaps <- Chain
  PageOf <- ChainPageOf
  NStripes = 2
  NWorkers = 2
  Mutators = {}
  Ops = 0
  Clears = FALSE
INVARIANTS
  ReachableSurvive
CHECK_DEADLOCK FALSE
