SPECIFICATION Spec
CONSTANTS
  Threads = {t1, t2}
  Pages = {p1, p2, p3}
  Addresses = 6
  Memory = 5
  Sizes = {1, 2}
  LargeSizes = {}
  Callers = 1
  None = None
INVARIANTS AddressesDisjoint MemoryDisjoint GranulesFindPages NothingLeaks
SYMMETRY Symmetry
