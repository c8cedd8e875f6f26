SPECIFICATION Spec
CONSTANTS
  Threads = {t1, t2}
  Pages = {p1, p2}
  Addresses = 5
  Memory = 7
  Sizes = {1, 2}
  LargeSizes = {}
  Callers = 2
  None = None
INVARIANTS AddressesDisjoint
SYMMETRY Symmetry
