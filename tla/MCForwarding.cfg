SPECIFICATION Spec
CONSTANTS
  o1 = o1
  o2 = o2
  o3 = o3
  home0 = home0
  home1 = home1
  t1 = t1
  t2 = t2
  t3 = t3
  None = None
  Empty = Empty
  Threads = {t1, t2, t3}
  Indexes = {0, 1}
  Offsets = {o1, o2, o3}
  InPlace <- MCInPlace
  NEntries = 4
  Hash <- MCHash
  FromIndexLimit = 4
INVARIANTS
  NoDuplicates
  ProbesEnd
PROPERTIES
  ImplementsMap
SYMMETRY Symmetry
