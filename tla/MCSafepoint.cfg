SPECIFICATION Spec
CONSTANTS
  m1 = m1
  m2 = m2
  m3 = m3
  f1 = f1
  Early = {}
  Late = {m2}
  Main = {m3}
  Foreign = {}
  NProcs = 1
  Owner <- OneProc
  MM = MM
  MaxCycles = 3
  PageFaults = TRUE
  Exits = TRUE
  Debug = FALSE
INVARIANTS
  WakeupsBalance
  BarrierEmptyBetween
CHECK_DEADLOCK FALSE
