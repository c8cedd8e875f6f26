SPECIFICATION Spec
CONSTANTS
  m1 = m1
  m2 = m2
  m3 = m3
  f1 = f1
  Early = {m1}
  Late = {}
  Main = {}
  Foreign = {f1}
  NProcs = 1
  Owner <- OneProc
  MM = MM
  MaxCycles = 2
  PageFaults = FALSE
  Exits = FALSE
  Debug = FALSE
INVARIANTS
  StoppedWorld
CHECK_DEADLOCK FALSE
