SPECIFICATION ServicesSpec
CONSTANTS
  Routines = {t1, t2, t3}
  STOP = STOP
  SENTINEL = SENTINEL
  SpuriousWakeups = TRUE
  C0 = c0
  Co = {c1, c2, c3}
  Stacks = {s1, s2, s3, s4}
  S0 = s0
  Limits = {2, 5}
  Loaders = {l1, l2}
  Lazies = {"a", "b", "c"}
  Needs <- NeedsThird
  MaxObjects = 4
  Interners = {i1, i2}
  Texts <- FourTexts
  Hash <- FirstAndLength
  FirstSlots = 2
  MaxEntries = 5
  MaxFailures = 1
INVARIANTS
  RunInPostOrder
  InactiveMeansDone
  StacksHaveOneOwner
  RunningIsAlive
  LoadsAgree
  InternedOnce
PROPERTIES
  PostWakesWorker
  WaitersRun
  LoadsEnd
CHECK_DEADLOCK FALSE
