SPECIFICATION Spec
CONSTANTS
  w1 = w1
  w2 = w2
  Jobs = 3
  Suite <- Suites
  Skip <- Skips
  Worker <- Workers
  MayInterrupt = TRUE
  MayMissFile = TRUE
  MaxFailures = 1
CHECK_DEADLOCK FALSE
INVARIANTS InOneHand SuccessMeansRan NobodyLeft
PROPERTY ThreadsEnd
