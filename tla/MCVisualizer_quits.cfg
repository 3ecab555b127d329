SPECIFICATION Spec
CONSTANTS
  t1 = t1
  t2 = t2
  t3 = t3
  none = none
  Timer <- Timers
  NoTimer = none
CHECK_DEADLOCK FALSE
INVARIANTS NotAhead PlayHasTimer
PROPERTIES KeepsRunning QuitEnds
