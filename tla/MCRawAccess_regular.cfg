SPECIFICATION FairSpec
CONSTANTS
  dca = dca
  edca = edca
  Dca <- TheDca
  Edca <- TheEdca
  Data = edca
  Assignments <- WithPaged
  Intervals <- Regular
  Period = 8
  FirstWake = 7
  BeaconsLost = FALSE
  ActiveProbing = FALSE
  MayLeave = TRUE
  Fragments = FALSE
  Airtime = 1
  MaxQueue = 1
INVARIANTS NoneStranded
PROPERTIES RawRespected AwakeForAck WakesInItsSlots EdcaGetsOut
