SPECIFICATION Spec
CONSTANTS
  dca = dca
  edca = edca
  Dca <- TheDca
  Edca <- TheEdca
  Data = edca
  Assignments <- EarlySlots
  Intervals <- WithinRaw
  Period = 8
  FirstWake = 7
  BeaconsLost = TRUE
  ActiveProbing = FALSE
  MayLeave = TRUE
  Fragments = TRUE
  Airtime = 1
  MaxQueue = 1
INVARIANTS TypeOK OwnSlotOpen
