SPECIFICATION Spec
CONSTANTS
  Packet <- Packets4
  SeqSpace = 16
  FragMod = 4
  Window = 2
  FirstSeq = 13
  Threshold = 1
  MaxSlrc = 2
  HasInactivity = FALSE
  MaxLosses = 1
  MaxExpired = 0
  MaxTimeouts = 0
CHECK_DEADLOCK FALSE
INVARIANT HandedUpInOrder
