SPECIFICATION Spec
CONSTANTS
  Packet <- Packets8
  SeqSpace = 6
  FragMod = 2
  Window = 2
  FirstSeq = 0
  Threshold = 2
  MaxSlrc = 2
  HasInactivity = TRUE
  MaxLosses = 2
  MaxExpired = 1
  MaxTimeouts = 1
CHECK_DEADLOCK FALSE
INVARIANTS RecordsAreSound RetriesAreKept SentMeansReceived InOrderInFirstHalf OnlyOldAreGone EveryPacketKept BlockedWhilePending
