SPECIFICATION FairSpec
CONSTANTS
  dca = dca
  edca = edca
  Txop <- Both
  Qos <- OnlyEdca
  Tid <- SharedTid
  Packet <- Packets3
  Owner <- LastEdca
  Frags <- AllDcaInTwo
  RtsPackets <- FirstPacket
  SeqMod = 8
  MaxSlrc = 2
  MaxSsrc = 2
  QueueCap = 1
  MaySleep <- Sender
  MaxOthers = 0
  MaxSleeps = 1
INVARIANTS OnlyWholePacketsForwarded EveryPacketAccounted
PROPERTY EveryPacketEnds
CHECK_DEADLOCK FALSE
