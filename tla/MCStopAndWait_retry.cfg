SPECIFICATION Spec
CONSTANTS
  dca = dca
  edca = edca
  Txop <- Both
  Qos <- OnlyEdca
  Tid <- OwnTid
  Packet <- Packets3
  Owner <- LastEdca
  Frags <- Unfragmented
  RtsPackets <- NoPackets
  SeqMod = 4
  MaxSlrc = 3
  MaxSsrc = 2
  QueueCap = 2
  MaySleep <- Receiver
  MaxOthers = 2
  MaxSleeps = 0
INVARIANTS TxOkMeansForwarded GivenUpAfterMaxSlrc
PROPERTY ImplementsLink
CHECK_DEADLOCK FALSE
