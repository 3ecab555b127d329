CONSTANTS
  s1 = s1
  s2 = s2
  AP = AP
  Sta <- TwoStations
  Incompatible <- Second
  Offload <- NoStations
  AssocValue <- Draw1
  MaxThreshold = 2
  LowWater = 1
  QueueCap = 1
  MaxMissedBeacons = 2
  ActiveProbing <- NoStations
  Reconfigure = FALSE
  UserDisassoc = TRUE
  BeaconLoss = FALSE
  BoundLosses = TRUE
  MaxLosses = 1

SPECIFICATION FairSpec
INVARIANT OnlyGrantedAssociate
PROPERTIES ImplementsService EveryStationSettles
