CONSTANTS
  s1 = s1
  s2 = s2
  AP = AP
  Sta <- OneStation
  Incompatible <- NoStations
  Offload <- NoStations
  AssocValue <- Draw0
  MaxThreshold = 1
  LowWater = 1
  QueueCap = 1
  MaxMissedBeacons = 2
  ActiveProbing <- NoStations
  Reconfigure = FALSE
  UserDisassoc = FALSE
  BeaconLoss = TRUE
  BoundLosses = TRUE
  MaxLosses = 2

SPECIFICATION FairSpec
PROPERTIES Reassociates
