CONSTANTS
  s1 = s1
  s2 = s2
  AP = AP
  Sta <- OneStation
  Incompatible <- NoStations
  Offload <- NoStations
  AssocValue <- Draw0
  MaxThreshold = 1
  LowWater = 1
  QueueCap = 1
  MaxMissedBeacons = 2
  ActiveProbing <- OneStation
  Reconfigure = TRUE
  UserDisassoc = TRUE
  BeaconLoss = TRUE
  BoundLosses = FALSE
  MaxLosses = 0

SPECIFICATION Spec
INVARIANTS TypeOK WaitsHaveTimers AssociatedIsSettled GrantedIsListed
PROPERTIES OnlyDisassociationForgets
