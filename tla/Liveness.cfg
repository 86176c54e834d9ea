SPECIFICATION LiveSpec
CONSTANTS
  NoSector = NoSector
  Water <- NoSectors
  Sectors <- Row3
  MaxFuel = 3
  BurnRates = {1, 2}
  ExtinguishThreshold = 1
  Brigades = {b1, b2}
  Foresters = {1}
  TravelTime = 1
  PatrolDwell = 2
  Proactive = TRUE
  SensorSectors <- NoSectors
  DetectionEnabled = TRUE
  MaxHistory = 0
  MaxOrders = 2
  Unlocated = FALSE
INVARIANTS WatchedFireDetected
PROPERTIES CrewsComeHome FiresEnd ForestCovered
CHECK_DEADLOCK FALSE
