SPECIFICATION Spec
CONSTANTS
  NoSector = NoSector
  Water <- NoSectors
  Sectors <- Row2
  MaxFuel = 2
  BurnRates = {1}
  ExtinguishThreshold = 1
  Brigades = {b1}
  Foresters = {1, 2}
  TravelTime = 1
  PatrolDwell = 2
  Proactive = TRUE
  SensorSectors <- Corner
  DetectionEnabled = TRUE
  MaxHistory = 2
INVARIANTS HistoryConsistent PatrolsSpread
CHECK_DEADLOCK FALSE
