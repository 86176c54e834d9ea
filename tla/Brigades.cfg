SPECIFICATION Spec
CONSTANTS
  NoSector = NoSector
  Water <- NoSectors
  Sectors <- Row3
  MaxFuel = 4
  BurnRates = {1}
  ExtinguishThreshold = 2
  Brigades = {b1, b2}
  Foresters = {}
  TravelTime = 2
  PatrolDwell = 1
  Proactive = TRUE
  SensorSectors <- NoSectors
  DetectionEnabled = TRUE
  MaxHistory = 0
SYMMETRY CrewSymmetry
INVARIANTS TypeOK ExtinguishersAtFire MissionsToFires PictureTellsState
PROPERTIES CrewHoldsFire
CHECK_DEADLOCK FALSE
