SPECIFICATION FairSpec
CONSTANTS
    Brigades = {1}
    Patrols = {1}
    Places = {1, 2}
    Nowhere = 0
    States = {available, travelling}
    Null = Null
    Sectors = {1}
    Levels = {0, 1}
    MaxChanges = 2
    MaxWire = 1
INVARIANTS RecommendationsComplete
PROPERTIES Converges
CHECK_DEADLOCK FALSE
