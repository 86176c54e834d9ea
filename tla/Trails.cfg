SPECIFICATION MapSpec
CONSTANTS
    Brigades = {0}
    Patrols = {}
    Places = {1, 2, 3, 5}
    Nowhere = 0
    Near = 2
    MinPixels = 2
    Undefined = Undefined
    MaxViews = 2
    States = {available}
    MaxPoints = 2
    MaxReports = 4
INVARIANT TrailsComplete
CHECK_DEADLOCK FALSE
