SPECIFICATION FairMapSpec
CONSTANTS
    Brigades = {0}
    Patrols = {0}
    Places = {1, 2}
    Nowhere = 0
    Near = 1
    MinPixels = 1
    Undefined = Undefined
    MaxViews = 0
    States = {available, travelling}
    MaxPoints = 1
    MaxReports = 3
PROPERTIES StatesShown ImplementsFeed
CHECK_DEADLOCK FALSE
