SPECIFICATION Spec
CONSTANTS
    Null = Null
    MaxAsked = 3
    Rows = 1
    Columns = 2
    Side = 2
    Points <- InsideAndBorder
    Kept = 2
INVARIANTS IdsUnique FilesApart ListedOnce SettingsOfFile OneSimSettings ListIsCurrent
CHECK_DEADLOCK FALSE
