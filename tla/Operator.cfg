SPECIFICATION Spec
CONSTANTS
    Rows = 1
    Columns = 2
    Side = 10
    Units <- OneOfEach
    Null = Null
    MaxUpdates = 1
INVARIANTS OrdersReachSector SelectionIsLastClick SwitchNeverOverstates StepsOfferedInPause
CHECK_DEADLOCK FALSE
