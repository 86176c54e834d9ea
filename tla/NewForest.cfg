SPECIFICATION DrawingSpec
CONSTANTS
    Points <- Presses
    World = 8
    Limit = 2
    Parts = 2
    Numbers <- Halves
    Undefined = Undefined
INVARIANTS CreatedAsShown
CHECK_DEADLOCK FALSE
