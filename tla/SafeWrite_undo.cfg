SPECIFICATION Spec
CONSTANTS
    Plans <- MCPlans
    MaxSteps <- MCMaxSteps
    Command <- MCCommand
    SideEffect <- MCSideEffect
    Track <- MCTrack
    Session <- MCSession
    Shape <- MCShape
    Editable = {}
    MaxConn = 1
CHECK_DEADLOCK FALSE
INVARIANTS
    UndoHitsItsTarget
