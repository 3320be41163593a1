SPECIFICATION Spec
CONSTANTS
    Plans <- MCPlans
    MaxSteps <- MCMaxSteps
    Command <- MCCommand
    SideEffect <- MCSideEffect
    Track <- MCTrack
    Session <- MCSession
    Shape <- MCShape
    Editable = {"a"}
    MaxConn = 1
CHECK_DEADLOCK FALSE
INVARIANTS
    TypeOK
    WriteAhead
    ClosedIsSettled
    NothingOnTopOfDoubt
    RolledBackUndoesRecorded
    ToldAsJournaled
PROPERTIES
    RunEnds
    ImplementsTransaction
