SPECIFICATION Spec
CONSTANTS
    Plans <- MCPlans
    MaxSteps <- MCMaxSteps
    Command <- MCCommand
    SideEffect <- MCSideEffect
    MaxConn = 1
CHECK_DEADLOCK FALSE
INVARIANTS
    TypeOK
    AppliedRowsAreTrue
    CompleteIsSettled
    NoDependentWriteAfterDoubt
    FailedBeforeSentNothing
PROPERTIES
    BatchEnds
