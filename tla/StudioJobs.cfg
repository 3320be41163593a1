SPECIFICATION Spec
CONSTANTS
    Job = {j1, j2}
    Request = {q1, q2}
    Key = {k1}
    NoKey = NoKey
    Requested = 2
    MaxRestart = 1
CHECK_DEADLOCK FALSE
INVARIANTS
    TypeOK
    SameKeySameJob
    SucceededIsComplete
    CancelStopsProvider
    AnnouncedEndIsStored
PROPERTIES
    FinishedStays
    JobEnds
