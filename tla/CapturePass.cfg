SPECIFICATION Spec
CONSTANT N = 2
INVARIANTS
    TypeOK
    SuccessIsClean
    VerifiedIsBack
    SettledAtEnd
    ToldToRestore
PROPERTIES
    VerdictStands
    JournalCloses
CHECK_DEADLOCK FALSE
