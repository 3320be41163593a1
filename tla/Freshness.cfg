SPECIFICATION Spec
CONSTANTS
    t1 = t1
    t2 = t2
    Track = {t1, t2}
    MaxChanges = 2
    Sent = {"set_track_monitoring", "execute_mutation_batch", "delete_track"}
    Edited = {"routing"}
SYMMETRY Symmetry
INVARIANTS
    TypeOK
    ReadNotAhead
    SessionGuarantees
PROPERTIES
    NoRevival
CHECK_DEADLOCK FALSE
