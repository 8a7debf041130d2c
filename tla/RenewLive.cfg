SPECIFICATION LiveSpec
CONSTANTS
    Procs = {p1, p2, p3}
    Nobody = Nobody
    MaxDocs = 2
    ImportRaces = FALSE
CHECK_DEADLOCK FALSE
PROPERTIES PendingLands OrphanSettled
