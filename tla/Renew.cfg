SPECIFICATION Spec
CONSTANTS
    Procs = {p1, p2}
    Nobody = Nobody
    MaxDocs = 3
    ImportRaces = FALSE
SYMMETRY ProcSymmetry
VIEW View
CHECK_DEADLOCK FALSE
INVARIANTS HeadSafe SendsNoSuperseded NoReuse
PROPERTY ImportKept
