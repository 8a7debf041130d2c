SPECIFICATION Spec
CONSTANTS
    Ids = {s1}
    Ptrs = {p1, p2}
    Callers = {c1, c2}
    Entries = {e1, e2}
    None = None
SYMMETRY Symmetry
VIEW View
INVARIANTS AnswersPointer LeavesNothing
