SPECIFICATION Spec
CONSTANTS
    Procs = {p1, p2, p3}
    Names = {n1, n2}
    last = 2
    Envs <- SameEnvs
    None = None
SYMMETRY Symmetry
INVARIANT NoDuplicate
