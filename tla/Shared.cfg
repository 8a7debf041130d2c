SPECIFICATION Spec
CONSTANTS
    Procs = {p1, p2}
    Names = {n1, n2, n3}
    last = 2
    Envs <- MCEnvs
    None = None
SYMMETRY Symmetry
INVARIANTS GatewayKept UniqueAddress
PROPERTY KeepsAddress
