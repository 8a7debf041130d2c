SPECIFICATION Spec
CONSTANTS
    n1 = n1
    n2 = n2
    n3 = n3
    u = u
    v1 = v1
    v2 = v2
    v3 = v3
    Procs = {p1, p2}
    Names <- MCNames
    lands <- MCLands
    VMs = {v1, v2, v3}
    Unnamed = {u}
    Envs <- SerialEnvs
    None = None
    Absent = Absent
INVARIANT OneHome
PROPERTY KeepsSessions
