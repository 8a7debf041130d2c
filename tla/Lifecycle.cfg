SPECIFICATION Spec
CONSTANTS
    Brokers = {b1, b2, b3}
    Clients = {c1, c2}
    Ids = {s1, s2}
    Nobody = Nobody
    Stale = Stale
    Attempts = 2
    Envs <- MCEnvs
SYMMETRY Symmetry
INVARIANTS ServingOwnsDir RegisteredServed ForgottenRefused
