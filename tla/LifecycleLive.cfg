SPECIFICATION FairSpec
CONSTANTS
    Brokers = {b1, b2}
    Clients = {c1, c2}
    Ids = {s1}
    Nobody = Nobody
    Stale = Stale
    Attempts = 3
    Envs <- CalmEnvs
PROPERTY IdleStops
