SPECIFICATION PageSpec
CONSTANTS
    k1 = k1
    k2 = k2
    d1 = d1
    d2 = d2
    e1 = e1
    e2 = e2
    r1 = r1
    r2 = r2
    p1 = p1
    a = a
    b = b
    Projects = {a, b}
    Begins = {1}
    JobCount = 3
    PollCount = 1
    Keys = {k1, k2}
    Defs = {d1, d2}
    Envs = {e1, e2}
    Deployments = {p1}
    Requests = {r1, r2}
    None = None
    SlotCount = 2
    Settings <- MCSettings
INVARIANTS MirrorFresh DeploymentsExist PageTrue
PROPERTIES SuccessMirrors PageEnds
CHECK_DEADLOCK FALSE
