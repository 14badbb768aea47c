SPECIFICATION SceneSpec
CONSTANTS
    r1 = r1
    Reqs = {r1, r2}
    m1 = m1
    m2 = m2
    Managers = {m1, m2}
    Capabilities <- Pair
    Requires <- Dependent
    MaxRules = 1
    Gates = {g1}
    Ttl = 1
    Degraded = 2
    Span = 1
    None = None
PROPERTIES LooseningByTwo
CHECK_DEADLOCK FALSE
