SPECIFICATION Spec
CONSTANTS
    Reqs = {r1, r2}
    Cases = {c1}
    Media = {e1}
    Attachable <- AnyOwner
    Operators = {o1, o2}
    Retention = 1
    OrphanTtl = 1
    MaxPerReport = 1
    Batch = 1
    MaxAsks = 1
    Served <- AllHandlers
    None = None
INVARIANTS ResolvedHasClock
CHECK_DEADLOCK FALSE
