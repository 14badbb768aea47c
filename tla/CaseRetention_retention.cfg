SPECIFICATION Spec
CONSTANTS
    Reqs = {r1, r2}
    Cases = {c1, c2}
    Media = {e1}
    Attachable <- AnyOwner
    Operators = {o1, o2}
    Retention = 1
    OrphanTtl = 1
    MaxPerReport = 1
    Batch = 1
    MaxAsks = 2
    Served <- AllHandlers
    None = None
SYMMETRY Symmetry
CONSTRAINT Narrow
INVARIANTS TypeOK PurgedIsBlank PurgedOnlyAfterRetention
PROPERTIES KeepsCustody ThawByTwo ClockKept
CHECK_DEADLOCK FALSE
