SPECIFICATION Spec
CONSTANTS
    Reqs = {r1, r2}
    Mediators = {m1, m2}
    HelpOffers = {h1}
    Anonymous = {}
    Reporter = payer
    Amount = 1
    Window = 1
    Retention = 3
    MaxDays = 2
    MaxCriteria = 1
    MaxCharges = 1
    MaxResolutions = 2
    MaxContests = 0
    Logged = {}
    None = None
SYMMETRY Symmetry
INVARIANTS PaidMeansReleased
CHECK_DEADLOCK FALSE
