SPECIFICATION Spec
CONSTANTS
    Reqs = {r1, r2}
    Mediators = {m1, m2}
    HelpOffers = {h1, h2, h3}
    Anonymous = {h3}
    Reporter = payer
    Amount = 1
    Window = 1
    Retention = 1
    MaxDays = 1
    MaxCriteria = 1
    MaxCharges = 2
    MaxResolutions = 2
    MaxContests = 1
    Logged = {}
    None = None
SYMMETRY Symmetry
CONSTRAINT Narrow
INVARIANTS TypeOK PaidNeedsVerdict
PROPERTIES TwoPersonRule WindowElapsed KeepsTheEscrow StandingContestBlocks
CHECK_DEADLOCK FALSE
