SPECIFICATION LiveSpec
CONSTANTS
    Reqs = {r1}
    Mediators = {m1, m2}
    HelpOffers = {h1}
    Anonymous = {}
    Reporter = payer
    Amount = 1
    Window = 1
    Retention = 1
    MaxDays = 2
    MaxCriteria = 1
    MaxCharges = 2
    MaxResolutions = 1
    MaxContests = 0
    Logged = {"execute"}
    None = None
PROPERTIES DriftReconciled
CHECK_DEADLOCK FALSE
