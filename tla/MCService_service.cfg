SPECIFICATION SceneSpec
CONSTANTS
    Scenes = {"sessions", "accounts", "codes", "factor", "guards", "users", "dual", "fee",
              "chat", "panic", "help", "sight", "views", "lists", "acts", "media"}
    Reqs = {r1, r2}
    None = None
    Accounts = {a1}
    MaxTokens = 3
    MaxVersion = 2
    g1 = g1
    g2 = g2
    g3 = g3
    g4 = g4
    e1 = e1
    Emails = {e1}
    Identities = {g1, g2, g3, g4}
    EmailOf <- Asserted
    Verified <- Vouched
    MaxAccounts = 2
    MaxFailed = 1
    Tries = 3
    Ttl = 1
    MaxCodes = 2
    MaxLost = 1
    MaxSecrets = 2
    MaxSets = 2
    CodesPerSet = 1
    Procs = {p1}
    CacheTtl = 2
    MaxSv = 1
    Users = {u1, u2}
    Admins = {u1}
    Team = {m1, m2, m3}
    Requests = {q1, q2}
    Entries = {l1}
    RuleTtl = 2
    TierTtl = 1
    Helpers = {h1}
    MessageKeys = {1, 2, 3}
    Rate = 1
    MaxMessages = 3
    Triggerers = {t1}
    Responders = {u1}
    PanicKeys = {1, 2}
    MaxAlerts = 2
    MaxMemberships = 2
    HelperAccounts = {h1}
    Fronts = {f1}
    RatingKeys = {1, 2}
    Scores = {1, 5}
    MaxOffers = 2
    MaxItems = 2
    Directions = {dN, dS}
    SightingKeys = {1, 2, 3}
    Weights = {1, 2}
    MaxSightings = 3
    MaxSeconds = 1
    ViewHelpers = {h1}
    MaxTurns = 2
    Listed = 2
    Categories = {k1, None}
    PageSize = 1
    Pages = {1, 2}
    CountFloor = 2
    MaxStirs = 1
    Moderators = {o1, o2}
    MaxActs = 1
    Uploads = {b1}
SYMMETRY Symmetry
INVARIANTS
    ServiceTypeOK OneLiveToken RevokedStaysOut NoTakeover ComesBackToSameAccount
    GuessesBounded FactorIsProved LetInWithinTtl TrailNamesTheTwo PeerToPeerVetoed
    RateBounded CooldownHolds EstimateIsTheLogs
    OnlyWhatWasVisible DeskMissesNothing TrailAddsUp LivingRowHasItsObjects
PROPERTIES WipedForItsOwnGuesses LastGrantorGoes KeysKept
CHECK_DEADLOCK FALSE
