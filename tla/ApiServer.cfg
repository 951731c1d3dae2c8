CONSTANTS
    Users = {alice, bob}
    Wallets = {w1, w2}
    NoWallet = nowallet
    Forms = {v1, v2}
    Reviews = {g1, g2}
    Creations = {c1}
    Clerks = {g1, g2}
    Offers <- MCOffers
    MintRates = {0, 150}
    Platform = platform
    Elsewhere = elsewhere
    NoContract = nocontract
    Addresses = {here}
    Emails = {carol}
    Logins = {g1, g2}
    Signups = {v1, v2}
    MaxFails = 2
    LockTicks = 2
    Window = 2
    Limit = 6
    MaxRequests = 8
    Tokens = {t1, t2}
    Batch = 2
    MaxBlocks = 4
SPECIFICATION Spec
SYMMETRY Symmetry
CHECK_DEADLOCK FALSE
CONSTRAINTS
    OneAtATime
    FewBindings
INVARIANTS
    ClearedWalletsWereApproved
    SuccessMeansCleared
    LiveWasEarned
    MintFeesAreFounded
    FailuresAreBounded
    EventsAreHandledOnce
