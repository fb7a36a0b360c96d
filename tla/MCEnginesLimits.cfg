SPECIFICATION EngineSpec
CONSTANTS
    Subjects = {"sidecar", "transaction", "holdings"}
    Askers = {q1, q2}
    Ledgers = {la, lb}
    Symbols = {x, y}
    Today = 2
    NoEntry = none
    NoOne = noone
    ReadsFail = TRUE
    MaxAsks = 2
    MaxMoves = 1
    Builders = {b1, b2, b3}
    Keys = {k1, k2, k3, k4}
    NoKey = nokey
    SIDES = 2
    Brokers = {ba, bb}
    Quantities <- TheQuantities
    UnitCosts = {1, 2}
    Bare = bare
    Foreign = foreign
    MaxTxns = 3
    usd = usd
    eur = eur
    jpy = jpy
    top = top
    sub = sub
    Commodities = {usd, eur, jpy}
    Kept = {usd, eur}
    Groups = {"real", "balanced"}
    Amounts <- TheAmounts
    Elided = elided
    Accounts = {top, sub}
    Within <- TheWithin
    Steps <- TheSteps
    Days = {1, 2}
    Assertions <- TheAssertions
    NoAssertion = none
    MaxPostings = 3
    MaxLines = 3
    Txns = {t1, t2, t3}
    Newcomer = t4
    PageSize = 1
    PageAhead = 1
    Changes = {"fix"}
    MayFail = {}
    Overlap = FALSE
    MaxChanges = 1
    MaxReviewSaves = 2
    MaxSimilar = 1
    MaxDrafts = 1
    Nil = Nil
    Sizes = {0, 1, 2}
    PipeSize = 1
    MaxOutput = 1
CHECK_DEADLOCK FALSE
\* None of these holds: to see the counterexample of one, leave the others out.
INVARIANTS
    DiscrepanciesShow
    ClosedHasNoBasis
    UnmarkedLinesCover
PROPERTIES
    CacheIsNotLost
