CONSTANTS
    Requests = {r1, r2}
    m1 = m1
    m2 = m2
    Models <- MCModels
    ModelLimit <- MCModelLimit
    GlobalLimit = 2
    Rpm = 1
    Tpm = 1
    Window = 2
    MaxCost = 1
    MaxTokens = 1
    NoModel = NoModel
    Threads = {t1, t2, t3}
    WindowSecs = 2
    MaxStall = 1
    Amounts = {0, 1}
    MaxClock = 4
    MaxSpend = 1
SPECIFICATION MCSpec
INVARIANTS
    OverspendBounded
    TokensBounded
    SlidingRpm
    WindowTypeOK
    NoSpendLost
SYMMETRY Symmetry
