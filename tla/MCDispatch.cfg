CONSTANTS
    Requests = {r1, r2, r3}
    N = 2
    Strategies <- MCStrategies
    RawWeights <- MCWeights
    Nanos = 3
    MaxAttempts = 3
    Delay = 1
    p1 = p1
    p2 = p2
    k1 = k1
    k2 = k2
    Prompts <- MCPrompts
    Models <- MCModels
    KeywordRules <- MCRules
    NoModel = NoModel
    Ttl = 1
    Keys <- MCKeys
    Limits <- MCLimits
    DefaultLimit = 2
    Callers = {c1, c2, c3}
    MaxInserts = 2
SPECIFICATION MCSpec
INVARIANTS
    NoStrayTarget
    RoundRobinBalanced
    WalkOutcome
    HedgeOutcome
    DynamicRouterSafe
PROPERTIES
    LatencyExplores
    EveryCallEnds
CHECK_DEADLOCK FALSE
