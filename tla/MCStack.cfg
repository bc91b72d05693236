CONSTANTS
    Requests = {r1, r2}
    Configs <- MCConfigs
    NumHooks = 2
    Duration = 1
    Interval = 1
    UnhealthyAfter = 2
    HealthyAfter = 2
    KindsOf <- MCKindsOf
    r1 = r1
    r2 = r2
    NoCooldown = NoCooldown
SPECIFICATION FairSpec
INVARIANTS
    RefusedNotSent
    UsageReportedOnce
PROPERTIES
    CooldownKept
    ServedAgain
