CONSTANTS
    Requests = {r1, r2, r3}
    FailureThreshold = 2
    BaseBackoff = 1
    MaxBackoff = 3
    MaxOpenCount = 2
SPECIFICATION FairSpec
PROPERTY
    SlotFreed
