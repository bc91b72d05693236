CONSTANTS
    Requests = {r1, r2}
    Keys = {k1, k2, k3}
    Bodies = {b1, b2}
    MaxEntries = 2
    TTL = 0
    OverrideTTL = 1
    ErrorWindow = 1
    MaxAge = 2
    MaxOrder = 4
SPECIFICATION Spec
PROPERTY
    EvictsOldest
SYMMETRY Symmetry
