CONSTANTS
    Requests = {r1, r2, r3}
    Keys = {k1, k2}
    KeyedRequests = {q1, q2, q3}
    IdempotencyKeys = {i1}
    Bodies = {b1, b2}
    TTL = 1
SPECIFICATION MCSpec
PROPERTY
    ClosedMeansNothingSent
