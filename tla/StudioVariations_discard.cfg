SPECIFICATION Spec
CONSTANTS
    r1 = r1
    r2 = r2
    v1 = v1
    v2 = v2
    Request = {r1}
    Variation = {v1, v2}
    Shape <- MCShape
    Count = {1}
    MaxTouches = 1
    MaxServed = 3
INVARIANTS
    DiscardedIsGone
