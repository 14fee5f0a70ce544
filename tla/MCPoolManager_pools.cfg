SPECIFICATION FairSpec
CONSTANTS
    Keys = {k1, k2}
    Reqs = {r1, r2}
    Workers = {w1, w2}
    MaxPools = 1
    None = None
INVARIANTS
    TrackedXorClosing
    InstanceExclusive
PROPERTIES
    EveryRequestAnswered
    EveryRemovedPoolCloses
