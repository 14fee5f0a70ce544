SPECIFICATION Spec
CONSTANTS
    Clients = {c1}
    Codes = {k1, k2}
    Requests = {r1, r2, r3, r4}
    CodeLife = 1
    Sliding = 2
    MaxLife = 2
    UnusedTTL = 1
    MaxTime = 2
    None = None
SYMMETRY Symmetry
INVARIANTS
    RedeemedOnce
    ReusedSecretIsDead
PROPERTIES
    RenewedInTime
