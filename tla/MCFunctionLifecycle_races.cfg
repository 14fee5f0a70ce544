SPECIFICATION MCSpec
CONSTANTS
    Deploys = {d1, d2, d3}
    Rollbacks = {b1}
    Deletes = {x1, x2}
    EnvEdits = {e1}
    Invokes = {i1}
    Collectors = {g1}
    Names = {n1, n2}
    Owners = {o1}
    Workspaces = {o1}
    Users = {u1, u2}
    Hashes = {h1, h2}
    Descs = {s1, s2}
    Limit = 1
    None = None
SYMMETRY Symmetry
INVARIANTS
    QuotaRespected
    LiveNamesServe
    DeleteLeavesNothing
    GcKeepsScanned
PROPERTIES
    NamesNeverReused
