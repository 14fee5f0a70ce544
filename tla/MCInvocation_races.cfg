SPECIFICATION MCSpec
CONSTANTS
    Reqs = {r1, r2}
    Conns = {c1, c2}
    Users = {owner, other}
    Owner = owner
    Other = other
    Any = r1
    Vers = {v1}
    ManifestVis <- Undeclared
    Shapes <- MCShapes
    OrgChoices <- MCOrgChoices
    WsChoices = {None, "org"}
    MaxChanges = 1
    Instances = {i1, i2}
    None = None
INVARIANTS
    AdmissionIsExact
    OnlyItsOwnReachesAGuest
    OutputStaysOnInstance
    
PROPERTIES
    EveryRequestIsAnswered
CHECK_DEADLOCK FALSE
