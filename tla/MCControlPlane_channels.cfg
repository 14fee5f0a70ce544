SPECIFICATION MCSpec
CONSTANTS
    adm = adm
    mem = mem
    c1 = c1
    c2 = c2
    c3 = c3
    None = None
    Users = {adm, mem}
    Calls = {c1, c2, c3}
    Fns = {"uf", "wf"}
    Vers = {"u1", "w1", "w2"}
    Servers = {s1, s2}
    OwnerOf <- MCOwnerOf
    VersionOf <- MCVersionOf
    FileSizes <- MCFileSizes
    Requests <- MCRequests
    Starts <- MCStarts
    Moves <- MCMoves
    MaxChanges = 1
    MaxPerUser = 1
    MaxGlobal = 1
    Budget = 3
    BodyCap = 2
    Chunks = {1, 2}
    MaxWritten = 3
SYMMETRY Symmetry
INVARIANTS
    ActsArePermitted
    RefusalsAreDue
    OutsidersLearnNothing
    AnswersAreTrue
PROPERTIES
    LastAdminStays
CHECK_DEADLOCK FALSE
