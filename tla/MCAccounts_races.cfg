SPECIFICATION MCSpec
CONSTANTS
    Logins = {l1, l2, l3, l4}
    Patches = {p1, p2}
    Selfs = {s1, s2}
    Ruleses = {r1}
    Google = {o1, o2}
    GitHub = {g1, g2}
    Emails = {e1, e2}
    Handles = {h1, h2, h3}
    Candidates <- MCCandidates
    UserName <- MCUserName
    OpenMode = FALSE
    None = None
    e1 = e1
    e2 = e2
    h1 = h1
    h2 = h2
    h3 = h3
    g1 = g1
    g2 = g2
    o1 = o1
    o2 = o2
    Casts = {{l1, l2, l3, r1}, {l1, l2, r1, "moves"}, {l1, l2, p1, r1}, {l1, p1, s1, r1}, {l1, l2, s1, r1},
             {l1, l2, l3, l4, "links"}, {l1, l2, l3, p1, "links"}, {l1, l2, l3, s1, "links"}}
    Alike = {l1, l2, l3}
SYMMETRY Symmetry
INVARIANTS
    AdmittedOrFirst
    NewcomersHaveAnId
PROPERTIES
    SettlesOnItself
CHECK_DEADLOCK FALSE
