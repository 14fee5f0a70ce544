SPECIFICATION MCSpec
CONSTANTS
    OrgPatches = {a1, a2}
    WsPatches = {b1, b2}
    Creates = {w1, w2}
    WsDeletes = {x1}
    MemberEdits = {m1, m2}
    Deploys = {d1}
    Resolvers = {r1, r2}
    Users = {u1, u2}
    Casts = {{a1, b1, w1, d1, r1}, {b1, w1, x1, d1, r1}, {a1, r1, r2}, {w1, w2, x1, m1, m2}, {a1, a2, r1}, {b1, b2, w1, d1, r1}}
    MaxGen = 3
    Hosts <- MCHosts
    Policies <- MCPolicies
    Manifest <- MCManifest
    h1 = h1
    h2 = h2
    User = User
    None = None
SYMMETRY Symmetry
INVARIANTS
    NoStalePermission
    CacheMatchesRows
    MembersHaveWorkspace
