SPECIFICATION MCSpec
CONSTANTS
    f1 = f1  f2 = f2  f3 = f3  f4 = f4
    v1 = v1  v2 = v2
    u1 = u1  u2 = u2
    s1 = s1  s2 = s2  s3 = s3
    h1 = h1  h2 = h2
    w1 = w1
    g1 = g1
    c1 = c1  c2 = c2  c3 = c3  c4 = c4
    Fns = {f1, f2, f3, f4}
    OwnerOf <- MCOwnerOf
    NameOf <- MCNameOf
    CreatorOf <- MCCreatorOf
    Age <- MCAge
    Legacy = {f1, f2}
    Vers = {v1, v2}
    Users = {u1, u2}
    Subjects = {s1, s2, s3}
    OldUsers = {u1, u2}
    GoogleSub <- MCGoogleSub
    Handles = {h1, h2}
    OldHandles = {h1}
    Workspaces = {w1}
    Grants = {g1}
    Calls = {c1, c2, c3, c4}
    Limit = 2
    MaxCrashes = 1
    Nil = Nil
INVARIANTS
    WholeWhileNamed
    CounterCovers
PROPERTIES
    MigrateHeals
    ClaimsAreForGood
    SecretsAreSingleUse
CHECK_DEADLOCK FALSE
