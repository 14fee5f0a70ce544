SPECIFICATION SpecRaces
CONSTANTS
    Users = {u1, u2}
    Admins = {u1}
    Emails = {e1, e2}
    Reqs = {1, 2, 3, 4, 5}
    Functions = {f1, f2}
    Apps = {a1}
    AppOwner <- MCAppOwner
    SessionLife = 1
    CodeLife = 1
    CookieLife = 1
    Window = 1
    TokenLife = 1
    MaxTime = 1
    MaxChanges = 1
    None = None
    u1 = u1
    u2 = u2
    a1 = a1
INVARIANTS
    BarredStayOut
    RevokedMintsNothing
PROPERTIES
    DeadStaysDead
    CodesAreSingleUse
CHECK_DEADLOCK FALSE
