---------------------------- MODULE Credentials -----------------------------
(***************************************************************************)
(* Sessions, command-line credentials, access tokens, the single sign-on   *)
(* of function hosts, and how a request is authenticated with each of them *)
(* (src/server/internal/auth, api/cli.go, api/me.go and the SQL            *)
(* repositories under them).                                               *)
(*                                                                         *)
(* A request reads its credential, the user's row and the login rules in   *)
(* separate statements; logout, revocation, the sweep, administrators and  *)
(* other requests run in between.  What a request creates (a session, a    *)
(* code, a credential, a token, a cookie) is named by the request.  A      *)
(* deleted row is kept, not live.                                          *)
(***************************************************************************)
EXTENDS Naturals, FiniteSets

CONSTANTS
    Users, Admins,  \* users, and those with the admin role
    Emails,         \* addresses
    Reqs,           \* HTTP requests
    Functions,      \* functions with a host of their own
    Apps, AppOwner, \* OAuth grants and their owner (OAuthGrants has their life)
    SessionLife,    \* sessionDuration
    CodeLife,       \* cliAuthCodeLifetime, invokeCodeLifetime
    CookieLife,     \* invokeCookieLifetime
    Window,         \* CLICredentialSlidingWindow
    TokenLife,      \* MaxAccessTokenTTL
    MaxTime,        \* bound on the clock
    MaxChanges,     \* bound on the changes to users and rules
    None

ASSUME AdminsAssumption == Admins \subseteq Users /\ AppOwner \in [Apps -> Users]
ASSUME TimesAssumption ==
    {SessionLife, CodeLife, CookieLife, Window, TokenLife, MaxTime, MaxChanges} \subseteq Nat

VARIABLES
    now, changes,
    status, addr,  \* users: user -> status, address
    rules,         \* the addresses the login rules admit
    sessions,      \* sessions: request -> row
    codes,         \* cli_auth_codes
    creds,         \* cli_credentials
    icodes,        \* invoke_auth_codes
    cookies,       \* signed invoke cookies, not stored
    tokens,        \* signed access tokens, not stored
    apps,          \* oauth_grants that are live
    route,         \* request -> its endpoint
    pc,            \* request -> where it is
    kind,          \* request -> how it authenticates
    dev,           \* request -> the device or app it revokes
    key,           \* request -> the request that created its credential
    fn,            \* request -> the function it invokes or signs in to
    usr,           \* request -> the user it has resolved
    at,            \* request -> its time.Now()
    vouched,       \* request -> the addresses it could stand for since it came (a history)
    admitted,      \* request -> the addresses admitted since it came (a history)
    late           \* the mints whose credential was revoked before they touched it (a history)

world == <<now, changes, status, addr, rules, vouched, admitted, late>>
tables == <<sessions, codes, creds, icodes, apps>>
signed == <<cookies, tokens>>
reg == <<kind, key, fn, usr, at, dev>>
vars == <<world, tables, signed, route, pc, reg>>

Routes == {"login", "logout", "authorize", "exchange", "mint", "device", "start", "callback",
           "invoke"}

Nothing == [r \in Reqs |-> None]

\* The requests that are to come; one without a route never does.
InitWith(routes) ==
    /\ now = 0 /\ changes = 0
    /\ status = [u \in Users |-> "active"]
    /\ addr \in [Users -> Emails] /\ \A u, v \in Users : addr[u] = addr[v] => u = v
    /\ rules = Emails
    /\ sessions = Nothing /\ codes = Nothing /\ creds = Nothing /\ icodes = Nothing
    /\ cookies = Nothing /\ tokens = Nothing
    /\ apps = Apps
    /\ route = routes
    /\ pc = [r \in Reqs |-> "start"]
    /\ key = Nothing /\ fn = Nothing /\ usr = Nothing /\ kind = Nothing /\ dev = Nothing
    /\ at = [r \in Reqs |-> 0]
    /\ vouched = [r \in Reqs |-> {}] /\ admitted = [r \in Reqs |-> {}] /\ late = {}

Init == \E routes \in [Reqs -> Routes] : InitWith(routes)

Goto(r, to) == pc' = [pc EXCEPT ![r] = to]
Comes(r, to) == route[r] = to /\ pc[r] = "start"
Live(t, r) == t[r] # None /\ t[r].live
Bury(t, r) == IF t[r] = None THEN t ELSE [t EXCEPT ![r].live = FALSE]

\* What DELETE ... WHERE expires_at <= now leaves of a table.
Swept(t) == [r \in Reqs |-> IF t[r] # None /\ t[r].exp <= now THEN [t[r] EXCEPT !.live = FALSE]
                            ELSE t[r]]

(***************************************************************************)
(* The places of a request by the credential it came with.                 *)
(***************************************************************************)

Strict == {"tokenInvoke", "sessionInvoke", "cookieInvoke"}
Kinds == Strict \cup {"session", "token", "mint"}

\* The credentials an endpoint looks at.
Takes(to) ==
    CASE to \in {"authorize", "device"} -> {"session", "token"}
      [] to = "start" -> {"session"}
      [] to = "mint" -> {"mint"}
      [] to = "invoke" -> Strict
      [] OTHER -> {}

\* Whom a credential stands for: an access token presented to a function is
\* resolved by its email claim, everything else by the user's id.
Subject(how, k, ad) ==
    CASE how \in {"session", "sessionInvoke"} -> {sessions[k].user}
      [] how = "mint" -> {creds[k].user}
      [] how = "token" -> {tokens[k].sub}
      [] how = "cookieInvoke" -> {cookies[k].user}
      [] how = "tokenInvoke" -> {u \in Users : ad[u] = tokens[k].email}

\* validateActiveUser is strict, validateAuthenticatable lets a pending user
\* through.
StatusPasses(how, st) == IF how \in Strict THEN st = "active" ELSE st # "disabled"

\* The addresses of those the credential stands for whose status passes, on
\* the rows of a moment.
Vouched(how, k, st, ad) ==
    {ad[u] : u \in {v \in Subject(how, k, ad) : StatusPasses(how, st[v])}}

\* Requests that are being authenticated.
Checking(r) == pc[r] \in {"user", "rules"}

\* users.email is UNIQUE.
Free(e) == e \notin {addr[v] : v \in Users}

\* Changes by administrators and logins, which a request that is being
\* authenticated may or may not come to see.
Change ==
    /\ changes < MaxChanges
    /\ changes' = changes + 1
    /\ \/ \E u \in Users, s \in {"active", "pending", "disabled"} :
            status' = [status EXCEPT ![u] = s] /\ UNCHANGED <<addr, rules>>
       \/ \E u \in Users, e \in Emails :
            /\ Free(e)
            /\ addr' = [addr EXCEPT ![u] = e] /\ UNCHANGED <<status, rules>>
       \/ \E R \in SUBSET Emails : rules' = R /\ UNCHANGED <<status, addr>>
    /\ vouched' = [r \in Reqs |-> vouched[r] \cup
          (IF Checking(r) THEN Vouched(kind[r], key[r], status', addr') ELSE {})]
    /\ admitted' = [r \in Reqs |-> admitted[r] \cup (IF Checking(r) THEN rules' ELSE {})]
    /\ UNCHANGED <<now, late, tables, signed, pc, reg>>

Tick ==
    /\ now < MaxTime
    /\ now' = now + 1
    /\ UNCHANGED <<changes, status, addr, rules, vouched, admitted, late, tables, signed, pc, reg>>

\* DynamoDB's time to live deletes what has expired; no SQL store calls
\* Sessions().DeleteExpired, so there expired sessions just stay.
Sweep ==
    /\ sessions' = Swept(sessions) /\ codes' = Swept(codes) /\ icodes' = Swept(icodes)
    /\ UNCHANGED <<world, creds, apps, signed, pc, reg>>

(***************************************************************************)
(* Authentication.                                                         *)
(***************************************************************************)

credentialActive(k) ==
    now < (IF creds[k].used = None THEN creds[k].made ELSE creds[k].used) + Window

\* verifyAccessToken.
Verified(k) == tokens[k] # None /\ now < tokens[k].exp

\* parseInvokeCookie: signed for this function's host, and in time.
CookieFits(k, f) == cookies[k] # None /\ cookies[k].fn = f /\ now < cookies[k].exp

\* Sessions().Get: a row that has expired is not found.
SessionFound(k) == Live(sessions, k) /\ sessions[k].exp > now

\* The credential that a request presents is good: Authenticate,
\* MintAccessTokenFromCredential and ResolveInvokeCaller.
Presents(how, k, f) ==
    CASE how \in {"session", "sessionInvoke"} -> SessionFound(k)
      [] how = "mint" -> Live(creds, k) /\ credentialActive(k)
      [] how \in {"token", "tokenInvoke"} -> Verified(k)
      [] how = "cookieInvoke" -> CookieFits(k, f)

Present(r, how, k, f) ==
    /\ pc[r] = "start" /\ how \in Takes(route[r]) /\ Presents(how, k, f)
    /\ f \in IF route[r] = "invoke" THEN Functions ELSE {None}
    /\ kind' = [kind EXCEPT ![r] = how]
    /\ key' = [key EXCEPT ![r] = k]
    /\ fn' = [fn EXCEPT ![r] = f]
    /\ at' = [at EXCEPT ![r] = now]
    /\ vouched' = [vouched EXCEPT ![r] = Vouched(how, k, status, addr)]
    /\ admitted' = [admitted EXCEPT ![r] = rules]
    /\ Goto(r, "user")
    /\ UNCHANGED <<now, changes, status, addr, rules, late, tables, signed, usr, dev>>

\* Mutant: the check that functions rely on only refuses disabled users.
LoadUserLenient(r) ==
    /\ pc[r] = "user"
    /\ \/ /\ Subject(kind[r], key[r], addr) = {}
          /\ Goto(r, "failed") /\ UNCHANGED usr
       \/ \E u \in Subject(kind[r], key[r], addr) :
             IF status[u] = "disabled" THEN Goto(r, "failed") /\ UNCHANGED usr
             ELSE usr' = [usr EXCEPT ![r] = [id |-> u, email |-> addr[u], status |-> status[u]]] /\ Goto(r, "rules")
    /\ UNCHANGED <<world, tables, signed, kind, key, fn, at, dev>>

\* loadActiveUser, loadActiveUserByEmail and ResolveInvokeCookie: the row is
\* read and its status checked, ...
LoadUser(r) ==
    /\ pc[r] = "user"
    /\ \/ /\ Subject(kind[r], key[r], addr) = {}
          /\ Goto(r, "failed") /\ UNCHANGED usr
       \/ \E u \in Subject(kind[r], key[r], addr) :
             IF ~StatusPasses(kind[r], status[u]) THEN Goto(r, "failed") /\ UNCHANGED usr
             ELSE usr' = [usr EXCEPT ![r] = [id |-> u, email |-> addr[u], status |-> status[u]]] /\ Goto(r, "rules")
    /\ UNCHANGED <<world, tables, signed, kind, key, fn, at, dev>>

\* ... then the rules are read and evaluated on the row's address.
CheckRules(r) ==
    /\ pc[r] = "rules"
    /\ Goto(r, IF usr[r].email \notin rules THEN "failed"
               ELSE IF kind[r] = "session" THEN "refresh"
               ELSE IF kind[r] = "mint" THEN "touch"
               ELSE IF kind[r] \in Strict THEN "invoked" ELSE "in")
    /\ UNCHANGED <<world, tables, signed, reg>>

\* Mutant: the refresh inserts the row it does not find.
RefreshUpsert(r) ==
    /\ pc[r] = "refresh"
    /\ sessions' = [sessions EXCEPT ![key[r]].exp = at[r] + SessionLife, ![key[r]].live = TRUE]
    /\ Goto(r, "in")
    /\ UNCHANGED <<world, codes, creds, icodes, apps, signed, reg>>

\* Sessions().Refresh: an error is ignored.
Refresh(r) ==
    /\ pc[r] = "refresh"
    /\ sessions' = IF Live(sessions, key[r])
                   THEN [sessions EXCEPT ![key[r]].exp = at[r] + SessionLife] ELSE sessions
    /\ Goto(r, "in")
    /\ UNCHANGED <<world, codes, creds, icodes, apps, signed, reg>>

\* Mutant: a credential that is gone does not stop the token.
TouchUnchecked(r) ==
    /\ pc[r] = "touch"
    /\ creds' = IF Live(creds, key[r]) THEN [creds EXCEPT ![key[r]].used = at[r]] ELSE creds
    /\ Goto(r, "sign")
    /\ UNCHANGED <<world, sessions, codes, icodes, apps, signed, reg>>

\* CLICredentials().Touch must find the row ...
Touch(r) ==
    /\ pc[r] = "touch"
    /\ IF Live(creds, key[r])
       THEN creds' = [creds EXCEPT ![key[r]].used = at[r]] /\ Goto(r, "sign")
       ELSE Goto(r, "failed") /\ UNCHANGED creds
    /\ UNCHANGED <<world, sessions, codes, icodes, apps, signed, reg>>

\* signAccessToken.
NewToken(r, ttl) ==
    [sub |-> usr[r].id, email |-> addr[usr[r].id], exp |-> now + ttl, from |-> key[r]]

\* ClampAccessTokenTTL: positive, and at most MaxAccessTokenTTL.
TTLs == 1..TokenLife

\* ... before issueAccessToken reads the user again and signs.
Sign(r) ==
    /\ pc[r] = "sign"
    /\ \E ttl \in TTLs : tokens' = [tokens EXCEPT ![r] = NewToken(r, ttl)]
    /\ Goto(r, "done")
    /\ UNCHANGED <<world, tables, cookies, reg>>

(***************************************************************************)
(* What creates and destroys credentials.                                  *)
(***************************************************************************)

\* createSession.
NewSession(u) == [user |-> u, exp |-> now + SessionLife, live |-> TRUE]

\* completeLogin for a user that may sign in.
Login(r, u) ==
    /\ Comes(r, "login") /\ status[u] # "disabled" /\ addr[u] \in rules
    /\ sessions' = [sessions EXCEPT ![r] = NewSession(u)]
    /\ Goto(r, "done")
    /\ UNCHANGED <<world, codes, creds, icodes, apps, signed, reg>>

\* handleLogout needs nothing but the cookie.
Logout(r, k) ==
    /\ Comes(r, "logout") /\ sessions[k] # None
    /\ sessions' = Bury(sessions, k)
    /\ Goto(r, "done")
    /\ UNCHANGED <<world, codes, creds, icodes, apps, signed, reg>>

\* requirePendingApproved: the status is that of the row that was loaded.
Approved(r, to) == route[r] = to /\ pc[r] = "in" /\ usr[r].status # "pending"

\* IssueCLIAuthCode.
NewCode(u) == [user |-> u, exp |-> now + CodeLife, live |-> TRUE]

\* CLIAuthCodes().Create and InvokeAuthCodes().Create: expired codes are
\* deleted and the new one is inserted.
Put(t, r, row) == [Swept(t) EXCEPT ![r] = row]

\* handleCLIAuthorize.
Authorize(r) ==
    /\ Approved(r, "authorize")
    /\ codes' = Put(codes, r, NewCode(usr[r].id))
    /\ Goto(r, "done")
    /\ UNCHANGED <<world, sessions, creds, icodes, apps, signed, reg>>

\* CLIAuthCodes().Consume: what DELETE ... RETURNING finds.
Consumable(k) == Live(codes, k) /\ codes[k].exp > now

\* Mutant: the code is read and deleted when the credential is created.
ExchangeReads(r, k) ==
    /\ Comes(r, "exchange") /\ Consumable(k)
    /\ key' = [key EXCEPT ![r] = k]
    /\ Goto(r, "create")
    /\ UNCHANGED <<world, tables, signed, kind, fn, usr, at, dev>>

\* ExchangeCLICode consumes the code before it compares the verifier.
Exchange(r, k) ==
    /\ Comes(r, "exchange") /\ Consumable(k)
    /\ codes' = Bury(codes, k)
    /\ key' = [key EXCEPT ![r] = k]
    /\ \E to \in {"create", "failed"} : Goto(r, to)
    /\ UNCHANGED <<world, sessions, creds, icodes, apps, signed, kind, fn, usr, at, dev>>

\* CLICredentials().Create.
NewCredential(u) == [user |-> u, made |-> now, used |-> None, live |-> TRUE]

\* handleCLIToken answers with a new credential.
CreateCredential(r) ==
    /\ pc[r] = "create"
    /\ creds' = [creds EXCEPT ![r] = NewCredential(codes[key[r]].user)]
    /\ codes' = Bury(codes, key[r])
    /\ Goto(r, "done")
    /\ UNCHANGED <<world, sessions, icodes, apps, signed, reg>>

\* handleInvokeStart: a code for one function and its managed host.
InvokeStart(r, f) ==
    /\ route[r] = "start" /\ pc[r] = "in"
    /\ icodes' = Put(icodes, r, [user |-> usr[r].id, fn |-> f, exp |-> now + CodeLife, live |-> TRUE])
    /\ Goto(r, "done")
    /\ UNCHANGED <<world, sessions, codes, creds, apps, signed, reg>>

\* signInvokeCookie.
NewCookie(k, f) == [user |-> icodes[k].user, fn |-> f, exp |-> now + CookieLife, from |-> k]

\* InvokeAuthCodes().Consume: what DELETE ... RETURNING finds for a host.
ConsumableAt(k, f) == Live(icodes, k) /\ icodes[k].exp > now /\ icodes[k].fn = f

\* HandleInvokeCallback on the host of f: a code of another function is not
\* found, and stays.
InvokeCallback(r, k, f) ==
    /\ Comes(r, "callback") /\ icodes[k] # None
    /\ IF ~ConsumableAt(k, f) THEN Goto(r, "failed") /\ UNCHANGED <<icodes, key, cookies>>
       ELSE /\ icodes' = Bury(icodes, k)
            /\ key' = [key EXCEPT ![r] = k]
            /\ cookies' = [cookies EXCEPT ![r] = NewCookie(k, f)]
            /\ Goto(r, "done")
    /\ UNCHANGED <<world, sessions, codes, creds, apps, tokens, kind, fn, usr, at, dev>>

\* RevokeDevice("cli"): the user's own, or any id for an administrator.
RevokesCLI(u, id) == u \in Admins \/ (id \in Reqs /\ Live(creds, id) /\ creds[id].user = u)

\* The mints that have looked credential id up and not touched it yet.
Untouched(id) ==
    {q \in Reqs : kind[q] = "mint" /\ key[q] = id /\ pc[q] \in {"user", "rules", "touch"}}

\* handleDeviceDelete: "cli" first, and "oauth" when that is not found.
DeviceDelete(r, id) ==
    LET u == usr[r].id IN
    /\ Approved(r, "device")
    /\ IF RevokesCLI(u, id)
       THEN /\ creds' = IF id \in Reqs THEN Bury(creds, id) ELSE creds
            /\ late' = late \cup Untouched(id)
            /\ Goto(r, "deleted") /\ UNCHANGED apps
       ELSE IF id \in apps /\ AppOwner[id] = u
       THEN apps' = apps \ {id} /\ Goto(r, "deleted") /\ UNCHANGED <<creds, late>>
       ELSE Goto(r, "failed") /\ UNCHANGED <<creds, apps, late>>
    /\ dev' = [dev EXCEPT ![r] = id]
    /\ UNCHANGED <<now, changes, status, addr, rules, vouched, admitted>>
    /\ UNCHANGED <<sessions, codes, icodes, signed, kind, key, fn, usr, at>>

-----------------------------------------------------------------------------

Step ==
    \/ Tick \/ Change \/ Sweep
    \/ \E r, k \in Reqs, how \in Kinds, f \in Functions \cup {None} : Present(r, how, k, f)
    \/ \E r \in Reqs : LoadUser(r) \/ CheckRules(r)
    \/ \E r \in Reqs : Refresh(r) \/ Touch(r) \/ Sign(r) \/ Authorize(r) \/ CreateCredential(r)
    \/ \E r \in Reqs, u \in Users : Login(r, u)
    \/ \E r, k \in Reqs : Logout(r, k) \/ Exchange(r, k)
    \/ \E r \in Reqs, f \in Functions : InvokeStart(r, f)
    \/ \E r, k \in Reqs, f \in Functions : InvokeCallback(r, k, f)
    \/ \E r \in Reqs, id \in Reqs \cup Apps : DeviceDelete(r, id)

Next == Step /\ UNCHANGED route

Spec == Init /\ [][Next]_vars

-----------------------------------------------------------------------------

Session == [user : Users, exp : Nat, live : BOOLEAN]
Credential == [user : Users, made : Nat, used : Nat \cup {None}, live : BOOLEAN]
InvokeCode == [user : Users, fn : Functions, exp : Nat, live : BOOLEAN]
Cookie == [user : Users, fn : Functions, exp : Nat, from : Reqs]
Token == [sub : Users, email : Emails, exp : Nat, from : Reqs]
User == [id : Users, email : Emails, status : {"active", "pending"}]
Places == {"start", "user", "rules", "refresh", "touch", "sign", "in", "invoked", "create",
           "done", "deleted", "failed"}

ASSUME NoneAssumption ==
    None \notin Session \cup Credential \cup InvokeCode \cup Cookie \cup Token \cup User \cup Nat \cup Reqs \cup Kinds

\* Every table and register has its type, and addresses are unique.
TypeOK ==
    /\ now \in 0..MaxTime /\ changes \in 0..MaxChanges
    /\ status \in [Users -> {"active", "pending", "disabled"}]
    /\ addr \in [Users -> Emails] /\ \A u, v \in Users : addr[u] = addr[v] => u = v
    /\ rules \subseteq Emails
    /\ sessions \in [Reqs -> Session \cup {None}] /\ codes \in [Reqs -> Session \cup {None}]
    /\ creds \in [Reqs -> Credential \cup {None}] /\ icodes \in [Reqs -> InvokeCode \cup {None}]
    /\ cookies \in [Reqs -> Cookie \cup {None}] /\ tokens \in [Reqs -> Token \cup {None}]
    /\ apps \subseteq Apps
    /\ route \in [Reqs -> Routes \cup {None}]
    /\ kind \in [Reqs -> Kinds \cup {None}] /\ dev \in [Reqs -> Reqs \cup Apps \cup {None}]
    /\ key \in [Reqs -> Reqs \cup {None}] /\ fn \in [Reqs -> Functions \cup {None}]
    /\ usr \in [Reqs -> User \cup {None}]
    /\ pc \in [Reqs -> Places] /\ at \in [Reqs -> 0..MaxTime]
    /\ vouched \in [Reqs -> SUBSET Emails] /\ admitted \in [Reqs -> SUBSET Emails]
    /\ late \subseteq Reqs

\* A session, code or credential that was logged out, used, revoked or swept
\* stays dead, whatever request had read it before: the sliding refresh and
\* the touch of a request in flight never bring it back.
DeadStaysDead ==
    [][\A r \in Reqs : \A t \in {<<sessions, sessions'>>, <<codes, codes'>>,
                                 <<creds, creds'>>, <<icodes, icodes'>>} :
          t[1][r] # None /\ ~t[1][r].live => ~t[2][r].live]_vars

\* A request is not authenticated for somebody who was disabled (or, towards
\* a function, pending) during all of it, or whose address the rules did not
\* admit during all of it, although status and rules are read at different
\* times and from different rows.  (Both need not have held at one moment: see
\* the README's known races.)
BarredStayOut ==
    \A r \in Reqs : pc[r] \in {"refresh", "touch", "invoked", "in"} =>
        vouched[r] \cap admitted[r] # {}

\* The requests that have touched credential k.
Touches(k) == {q \in Reqs : kind[q] = "mint" /\ key[q] = k /\ pc[q] \in {"sign", "done"}}

\* A credential that is revoked before a mint has touched its row mints no
\* token for that mint, however long before the request had looked it up and
\* found it good (cliauth.go:208); and a token that is minted can be traced: its
\* credential carries the time of this mint, or of one that touched it later.
RevokedMintsNothing ==
    \A r \in Reqs : tokens[r] # None =>
        /\ r \notin late
        /\ \E q \in Touches(key[r]) : creds[key[r]].used = at[q]

\* A known race, which no run checks: a revocation "stops future access-token
\* minting immediately" (me.go:376).  It is broken by Touch(r), DeviceDelete of
\* r's credential, Sign(r): between the two statements nothing looks again.
RevocationStopsMinting ==
    [][\A r \in Reqs : tokens'[r] # tokens[r] => Live(creds, key[r])]_vars

\* The tables of codes, and the requests that profited from each.
Dead(t) == {r \in Reqs : t[r] # None /\ ~t[r].live}
Alive(t) == {r \in Reqs : Live(t, r)}
ExchangesOf(k) == {r \in Reqs : key[r] = k /\ (pc[r] = "create" \/ creds[r] # None)}
CookiesOf(k) == {r \in Reqs : cookies[r] # None /\ cookies[r].from = k}

CLICodes == INSTANCE SingleUse WITH
    Codes <- Reqs, Users <- Reqs, fresh <- Alive(codes), spent <- Dead(codes),
    winner <- [k \in Reqs |-> ExchangesOf(k)]

InvokeCodes == INSTANCE SingleUse WITH
    Codes <- Reqs, Users <- Reqs, fresh <- Alive(icodes), spent <- Dead(icodes),
    winner <- [k \in Reqs |-> CookiesOf(k)]

\* The codes of cli_auth_codes and of invoke_auth_codes are both one-time codes:
\* whoever consumes one first is the only one to get a credential, or a cookie,
\* for it, also when the two exchanges interleave.
CodesAreSingleUse == CLICodes!Spec /\ InvokeCodes!Spec

\* DELETE /me/devices/{id} that succeeds leaves no device and no app of that
\* id (the comment of handleDeviceDelete).
DeletedDeviceIsGone ==
    \A r \in Reqs : pc[r] = "deleted" =>
        dev[r] \notin apps /\ (dev[r] \in Reqs => ~Live(creds, dev[r]))
=============================================================================
