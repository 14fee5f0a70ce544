---------------------------- MODULE ControlPlane ----------------------------
(***************************************************************************)
(* The three ways into the management of functions and users: the REST API *)
(* (src/server/internal/api), the tools of the MCP server (src/server/     *)
(* internal/mcpserver) and the dashboard (src/server/internal/dashboard),  *)
(* whose guest code calls the API in process.  All three end in the same   *)
(* use cases and the same rules (src/server/internal/authz), but each one  *)
(* finds out who is calling in its own way and at its own time.            *)
(*                                                                         *)
(* Calls run at once, and every read of the store is a step of its own.    *)
(* FunctionLifecycle has the details of deploying and deleting,            *)
(* OrgSettings those of settings, members and roles, Credentials those of  *)
(* cookies and tokens, and Invocation those of invoking.  Here, a user is  *)
(* kept out by being disabled; the login rules have the same effect.       *)
(***************************************************************************)
EXTENDS Integers, FiniteSets, Sequences, SequencesExt

CONSTANTS
    Users, Calls, Fns,
    Vers,           \* the versions there are at first; a deploy makes one more
    Servers,        \* the mcp.Servers, one to a session
    OwnerOf,        \* function -> the user that owns it, or "workspace"
    VersionOf,      \* version in Vers -> its function
    FileSizes,      \* version in Vers -> the sizes of its files, sorted by path
    Requests,       \* call -> what it may ask
    Starts,         \* {[users, members, conf, active]}: how things may be at first,
                    \* every function deployed
    Moves,          \* [members, conf]: how members and settings may become
    MaxChanges,     \* bound on those changes
    MaxPerUser, MaxGlobal,   \* mcpMaxSessionsPerUser, mcpMaxSessionsGlobal
    Budget, BodyCap,         \* getFunctionFilesBudget, invokeFunctionBodyCap
    Chunks, MaxWritten,      \* sizes of a guest's writes, and a bound on their sum
    None

ASSUME CapsAssumption ==
    /\ {MaxPerUser, MaxGlobal, Budget, BodyCap, MaxWritten, MaxChanges} \subseteq Nat
    /\ Chunks \subseteq Nat
    /\ IsFiniteSet(Servers)

VARIABLES
    users,     \* user -> [role, status]
    members,   \* user -> the role in the workspace, or None
    conf,      \* [memberCanDeploy, allowUserFunctions, mcpEnabled]
    fns,       \* function -> [active, rows: its versions], or None once deleted: no name is reused
    changes,
    servers,   \* mcp.Server -> [st, user, admin: it has the admins' tools]
    sessions,  \* Handler.sessions: the mcp.Servers it counts
    dash,      \* the dashboard's pool: "none", "pool" or "err"
    call,      \* call -> where it is and what it knows
    seen       \* call -> what each thing it depends on has been since it began

store == <<users, members, conf, fns, changes>>
mcp == <<servers, sessions>>
vars == <<users, members, conf, fns, changes, servers, sessions, dash, call, seen>>

Roles == {"admin", "workspace_manager", "member"}
Statuses == {"active", "pending", "disabled"}

\* What is asked of one function: its details, its logs or versions, its source
\* (from MCP alone) and changes; of all functions, or those of one owner; and of
\* what is for admins alone, the users or the audit log.
Reads == {"get", "logs"}
Lists == {"list", "listOwner"}
FnOps == Reads \cup {"files", "rollback", "delete", "setenv"}
Deploys == {"deploy", "dryrun"}
OrgOps == {"users", "auditLogs", "patch"}
Mutations == {"rollback", "delete", "setenv", "deploy", "dryrun", "patch"}

\* A request names a credential: a session cookie, a token for everything, or
\* one for MCP alone.  "own": it has the origin and the CSRF header of the
\* dashboard's own pages.  "ver" and "to" say what to activate or to write.
Request ==
    [user : Users, via : {"rest", "mcp", "dash"}, cred : {"cookie", "token", "mcpToken"},
     own : BOOLEAN, op : FnOps \cup Lists \cup Deploys \cup OrgOps \cup {"invoke"},
     fn : Fns, ver : Vers \cup {None}, bad : BOOLEAN, target : Users,
     to : [role : Roles \cup {None}, status : Statuses \cup {None}]]

ASSUME RequestsAssumption ==
    \A c \in Calls : \A r \in Requests[c] :
        r \in Request /\ (r.op \in {"rollback", "deploy"} => r.ver # None)

\* The rows of users, of the settings and of functions.
UserRow == [role : Roles, status : Statuses]
WsRoles == {None, "admin", "member"}
Conf == [memberCanDeploy : BOOLEAN, allowUserFunctions : BOOLEAN, mcpEnabled : BOOLEAN]
FnRow == [active : Vers \cup Calls, rows : SUBSET (Vers \cup Calls)]

ASSUME RowsAssumption ==
    /\ OwnerOf \in [Fns -> Users \cup {"workspace"}] /\ "workspace" \notin Users
    /\ VersionOf \in [Vers -> Fns] /\ Vers \cap Calls = {}
    /\ Starts \subseteq [users : [Users -> UserRow], members : [Users -> WsRoles], conf : Conf,
                        active : [Fns -> Vers]]
    /\ \A st \in Starts : \A f \in Fns : VersionOf[st.active[f]] = f
    /\ Moves \in [members : SUBSET WsRoles, conf : SUBSET Conf]

\* What a call may be answered, and NULL is nothing of all this.
Answers == {"ok", "off", "unauthorized", "pending", "csrf", "closed", "unknown", "unavailable",
            "expired", "notFound", "forbidden", "conflict", "invalid", "denied", "failed"}

ASSUME NoneAssumption ==
    None \notin Users \cup Vers \cup Servers \cup Calls \cup Roles \cup Statuses
             \cup Answers \cup Request \cup UserRow \cup FnRow \cup BOOLEAN

-----------------------------------------------------------------------------
(***************************************************************************)
(* The rules, on what a caller was found to be.                            *)
(***************************************************************************)

IsOrgAdmin(a) == a.role = "admin"

CanUpdateOrgSettings(a) == IsOrgAdmin(a)

CanDeployToWorkspace(a, wsRole, memberCanDeploy) ==
    \/ IsOrgAdmin(a)
    \/ wsRole = "admin"
    \/ wsRole = "member" /\ memberCanDeploy

CanDeployPersonal(a, owner, allowUserFunctions) ==
    IsOrgAdmin(a) \/ (allowUserFunctions /\ a.id = owner)

\* Mutant: the organization's admins need a membership too.
CanManageByMembership(a, owner, wsRole, memberCanDeploy) ==
    IF owner = "workspace" THEN wsRole = "admin" \/ (wsRole = "member" /\ memberCanDeploy)
    ELSE IsOrgAdmin(a) \/ a.id = owner

CanManageFunction(a, owner, wsRole, memberCanDeploy) ==
    IF owner = "workspace" THEN CanDeployToWorkspace(a, wsRole, memberCanDeploy)
    ELSE IsOrgAdmin(a) \/ a.id = owner

CanView(a, owner) ==
    \/ IsOrgAdmin(a)
    \/ IF owner = "workspace" THEN members[a.id] # None ELSE a.id = owner

-----------------------------------------------------------------------------
(***************************************************************************)
(* Calls.                                                                  *)
(***************************************************************************)

Idle == [pc |-> "idle", req |-> None, server |-> None, actor |-> None, token |-> None,
         row |-> None, mcd |-> None, auf |-> None,
         out |-> [kept |-> 0, total |-> 0, cut |-> FALSE], shown |-> {}, ans |-> None]

NoView == [rows |-> {}, roles |-> {}, mcd |-> {}, auf |-> {}, fn |-> {}, admins |-> {}]

\* countOtherActiveAdmins counts among these.
ActiveAdmins == {u \in Users : users[u] = [role |-> "admin", status |-> "active"]}

At(c, pc, via) == call[c].pc = pc /\ call[c].req.via = via

Goto(c, pc) == call' = [call EXCEPT ![c].pc = pc]

Answer(c, a) == call' = [call EXCEPT ![c].pc = "done", ![c].ans = a]

\* What call c has been able to find since it began, now that things change.
Watch ==
    seen' = [c \in Calls |->
        IF call[c].pc \in {"idle", "done", "over"} THEN seen[c]
        ELSE LET r == call[c].req IN
             [rows  |-> seen[c].rows \cup {users'[r.user]},
              roles |-> seen[c].roles \cup {members'[r.user]},
              mcd   |-> seen[c].mcd \cup {conf'.memberCanDeploy},
              auf   |-> seen[c].auf \cup {conf'.allowUserFunctions},
              fn    |-> seen[c].fn \cup {fns'[r.fn]},
              admins |-> seen[c].admins \cup {ActiveAdmins'}]]

\* MCP's Enabled is asked for every request to /mcp as it comes.
Begin(c) ==
    /\ call[c].pc = "idle"
    /\ \E r \in Requests[c] :
        /\ \E s \in (IF r.via = "mcp" THEN {t \in Servers : servers[t].st \in {"live", "closed"}}
                     ELSE {None}) :
              call' = [call EXCEPT ![c] =
                  [Idle EXCEPT !.req = r, !.server = s,
                      !.pc = IF r.via = "mcp" /\ ~conf.mcpEnabled THEN "done" ELSE "auth",
                      !.ans = IF r.via = "mcp" /\ ~conf.mcpEnabled THEN "off" ELSE None]]
        /\ seen' = [seen EXCEPT ![c] =
              [rows |-> {users[r.user]}, roles |-> {members[r.user]},
               mcd |-> {conf.memberCanDeploy}, auf |-> {conf.allowUserFunctions},
               fn |-> {fns[r.fn]}, admins |-> {ActiveAdmins}]]
    /\ UNCHANGED <<store, mcp, dash>>

\* Whoever the row says, unless it bars the user.
Actor(u) == [id |-> u, role |-> users[u].role]

(***************************************************************************)
(* REST: Middleware, requirePendingApproved and RequireCSRF, then route.   *)
(***************************************************************************)

Authenticate(r) == r.cred \in {"cookie", "token"} /\ users[r.user].status # "disabled"

RequireCSRF(r) == r.op \in Mutations /\ r.cred = "cookie" => r.own

ServeREST(c) ==
    LET r == call[c].req IN
    /\ At(c, "auth", "rest")
    /\ CASE ~Authenticate(r) -> Answer(c, "unauthorized")
         [] Authenticate(r) /\ users[r.user].status = "pending" -> Answer(c, "pending")
         [] Authenticate(r) /\ users[r.user].status = "active" ->
              IF RequireCSRF(r)
              THEN call' = [call EXCEPT ![c].pc = "op", ![c].actor = Actor(r.user)]
              ELSE Answer(c, "csrf")
    /\ UNCHANGED <<store, mcp, dash, seen>>

(***************************************************************************)
(* MCP.  A session is opened first; its calls come with a token each, and  *)
(* run on a goroutine of the session, which looks at that token again.     *)
(***************************************************************************)

authenticateHeader(r) ==
    r.cred \in {"token", "mcpToken"} /\ users[r.user].status = "active"

\* The sessions counted once those without a live session are dropped: also the
\* ones that are still on their way to Connect.
pruneClosedSessions == {s \in sessions : servers[s].st = "live"}

Refuses(u) ==
    LET kept == pruneClosedSessions IN
    \/ Cardinality(kept) >= MaxGlobal
    \/ Cardinality({s \in kept : servers[s].user = u}) >= MaxPerUser

\* registerTools: the admins' tools are there for who is one now.
getServer(s, u) ==
    /\ servers[s].st = "free" /\ conf.mcpEnabled /\ users[u].status = "active"
    /\ IF Refuses(u)
       THEN sessions' = pruneClosedSessions /\ UNCHANGED servers
       ELSE /\ servers' = [servers EXCEPT ![s] =
                  [st |-> "opening", user |-> u, admin |-> CanUpdateOrgSettings(Actor(u))]]
            /\ sessions' = pruneClosedSessions \cup {s}
    /\ UNCHANGED <<store, dash, call, seen>>

Connect(s) ==
    /\ servers[s].st = "opening"
    /\ \E st \in {"live", "closed"} : servers' = [servers EXCEPT ![s].st = st]
    /\ UNCHANGED <<store, sessions, dash, call, seen>>

\* The client ends the session, or it has been idle for too long.
Close(s) ==
    /\ servers[s].st = "live"
    /\ servers' = [servers EXCEPT ![s].st = "closed"]
    /\ UNCHANGED <<store, sessions, dash, call, seen>>

\* The SDK knows the owner of a session and lets nobody else in.
ServeMCP(c) ==
    LET r == call[c].req IN
    /\ At(c, "auth", "mcp")
    /\ CASE ~authenticateHeader(r) -> Answer(c, "unauthorized")
         [] authenticateHeader(r) /\ servers[call[c].server].st # "live" -> Answer(c, "closed")
         [] authenticateHeader(r) /\ servers[call[c].server].st = "live" ->
              IF servers[call[c].server].user = r.user THEN Goto(c, "tool") ELSE Answer(c, "closed")
    /\ UNCHANGED <<store, mcp, dash, seen>>

Registered(r, s) == r.op \in OrgOps => servers[s].admin

\* Mutant: the tool goes by what was known when the session was opened.
requireActorOfSession(c) ==
    LET s == servers[call[c].server] IN
    /\ At(c, "tool", "mcp")
    /\ IF ~Registered(call[c].req, call[c].server) THEN Answer(c, "unknown")
       ELSE call' = [call EXCEPT ![c].pc = "op",
                ![c].actor = [id |-> s.user, role |-> IF s.admin THEN "admin" ELSE "member"]]
    /\ UNCHANGED <<store, mcp, dash, seen>>

requireActor(c) ==
    LET r == call[c].req IN
    /\ At(c, "tool", "mcp")
    /\ IF ~Registered(r, call[c].server) THEN Answer(c, "unknown")
       ELSE IF authenticateHeader(r)
            THEN call' = [call EXCEPT ![c].pc = "op", ![c].actor = Actor(r.user)]
            ELSE Answer(c, "unauthorized")
    /\ UNCHANGED <<store, mcp, dash, seen>>

(***************************************************************************)
(* The dashboard: the cookie says who it is, a token signed for this       *)
(* request alone carries that through the guest, and each internalAPI call *)
(* goes by its token.                                                      *)
(***************************************************************************)

\* The pool is built when it is first needed, and again if server.js is seen to have
\* changed on disk; an error stays.
ensurePool(changed, ok) ==
    IF dash = "err" \/ (dash = "pool" /\ ~changed) THEN dash
    ELSE IF ok THEN "pool" ELSE "err"

ServeDashboard(c) ==
    LET r == call[c].req IN
    /\ At(c, "auth", "dash")
    /\ IF r.cred # "cookie" \/ users[r.user].status = "disabled"
       THEN Answer(c, "unauthorized") /\ UNCHANGED dash
       ELSE IF users[r.user].status = "pending"
       THEN Answer(c, "pending") /\ UNCHANGED dash
       ELSE \E changed, ok \in BOOLEAN :
              /\ dash' = ensurePool(changed, ok)
              /\ IF dash' = "err" THEN Answer(c, "unavailable")
                 ELSE call' = [call EXCEPT ![c].pc = "guest", ![c].token = Actor(r.user)]
    /\ UNCHANGED <<store, mcp, seen>>

internalAPI(c) ==
    /\ At(c, "guest", "dash")
    /\ call' = [call EXCEPT ![c].pc = "op", ![c].actor = call[c].token]
    /\ UNCHANGED <<store, mcp, dash, seen>>

\* callerTokenTTL has passed, or the guest ends without a call.
Expire(c) ==
    /\ At(c, "guest", "dash")
    /\ Answer(c, "expired")
    /\ UNCHANGED <<store, mcp, dash, seen>>

-----------------------------------------------------------------------------
(***************************************************************************)
(* The use cases, with the actor that the call came with.                  *)
(***************************************************************************)

Owner(c) == OwnerOf[call[c].req.fn]

\* Functions.Resolve, by owner and name.
ResolvedTo(c, next) ==
    LET f == fns[call[c].req.fn] IN
    IF f = None THEN Answer(c, "notFound")
    ELSE call' = [call EXCEPT ![c].pc = next, ![c].row = f]

Resolve(c) ==
    /\ call[c].pc = "op" /\ call[c].req.op \in FnOps \ {"setenv"}
    /\ ResolvedTo(c, "view")
    /\ UNCHANGED <<store, mcp, dash, seen>>

\* handleSetEnv and handleDeleteEnv do without ResolveVisible.
ResolveForEnv(c) ==
    /\ call[c].pc = "op" /\ call[c].req.op = "setenv"
    /\ ResolvedTo(c, "settings")
    /\ UNCHANGED <<store, mcp, dash, seen>>

\* Mutant: changes go straight to CanManage.
ResolveForChange(c) ==
    /\ call[c].pc = "view"
    /\ IF call[c].req.op \notin Reads THEN Goto(c, "settings")
       ELSE IF CanView(call[c].actor, Owner(c)) THEN Goto(c, "show") ELSE Answer(c, "notFound")
    /\ UNCHANGED <<store, mcp, dash, seen>>

\* ResolveVisible: what may not be seen is not there.
ResolveVisible(c) ==
    /\ call[c].pc = "view"
    /\ IF CanView(call[c].actor, Owner(c))
       THEN Goto(c, IF call[c].req.op \in Reads THEN "show" ELSE "settings")
       ELSE Answer(c, "notFound")
    /\ UNCHANGED <<store, mcp, dash, seen>>

\* deploy_function looks at the files it is given, and Deploy at the bundle, before
\* either asks who is calling.
Malformed(r) == r.bad

\* Deploy reads the organization's settings before all else; a dry run ends
\* before it asks whose the function is.
Deploy(c) ==
    LET r == call[c].req IN
    /\ call[c].pc = "op" /\ r.op \in Deploys
    /\ IF Malformed(r) THEN Answer(c, "invalid")
       ELSE IF r.op = "dryrun" THEN Answer(c, "ok")
       ELSE call' = [call EXCEPT ![c].pc = "settings", ![c].auf = conf.allowUserFunctions]
    /\ UNCHANGED <<store, mcp, dash, seen>>

\* CanManage and authorizeDeploy read the workspace's settings first ...
LoadWorkspace(c) ==
    /\ call[c].pc = "settings"
    /\ call' = [call EXCEPT ![c].pc = "manage", ![c].mcd = conf.memberCanDeploy]
    /\ UNCHANGED <<store, mcp, dash, seen>>

\* ... and then the caller's role in it.
authorizeDeploy(c) ==
    IF Owner(c) = "workspace"
    THEN CanDeployToWorkspace(call[c].actor, members[call[c].actor.id], call[c].mcd)
    ELSE CanDeployPersonal(call[c].actor, Owner(c), call[c].auf)

CanManage(c) ==
    CanManageFunction(call[c].actor, Owner(c), members[call[c].actor.id], call[c].mcd)

Manage(c) ==
    LET op == call[c].req.op IN
    /\ call[c].pc = "manage"
    /\ IF (IF op = "deploy" THEN authorizeDeploy(c) ELSE CanManage(c))
       THEN Goto(c, IF op = "files" THEN "show" ELSE "act")
       ELSE Answer(c, "forbidden")
    /\ UNCHANGED <<store, mcp, dash, seen>>

\* The versions in the store, and the size of their files: a deploy gives its
\* version the files of the one it names.
Stored == UNION {fns[f].rows : f \in {g \in Fns : fns[g] # None}}

Sizes(v) == FileSizes[IF v \in Vers THEN v ELSE call[v].req.ver]

\* resolveVersion: the version asked for, or the one active when the function was
\* read, if there is such a version and it is the function's.
resolveVersion(c) ==
    LET r == call[c].req
        v == IF r.ver = None THEN call[c].row.active ELSE r.ver
    IN  IF fns[r.fn] # None /\ v \in fns[r.fn].rows THEN v ELSE None

\* get_function_files lists the files in order, with their content as long as the
\* budget lasts.
Listing(sizes) ==
    FoldLeft(LAMBDA o, n : IF o.kept + n <= Budget
                           THEN [o EXCEPT !.kept = o.kept + n, !.total = o.total + n]
                           ELSE [o EXCEPT !.total = o.total + n, !.cut = TRUE],
             [kept |-> 0, total |-> 0, cut |-> FALSE], sizes)

\* With a path it returns that file whole, whatever its size.
OneFile(n) == [kept |-> n, total |-> n, cut |-> FALSE]

Returned(sizes) == {Listing(sizes)} \cup {OneFile(sizes[i]) : i \in DOMAIN sizes}

Shows(c, vs, out) ==
    call' = [call EXCEPT ![c].pc = "done", ![c].ans = "ok", ![c].shown = vs, ![c].out = out]

\* handleGet fails over the version of a function that is gone by now; get_function
\* leaves out what it cannot find.
Lenient(r) == r.via = "mcp"

ShowFunction(c) ==
    LET there == {call[c].row.active} \cap Stored IN
    /\ call[c].pc = "show" /\ call[c].req.op = "get"
    /\ IF there = {} /\ ~Lenient(call[c].req) THEN Answer(c, "notFound")
       ELSE Shows(c, there, call[c].out)
    /\ UNCHANGED <<store, mcp, dash, seen>>

\* The logs, or the versions, of a function that is gone are just empty.
ShowLogs(c) ==
    /\ call[c].pc = "show" /\ call[c].req.op = "logs"
    /\ Shows(c, {}, call[c].out)
    /\ UNCHANGED <<store, mcp, dash, seen>>

\* The bundle may fail to load, or hold no file of that path.
ShowFiles(c) ==
    LET v == resolveVersion(c) IN
    /\ call[c].pc = "show" /\ call[c].req.op = "files"
    /\ IF v = None THEN Answer(c, "notFound")
       ELSE \/ \E out \in Returned(Sizes(v)) : Shows(c, {v}, out)
            \/ Answer(c, "failed")
    /\ UNCHANGED <<store, mcp, dash, seen>>

\* A change finds the row by its id, and a deploy the name: once the function is
\* deleted the one is gone and the other never free again.  A second delete is
\* content, a rollback asks for the function's own version.
Acted(c) ==
    LET r == call[c].req IN
    \/ r.op = "delete"
    \/ fns[r.fn] # None /\ (r.op = "rollback" => r.ver \in fns[r.fn].rows)

\* The row after it.  A version made by call c is named c.
After(c, f) ==
    LET op == call[c].req.op IN
    CASE op = "deploy"   -> [f EXCEPT !.active = c, !.rows = @ \cup {c}]
      [] op = "delete"   -> None
      [] op = "rollback" -> [f EXCEPT !.active = call[c].req.ver]
      [] op = "setenv"   -> f

Refusal == [deploy |-> "conflict", setenv |-> "failed", rollback |-> "notFound"]

Act(c) ==
    LET r == call[c].req IN
    /\ call[c].pc = "act"
    /\ IF Acted(c)
       THEN Goto(c, "audit") /\ fns' = [fns EXCEPT ![r.fn] = After(c, @)]
       ELSE Answer(c, Refusal[r.op]) /\ UNCHANGED fns
    /\ UNCHANGED <<users, members, conf, changes, mcp, dash>>
    /\ Watch

\* The entry of the audit log may be lost, and nobody is told.
Audit(c) ==
    /\ call[c].pc = "audit"
    /\ Answer(c, "ok")
    /\ UNCHANGED <<store, mcp, dash, seen>>

\* ListFunctions: those of an owner, once they may be seen, ...
ListOfOwner(c) ==
    /\ call[c].pc = "op" /\ call[c].req.op = "listOwner"
    /\ IF CanView(call[c].actor, Owner(c)) THEN Goto(c, "listing") ELSE Answer(c, "notFound")
    /\ UNCHANGED <<store, mcp, dash, seen>>

ListByOwner(c) ==
    /\ call[c].pc = "listing"
    /\ Shows(c, {f \in Fns : fns[f] # None /\ OwnerOf[f] = Owner(c)}, call[c].out)
    /\ UNCHANGED <<store, mcp, dash, seen>>

\* ... or all that the caller may see, in one query.
ListFunctions(c) ==
    LET a == call[c].actor IN
    /\ call[c].pc = "op" /\ call[c].req.op = "list"
    /\ Shows(c, {f \in Fns : fns[f] # None /\ CanView(a, OwnerOf[f])},
             call[c].out)
    /\ UNCHANGED <<store, mcp, dash, seen>>

(***************************************************************************)
(* What only admins may do.                                                *)
(***************************************************************************)

requireOrgAdminActor(c) == CanUpdateOrgSettings(call[c].actor)

ListUsers(c) ==
    /\ call[c].pc = "op" /\ call[c].req.op = "users"
    /\ Answer(c, IF requireOrgAdminActor(c) THEN "ok" ELSE "forbidden")
    /\ UNCHANGED <<store, mcp, dash, seen>>

ListAuditLogs(c) ==
    /\ call[c].pc = "op" /\ call[c].req.op = "auditLogs"
    /\ Answer(c, IF requireOrgAdminActor(c) THEN "ok" ELSE "forbidden")
    /\ UNCHANGED <<store, mcp, dash, seen>>

\* PatchUser reads the row, ...
PatchUser(c) ==
    /\ call[c].pc = "op" /\ call[c].req.op = "patch"
    /\ IF requireOrgAdminActor(c)
       THEN call' = [call EXCEPT ![c].pc = "count", ![c].row = users[call[c].req.target]]
       ELSE Answer(c, "forbidden")
    /\ UNCHANGED <<store, mcp, dash, seen>>

Patched(c) ==
    LET to == call[c].req.to IN
    [role   |-> IF to.role = None THEN call[c].row.role ELSE to.role,
     status |-> IF to.status = None THEN call[c].row.status ELSE to.status]

Demotes(c) ==
    LET old == call[c].row
        new == Patched(c)
    IN  /\ old.role = "admin"
        /\ new.role # "admin" \/ (new.status # "active" /\ old.status = "active")

\* Mutant: the admin that goes is counted too.
CountAdminsAll(c) ==
    /\ call[c].pc = "count"
    /\ IF Demotes(c) /\ ActiveAdmins = {} THEN Answer(c, "conflict") ELSE Goto(c, "write")
    /\ UNCHANGED <<store, mcp, dash, seen>>

\* ... counts the other admins if it takes one away, ...
CountAdmins(c) ==
    /\ call[c].pc = "count"
    /\ IF Demotes(c) /\ ActiveAdmins \ {call[c].req.target} = {} THEN Answer(c, "conflict")
       ELSE Goto(c, "write")
    /\ UNCHANGED <<store, mcp, dash, seen>>

\* ... and writes it back.
WriteUser(c) ==
    /\ call[c].pc = "write"
    /\ users' = [users EXCEPT ![call[c].req.target] = Patched(c)]
    /\ Goto(c, "audit")
    /\ UNCHANGED <<members, conf, fns, changes, mcp, dash>>
    /\ Watch

(***************************************************************************)
(* invoke_function, in process, with a token minted for the caller.        *)
(***************************************************************************)

\* Minting asks for the row alone; the invoker asks whether the user is active, as
\* it does for a function open to the organization (Invocation has the others).
Invoke(c) ==
    /\ call[c].pc = "op" /\ call[c].req.op = "invoke"
    /\ IF users[call[c].actor.id].status = "active" /\ fns[call[c].req.fn] # None
       THEN Goto(c, "serve") ELSE Answer(c, "denied")
    /\ UNCHANGED <<store, mcp, dash, seen>>

\* Mutant: a write is kept whole while there is room.
RecordWhole(out, n) ==
    [kept  |-> out.kept + (IF BodyCap > out.kept THEN n ELSE 0),
     total |-> out.total + n,
     cut   |-> out.total + n > BodyCap]

\* boundedInvokeRecorder.Write.
Record(out, n) ==
    LET room == BodyCap - out.kept
    IN  [kept  |-> out.kept + (IF room > n THEN n ELSE room),
         total |-> out.total + n,
         cut   |-> out.total + n > BodyCap]

GuestWrites(c) ==
    /\ call[c].pc = "serve"
    /\ \E n \in Chunks :
        /\ call[c].out.total + n <= MaxWritten
        /\ call' = [call EXCEPT ![c].out = Record(@, n)]
    /\ UNCHANGED <<store, mcp, dash, seen>>

GuestEnds(c) ==
    /\ call[c].pc = "serve"
    /\ Answer(c, "ok")
    /\ UNCHANGED <<store, mcp, dash, seen>>

\* The answer is out, and nothing of the call is left but what it made.
End(c) ==
    /\ call[c].pc = "done"
    /\ call' = [call EXCEPT ![c] = [Idle EXCEPT !.pc = "over",
                    !.req = IF call[c].req.op = "deploy" THEN call[c].req ELSE None]]
    /\ seen' = [seen EXCEPT ![c] = NoView]
    /\ UNCHANGED <<store, mcp, dash>>

-----------------------------------------------------------------------------
(***************************************************************************)
(* Members and settings change as OrgSettings says.                        *)
(***************************************************************************)

Change ==
    /\ changes < MaxChanges
    /\ changes' = changes + 1
    /\ \/ \E u \in Users, m \in Moves.members :
            members' = [members EXCEPT ![u] = m] /\ UNCHANGED conf
       \/ conf' \in Moves.conf /\ UNCHANGED members
    /\ <<members', conf'>> # <<members, conf>>
    /\ UNCHANGED <<users, fns>>
    /\ UNCHANGED <<mcp, dash, call>>
    /\ Watch

Init ==
    /\ \E st \in Starts :
        /\ users = st.users /\ members = st.members /\ conf = st.conf
        /\ fns = [f \in Fns |-> [active |-> st.active[f], rows |-> {v \in Vers : VersionOf[v] = f}]]
    /\ changes = 0
    /\ servers = [s \in Servers |-> [st |-> "free", user |-> None, admin |-> FALSE]]
    /\ sessions = {}
    /\ dash = "none"
    /\ call = [c \in Calls |-> Idle]
    /\ seen = [c \in Calls |-> NoView]

CallStep(c) ==
    \/ ServeREST(c) \/ ServeMCP(c) \/ requireActor(c)
    \/ ServeDashboard(c) \/ internalAPI(c) \/ Expire(c)
    \/ Resolve(c) \/ ResolveForEnv(c) \/ ResolveVisible(c) \/ LoadWorkspace(c) \/ Manage(c)
    \/ ShowFunction(c) \/ ShowLogs(c) \/ ShowFiles(c)
    \/ Deploy(c) \/ Act(c) \/ Audit(c)
    \/ ListOfOwner(c) \/ ListByOwner(c) \/ ListFunctions(c)
    \/ ListUsers(c) \/ ListAuditLogs(c) \/ PatchUser(c) \/ CountAdmins(c) \/ WriteUser(c)
    \/ Invoke(c) \/ GuestWrites(c) \/ GuestEnds(c)
    \/ End(c)

Next ==
    \/ \E c \in Calls : Begin(c) \/ CallStep(c)
    \/ \E s \in Servers : Connect(s) \/ Close(s) \/ \E u \in Users : getServer(s, u)
    \/ Change

Spec == Init /\ [][Next]_vars

-----------------------------------------------------------------------------
(***************************************************************************)
(* What must hold.                                                         *)
(***************************************************************************)

Places == {"idle", "auth", "tool", "guest", "op", "view", "settings", "manage", "show", "act",
           "audit", "listing", "count", "write", "serve", "done", "over"}

\* What a guest has written, or what is returned of a version's files.
Output == [kept : Nat, total : Nat, cut : BOOLEAN] \cup UNION {Returned(FileSizes[v]) : v \in Vers}

Who == [id : Users, role : Roles]

Call == [pc : Places, req : Request \cup {None}, server : Servers \cup {None},
         actor : Who \cup {None}, token : Who \cup {None}, row : FnRow \cup UserRow \cup {None},
         mcd : BOOLEAN \cup {None}, auf : BOOLEAN \cup {None},
         out : Output, shown : SUBSET (Vers \cup Calls \cup Fns),
         ans : Answers \cup {None}]

View == [rows : SUBSET UserRow, roles : SUBSET WsRoles, mcd : SUBSET BOOLEAN, auf : SUBSET BOOLEAN,
         fn : SUBSET (FnRow \cup {None}), admins : SUBSET SUBSET Users]

\* Everything is what it should be, and a call that is over has an answer.
TypeOK ==
    /\ users \in [Users -> UserRow] /\ members \in [Users -> WsRoles] /\ conf \in Conf
    /\ fns \in [Fns -> FnRow \cup {None}]
    /\ \A f \in Fns : fns[f] # None => fns[f].active \in fns[f].rows
    /\ changes \in 0..MaxChanges
    /\ servers \in [Servers -> [st : {"free", "opening", "live", "closed"},
                               user : Users \cup {None}, admin : BOOLEAN]]
    /\ sessions \subseteq Servers
    /\ \A s \in Servers : servers[s].st # "free" => servers[s].user \in Users
    /\ dash \in {"none", "pool", "err"}
    /\ call \in [Calls -> Call] /\ seen \in [Calls -> View]
    /\ \A c \in Calls : call[c].pc = "done" <=> call[c].ans # None

\* Who may do what, in one table, for a user with this row and this role in the
\* workspace, under these settings.
May(r, row, wsRole, mcd, auf) ==
    LET admin  == row.role = "admin"
        own    == OwnerOf[r.fn] = r.user
        shared == OwnerOf[r.fn] = "workspace"
    IN  /\ row.status = "active"
        /\ \/ admin
           \/ r.op \in {"dryrun", "invoke", "list"}
           \/ r.op = "deploy" /\ own /\ auf
           \/ r.op \in FnOps \cup {"listOwner"} /\ own
           \/ r.op \in Reads \cup {"listOwner"} /\ shared /\ wsRole # None
           \/ /\ r.op \in (FnOps \ Reads) \cup {"deploy"} /\ shared
              /\ wsRole = "admin" \/ (wsRole = "member" /\ mcd)

Could(c, ok) ==
    \E row \in seen[c].rows, w \in seen[c].roles, m \in seen[c].mcd, a \in seen[c].auf :
        May(call[c].req, row, w, m, a) = ok

\* Which credential opens which door: a browser's cookie neither MCP nor, from
\* another site, a change through REST; a token for MCP nothing but MCP.
Opens(r) ==
    CASE r.via = "rest" -> r.cred # "mcpToken" /\ (r.cred = "cookie" /\ r.op \in Mutations => r.own)
      [] r.via = "mcp"  -> r.cred # "cookie"
      [] r.via = "dash" -> r.cred = "cookie"

\* However a call comes in, and however roles, memberships and settings change
\* under it, it does or is told something only if the caller could do it at some
\* time during the call, active, and with a credential for that door.  What a
\* session, a token or an earlier call found out never counts: mcpserver's
\* requireActor and the dashboard's caller token.  A list holds only functions that
\* the caller could see, though the owner is looked at before the list is read.
ActsArePermitted ==
    \A c \in Calls :
        /\ call[c].ans = "ok" \/ call[c].pc \in {"act", "audit", "count", "write", "show", "listing", "serve"}
              => Could(c, TRUE) /\ Opens(call[c].req)
        /\ call[c].ans = "ok" /\ call[c].req.op \in Lists =>
              \A f \in call[c].shown : \E row \in seen[c].rows, w \in seen[c].roles :
                  May([call[c].req EXCEPT !.op = "get", !.fn = f], row, w, FALSE, FALSE)

\* Nobody is turned away who was entitled all along: what each refusal says was
\* so at some time during the call.  An MCP session is refused only when as many as
\* the limit are open or being opened, however many have come and gone.
RefusalsAreDue ==
    LET Open(U) == {s \in Servers : servers[s].st \in {"opening", "live"} /\ servers[s].user \in U} IN
    /\ \A c \in Calls :
         LET r == call[c].req IN
         CASE call[c].ans = "forbidden" -> Could(c, FALSE)
           [] call[c].ans = "notFound"  ->
                 Could(c, FALSE) \/ \E f \in seen[c].fn : f = None \/ (r.ver # None /\ r.ver \notin f.rows)
           [] call[c].ans = "pending"   -> \E row \in seen[c].rows : row.status = "pending"
           [] call[c].ans = "unauthorized" ->
                 \/ ~Opens(r)
                 \/ \E row \in seen[c].rows : row.status # "active"
           [] call[c].ans = "conflict" ->
                 IF r.op = "patch" THEN \E A \in seen[c].admins : A \subseteq {r.target}
                 ELSE None \in seen[c].fn
           [] OTHER -> TRUE
    /\ \A u \in Users : Refuses(u) =>
         Cardinality(Open({u})) >= MaxPerUser \/ Cardinality(Open(Users)) >= MaxGlobal

\* Only who may see a function hears that it may not be changed: to all others it
\* does not exist (ResolveVisible: "existence-leak resistance").  The exception
\* are environment variables, whose handlers resolve the function by its name.
OutsidersLearnNothing ==
    \A c \in Calls :
        LET r == call[c].req IN
        call[c].ans = "forbidden" /\ r.op \in FnOps \ {"setenv"} =>
            \E row \in seen[c].rows, w \in seen[c].roles :
                May([r EXCEPT !.op = "get"], row, w, FALSE, FALSE)

\* The organization loses its last active administrator only in a race: when a
\* change of a user leaves none, that user was not the only one all the while it
\* ran.  PatchUser reads, counts and writes in three steps.
LastAdminStays ==
    [][ActiveAdmins # {} /\ ActiveAdmins' = {} =>
          \E c \in Calls :
              /\ call[c].pc = "write" /\ call'[c].pc = "audit"
              /\ \E A \in seen[c].admins : A # {call[c].req.target}]_vars

\* What an answer says is so.  A function runs, and shows, versions of its own only,
\* though rollback and get_function_files take a version id from the client; and what
\* a tool returns is called cut exactly when something is missing and stays within its
\* cap, wherever the boundaries of writes and files fall, but for a file that was asked
\* for by its path, which comes whole.
AnswersAreTrue ==
    LET Home(v) == IF v \in Vers THEN VersionOf[v] ELSE call[v].req.fn IN
    /\ \A f \in Fns : fns[f] # None => Home(fns[f].active) = f
    /\ \A c \in Calls :
         LET r == call[c].req
             out == call[c].out
         IN  /\ call[c].ans = "ok" /\ r.op \in {"get", "files"} => \A v \in call[c].shown : Home(v) = r.fn
             /\ IF r # None /\ r.op = "files"
                THEN \/ out.kept <= Budget
                     \/ \E v \in Vers : out \in Returned(FileSizes[v]) \ {Listing(FileSizes[v])}
                ELSE out.kept <= BodyCap
             /\ out.cut <=> out.kept # out.total

=============================================================================
