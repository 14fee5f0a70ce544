----------------------------- MODULE OrgSettings -----------------------------
(***************************************************************************)
(* The organization's and the workspaces' settings: UpdateOrgSettings      *)
(* (api/org.go), the workspace handlers (api/workspaces.go), the SQL rows  *)
(* under them (store/sqlcommon/organizations.go, workspaces.go and         *)
(* aggregate.go), the part of a deploy that ties a function to a workspace *)
(* (service/deploy.go), and the fetch policy a running function sees       *)
(* (invoke/effective.go over policy/fetch.go).                             *)
(*                                                                         *)
(* Every handler reads a row, works on its copy and writes the copy back,  *)
(* with no transaction around the three.  A handler starts again once it   *)
(* is done.  A create call makes at most one workspace, whose id it is.    *)
(***************************************************************************)
EXTENDS Naturals, FiniteSets

CONSTANTS
    OrgPatches,  \* concurrent UpdateOrgSettings callers
    WsPatches,   \* concurrent handleWorkspacePatch callers
    Creates,     \* CreateWorkspace calls; also the ids of workspaces
    WsDeletes,   \* concurrent handleWorkspaceDelete callers
    MemberEdits, \* concurrent SetWorkspaceMember / RemoveWorkspaceMember callers
    Deploys,     \* concurrent first deploys of a function
    Resolvers,   \* concurrent resolveFetch calls of running functions
    Users,       \* users that may be members
    Hosts,       \* hosts a function may fetch from
    Policies,    \* the FetchPolicy values an administrator may write
    Manifest,    \* the FetchPolicy of the functions' manifests
    MaxGen,      \* bound on settings_gen
    User,        \* the owner of the functions that no workspace owns
    None         \* no row, an omitted field

FetchPolicy == [mode : {"deny", "allowlist", "allow-all"}, allow : SUBSET Hosts]

ASSUME PoliciesAssumption == Policies \subseteq FetchPolicy /\ Manifest \in FetchPolicy
ASSUME MaxGenAssumption == MaxGen \in Nat \ {0}
ASSUME CallsAssumption ==
    /\ OrgPatches \cap (WsPatches \cup Creates \cup WsDeletes \cup MemberEdits \cup Deploys \cup Resolvers) = {}
    /\ WsPatches \cap (Creates \cup WsDeletes \cup MemberEdits \cup Deploys \cup Resolvers) = {}
    /\ Creates \cap (WsDeletes \cup MemberEdits \cup Deploys \cup Resolvers) = {}
    /\ WsDeletes \cap (MemberEdits \cup Deploys \cup Resolvers) = {}
    /\ MemberEdits \cap (Deploys \cup Resolvers) = {}
    /\ Deploys \cap Resolvers = {}
ASSUME NoneNotARow == None \notin [fetch : FetchPolicy, gen : Nat] /\ User \notin Creates

VARIABLES
    org,      \* organizations row
    ws,       \* workspaces table: id -> row, or None
    members,  \* workspace_members table: workspace -> user -> role, or None
    owned,    \* the workspaces that own a function
    cache,    \* effectiveCache.entries: key -> EffectivePolicy, or None
    pc,       \* call -> where it is
    loc,      \* call -> its local variables, or None
    orgPast,  \* what the organizations row has held (a history)
    wsPast,   \* id -> what its workspaces row has held (a history)
    seen      \* resolver -> the policies it may go by, at each level (a history)

vars == <<org, ws, members, owned, cache, pc, loc, orgPast, wsPast, seen>>
rows == <<org, ws, members, owned, orgPast, wsPast>>

Calls ==
    OrgPatches \cup WsPatches \cup Creates \cup WsDeletes \cup MemberEdits \cup Deploys \cup Resolvers
Existing == {w \in Creates : ws[w] # None}
Resolving == {"ws", "lookup", "store"}
NoMembers == [u \in Users |-> None]

\* The cache key: the two generations and the version, named by its owner.
Keys == (0..MaxGen) \X (0..MaxGen) \X (Creates \cup {User})

(***************************************************************************)
(* policy.Effective and EffectivePolicy.Decision.                          *)
(***************************************************************************)

DenyAll == [mode |-> "deny", allow |-> {}]
AllowAll == [mode |-> "allow-all", allow |-> {}]
Rank(mode) == IF mode = "deny" THEN 0 ELSE IF mode = "allowlist" THEN 1 ELSE 2

\* The narrowest mode of the levels, and the allowlists to match when that is
\* the mode.
Effective(levels) ==
    IF levels = {} THEN [mode |-> "deny", levels |-> {}]
    ELSE LET m == (CHOOSE l \in levels : \A k \in levels : Rank(l.mode) <= Rank(k.mode)).mode
         IN  [mode |-> m,
              levels |-> IF m = "allowlist" THEN {l \in levels : l.mode = "allowlist"} ELSE {}]

Decision(e, host) ==
    \/ e.mode = "allow-all"
    \/ e.mode = "allowlist" /\ \A l \in e.levels : host \in l.allow

(***************************************************************************)
(* The histories.  A patch loses an update when it overwrites a row that   *)
(* is no longer the one it read, as two overlapping patches do; only then  *)
(* can a generation come to stand for a second policy.                     *)
(***************************************************************************)

NoPast == [lost |-> FALSE, under |-> [g \in 0..MaxGen |-> {}]]

\* A row is stored: under its generation stands its policy alone, or next to
\* the earlier ones once an update was lost.
Remember(past, lost, row) ==
    [lost |-> past.lost \/ lost,
     under |-> [past.under EXCEPT ![row.gen] =
                   (IF past.lost \/ lost THEN @ ELSE {}) \cup {row.fetch}]]

\* A resolver under way may go by the policies under the generation in force.
SeeOrg == seen' = [r \in Resolvers |->
    IF pc[r] \in Resolving THEN [seen[r] EXCEPT !.org = @ \cup orgPast'.under[org'.gen]] ELSE seen[r]]
SeeWs(w) == seen' = [r \in Resolvers |->
    IF ws[w] # None /\ pc[r] \in Resolving /\ loc[r].owner = w
    THEN [seen[r] EXCEPT !.ws = @ \cup wsPast'[w].under[ws'[w].gen]] ELSE seen[r]]

-----------------------------------------------------------------------------

Init ==
    /\ org = [fetch |-> DenyAll, open |-> FALSE, gen |-> 1]
    /\ ws = [w \in Creates |-> None]
    /\ members = [w \in Creates |-> NoMembers]
    /\ owned = {}
    /\ cache = [k \in Keys |-> None]
    /\ pc = [c \in Calls |-> "idle"]
    /\ loc = [c \in Calls |-> None]
    /\ orgPast = Remember(NoPast, FALSE, org)
    /\ wsPast = [w \in Creates |-> NoPast]
    /\ seen = [r \in Resolvers |-> [org |-> {}, ws |-> {}]]

\* Call c goes on at a label with its local variables.
Step(c, to, locals) ==
    /\ pc' = [pc EXCEPT ![c] = to]
    /\ loc' = [loc EXCEPT ![c] = locals]

Done(c) == Step(c, "idle", None)

\* A field of a patch, or the current value if the patch omits it.
Merge(patched, current) == IF patched = None THEN current ELSE patched

\* A handler gives up: the store failed, the request was refused, the client
\* went away or the process died.  What it wrote before stays.
Abort(c) ==
    /\ c \notin Resolvers
    /\ pc[c] \notin {"idle", "created"}
    /\ Done(c)
    /\ UNCHANGED <<rows, cache, seen>>

(***************************************************************************)
(* PATCH of the organization's settings.                                   *)
(***************************************************************************)

\* Read the row and merge the patch over it; turning open mode on goes
\* through the workspace guard.
OrgPatchRead(a) ==
    /\ pc[a] = "idle" /\ org.gen < MaxGen
    /\ \E f \in Policies \cup {None}, o \in BOOLEAN \cup {None} :
          LET new == [fetch |-> Merge(f, org.fetch), open |-> Merge(o, org.open), gen |-> org.gen + 1]
          IN  Step(a, IF new.open /\ ~org.open THEN "guard" ELSE "write",
                   [old |-> org, new |-> new])
    /\ UNCHANGED <<rows, cache, seen>>

\* Workspaces().ListAll: refused with 409 while any workspace exists.
OrgPatchGuard(a) ==
    /\ pc[a] = "guard"
    /\ IF Existing = {} THEN Step(a, "write", loc[a]) ELSE Done(a)
    /\ UNCHANGED <<rows, cache, seen>>

\* Organizations().Update writes the whole document and its generation.
OrgPatchWrite(a) ==
    /\ pc[a] = "write"
    /\ org' = loc[a].new
    /\ orgPast' = Remember(orgPast, org # loc[a].old, loc[a].new)
    /\ SeeOrg
    /\ Done(a)
    /\ UNCHANGED <<ws, wsPast, members, owned, cache>>

(***************************************************************************)
(* Workspaces.                                                             *)
(***************************************************************************)

\* CreateWorkspace: refused in open mode ...
CreateCheck(c) ==
    /\ pc[c] = "idle" /\ ~org.open
    /\ Step(c, "insert", None)
    /\ UNCHANGED <<rows, cache, seen>>

\* ... and then one transaction inserts the workspace and its first admin.
CreateInsert(c) ==
    /\ pc[c] = "insert"
    /\ ws' = [ws EXCEPT ![c] = [fetch |-> AllowAll, gen |-> 1]]
    /\ wsPast' = [wsPast EXCEPT ![c] = Remember(@, FALSE, ws'[c])]
    /\ \E u \in Users : members' = [members EXCEPT ![c][u] = "admin"]
    /\ Step(c, "created", None)
    /\ UNCHANGED <<org, orgPast, owned, cache, seen>>

WsPatchRead(b) ==
    /\ pc[b] = "idle"
    /\ \E w \in Existing, f \in Policies \cup {None} :
          /\ ws[w].gen < MaxGen
          /\ Step(b, "write", [w |-> w, old |-> ws[w],
                               new |-> [fetch |-> Merge(f, ws[w].fetch), gen |-> ws[w].gen + 1]])
    /\ UNCHANGED <<rows, cache, seen>>

\* Workspaces().Update; ErrNotFound if the workspace is gone.
WsPatchStore(b, row) ==
    LET w == loc[b].w IN
    /\ pc[b] = "write"
    /\ ws' = [ws EXCEPT ![w] = IF @ = None THEN None ELSE row]
    /\ wsPast' = [wsPast EXCEPT ![w] = IF ws[w] = None THEN @ ELSE Remember(@, ws[w] # loc[b].old, row)]
    /\ SeeWs(w)
    /\ Done(b)
    /\ UNCHANGED <<org, orgPast, members, owned, cache>>

\* Mutant: the generation is not bumped.
WsPatchWriteSameGen(b) == WsPatchStore(b, [loc[b].new EXCEPT !.gen = ws[loc[b].w].gen])

WsPatchWrite(b) == WsPatchStore(b, loc[b].new)

\* Functions().ListByOwner: refused with 409 while it owns a function.
WsDeleteCheck(x) ==
    /\ pc[x] = "idle"
    /\ \E w \in Existing \ owned : Step(x, "members", [w |-> w])
    /\ UNCHANGED <<rows, cache, seen>>

\* Workspaces().Delete: two statements, in no transaction ...
WsDeleteMembers(x) ==
    /\ pc[x] = "members"
    /\ members' = [members EXCEPT ![loc[x].w] = NoMembers]
    /\ Step(x, "row", loc[x])
    /\ UNCHANGED <<org, ws, orgPast, wsPast, owned, cache, seen>>

\* Mutant: the row goes whatever refers to it.
WsDeleteRowAnyway(x) ==
    /\ pc[x] = "row"
    /\ ws' = [ws EXCEPT ![loc[x].w] = None]
    /\ Done(x)
    /\ UNCHANGED <<org, orgPast, wsPast, members, owned, cache, seen>>

\* ... the second refused by the foreign key if a member was added since.
WsDeleteRow(x) ==
    /\ pc[x] = "row"
    /\ ws' = [ws EXCEPT ![loc[x].w] = IF members[loc[x].w] = NoMembers THEN None ELSE @]
    /\ Done(x)
    /\ UNCHANGED <<org, orgPast, wsPast, members, owned, cache, seen>>

(***************************************************************************)
(* Members.                                                                *)
(***************************************************************************)

\* Mutant: the last-admin guard is left out.
LastAdminNever(w, u) == FALSE

\* countOtherWSAdmins is zero for the admin u.
LastAdmin(w, u) ==
    members[w][u] = "admin" /\ \A v \in Users \ {u} : members[w][v] # "admin"

\* ListMembers and the last-admin guard, for a role to give or a removal.
MemberRead(m) ==
    /\ pc[m] = "idle"
    /\ \E w \in Existing, u \in Users, to \in {"admin", "member", None} :
          /\ to # "admin" => ~LastAdmin(w, u)
          /\ to # None \/ members[w][u] # None
          /\ Step(m, "write", [w |-> w, u |-> u, was |-> members[w][u], to |-> to])
    /\ UNCHANGED <<rows, cache, seen>>

\* AddMember: refused by the primary key or the foreign key.
MemberAdd(m) ==
    LET l == loc[m] IN
    /\ pc[m] = "write" /\ l.was = None
    /\ members' = IF ws[l.w] # None /\ members[l.w][l.u] = None
                  THEN [members EXCEPT ![l.w][l.u] = l.to] ELSE members
    /\ Done(m)
    /\ UNCHANGED <<org, ws, orgPast, wsPast, owned, cache, seen>>

\* UpdateMemberRole and RemoveMember: ErrNotFound if the row is gone.
MemberUpdate(m) ==
    LET l == loc[m] IN
    /\ pc[m] = "write" /\ l.was # None
    /\ members' = IF members[l.w][l.u] # None
                  THEN [members EXCEPT ![l.w][l.u] = l.to] ELSE members
    /\ Done(m)
    /\ UNCHANGED <<org, ws, orgPast, wsPast, owned, cache, seen>>

(***************************************************************************)
(* Functions of a workspace.                                               *)
(***************************************************************************)

\* Deploy loads the organization's settings up front ...
DeployLoad(d) ==
    /\ pc[d] = "idle"
    /\ Step(d, "resolve", [open |-> org.open])
    /\ UNCHANGED <<rows, cache, seen>>

\* ... then resolves its owner, a workspace only outside open mode ...
DeployResolve(d) ==
    /\ pc[d] = "resolve"
    /\ ~loc[d].open
    /\ \E w \in Existing : Step(d, "create", [w |-> w])
    /\ UNCHANGED <<rows, cache, seen>>

\* ... and later inserts the function, whose owner_id is no foreign key.
DeployCreate(d) ==
    /\ pc[d] = "create"
    /\ owned' = owned \cup {loc[d].w}
    /\ Done(d)
    /\ UNCHANGED <<org, ws, orgPast, wsPast, members, cache, seen>>

\* The last function of a workspace is deleted.
LastFunctionDeleted(w) ==
    /\ w \in owned
    /\ owned' = owned \ {w}
    /\ UNCHANGED <<org, ws, orgPast, wsPast, members, cache, pc, loc, seen>>

(***************************************************************************)
(* resolveFetch, called from the hooks of a warm pool on every fetch.      *)
(***************************************************************************)

\* The organization row, for a function of a user or of a workspace.
ResolveOrg(r) ==
    /\ pc[r] \in {"idle", "done"}
    /\ \E o \in owned \cup {User} :
          /\ Step(r, IF o = User THEN "lookup" ELSE "ws",
                  [owner |-> o, gens |-> <<org.gen, 0>>, levels |-> {org.fetch, Manifest}])
          /\ seen' = [seen EXCEPT ![r] =
                [org |-> orgPast.under[org.gen],
                 ws |-> IF o \in Existing THEN wsPast[o].under[ws[o].gen] ELSE {}]]
    /\ UNCHANGED <<rows, cache>>

\* Return e to the guest.
Return(r, e) == Step(r, "done", [owner |-> loc[r].owner, eff |-> e])

\* The organization or the workspace cannot be loaded: fail closed.
ResolveFail(r) ==
    /\ pc[r] \in {"idle", "done", "ws"}
    /\ \E o \in owned \cup {User} : Step(r, "done", [owner |-> o, eff |-> Effective({DenyAll})])
    /\ UNCHANGED <<rows, cache, seen>>

\* The workspace row, for a function of a workspace.
ResolveWs(r) ==
    LET w == loc[r].owner IN
    /\ pc[r] = "ws" /\ ws[w] # None
    /\ Step(r, "lookup", [owner |-> w, gens |-> <<loc[r].gens[1], ws[w].gen>>,
                          levels |-> loc[r].levels \cup {ws[w].fetch}])
    /\ UNCHANGED <<rows, cache, seen>>

\* Mutant: the workspace's generation is left out of the key.
KeyOrgOnly(l) == <<l.gens[1], 0, l.owner>>

Key(l) == <<l.gens[1], l.gens[2], l.owner>>

\* The entry under the read lock: a hit returns it.
ResolveLookup(r) ==
    LET e == cache[Key(loc[r])] IN
    /\ pc[r] = "lookup"
    /\ IF e # None THEN Return(r, e) ELSE Step(r, "store", loc[r])
    /\ UNCHANGED <<rows, cache, seen>>

\* A miss computes the policy and stores it.
ResolveStore(r) ==
    LET e == Effective(loc[r].levels) IN
    /\ pc[r] = "store"
    /\ cache' = [cache EXCEPT ![Key(loc[r])] = e]
    /\ Return(r, e)
    /\ UNCHANGED <<rows, seen>>

\* The server waits for requests.
Idle ==
    /\ \A c \in Calls : pc[c] \in {"idle", "created"}
    /\ UNCHANGED vars

-----------------------------------------------------------------------------

Next ==
    \/ \E a \in OrgPatches : OrgPatchRead(a) \/ OrgPatchGuard(a) \/ OrgPatchWrite(a)
    \/ \E c \in Creates : CreateCheck(c) \/ CreateInsert(c)
    \/ \E b \in WsPatches : WsPatchRead(b) \/ WsPatchWrite(b)
    \/ \E x \in WsDeletes : WsDeleteCheck(x) \/ WsDeleteMembers(x) \/ WsDeleteRow(x)
    \/ \E m \in MemberEdits : MemberRead(m) \/ MemberAdd(m) \/ MemberUpdate(m)
    \/ \E d \in Deploys : DeployLoad(d) \/ DeployResolve(d) \/ DeployCreate(d)
    \/ \E w \in Creates : LastFunctionDeleted(w)
    \/ \E r \in Resolvers :
          ResolveOrg(r) \/ ResolveFail(r) \/ ResolveWs(r) \/ ResolveLookup(r) \/ ResolveStore(r)
    \/ \E c \in Calls : Abort(c)
    \/ Idle

Spec == Init /\ [][Next]_vars

-----------------------------------------------------------------------------
(***************************************************************************)
(* Properties.                                                             *)
(***************************************************************************)

OrgRow == [fetch : Policies \cup {DenyAll}, open : BOOLEAN, gen : 1..MaxGen]
WsRow == [fetch : Policies \cup {AllowAll}, gen : 1..MaxGen]
Settings == Policies \cup {DenyAll, AllowAll, Manifest}
Past == [lost : BOOLEAN, under : [0..MaxGen -> SUBSET Settings]]
EffectivePolicy == [mode : {"deny", "allowlist", "allow-all"}, levels : SUBSET Settings]

TypeOK ==
    /\ org \in OrgRow
    /\ ws \in [Creates -> WsRow \cup {None}]
    /\ members \in [Creates -> [Users -> {"admin", "member", None}]]
    /\ owned \subseteq Creates
    /\ cache \in [Keys -> EffectivePolicy \cup {None}]
    /\ DOMAIN pc = Calls /\ DOMAIN loc = Calls
    /\ orgPast \in Past /\ wsPast \in [Creates -> Past]
    /\ seen \in [Resolvers -> [org : SUBSET Settings, ws : SUBSET Settings]]

\* A host a level permits on its own.
Permits(p, host) == p.mode = "allow-all" \/ (p.mode = "allowlist" /\ host \in p.allow)

\* A fetch is allowed only if the manifest and, of every level, a policy that
\* was in force at some moment of this very call permit it: a warm pool never
\* acts on a policy that was replaced before the call, and a function whose
\* workspace is gone is denied everything.  Once overlapping patches have lost
\* an update of a row, the policies stored under the generation in force count
\* with the one in force; an earlier generation's never do.
NoStalePermission ==
    \A r \in Resolvers : pc[r] = "done" =>
        \A h \in Hosts : Decision(loc[r].eff, h) =>
            /\ Permits(Manifest, h)
            /\ \E p \in seen[r].org : Permits(p, h)
            /\ loc[r].owner # User => \E p \in seen[r].ws : Permits(p, h)

\* The generations in force for an owner's functions, the levels of their
\* policy, and whether a patch of one of the rows lost an update.
KeyOf(o) == <<org.gen, IF o = User THEN 0 ELSE ws[o].gen, o>>
LevelsOf(o) == {org.fetch, Manifest} \cup (IF o = User THEN {} ELSE {ws[o].fetch})
LostUpdate(o) == orgPast.lost \/ (o # User /\ wsPast[o].lost)

\* The levels that have stood under the generations of a key.
Readings(k) ==
    IF k[3] = User THEN {{p, Manifest} : p \in orgPast.under[k[1]]}
    ELSE {{p, Manifest, q} : p \in orgPast.under[k[1]], q \in wsPast[k[3]].under[k[2]]}

\* An entry for the generations in force decides every host as the rows and
\* the manifest do.  Once overlapping patches have lost an update of a row it
\* decides as some policies stored under the same generations.
CacheMatchesRows ==
    \A o \in Existing \cup {User} :
        LET e == cache[KeyOf(o)] IN
        e # None =>
            \E levels \in IF LostUpdate(o) THEN Readings(KeyOf(o)) ELSE {LevelsOf(o)} :
                \A h \in Hosts : Decision(e, h) <=> \A p \in levels : Permits(p, h)

\* No membership outlives its workspace, whatever adds race the delete.
MembersHaveWorkspace ==
    \A w \in Creates : ws[w] = None => members[w] = NoMembers

-----------------------------------------------------------------------------
(***************************************************************************)
(* What the code's comments say and two callers at once can break.         *)
(***************************************************************************)

\* effectiveCache: the generations in the key make a stale entry unreachable.
CacheNeverStale ==
    \A o \in Existing \cup {User} :
        LET e == cache[KeyOf(o)] IN
        e # None => \A h \in Hosts : Decision(e, h) <=> \A p \in LevelsOf(o) : Permits(p, h)

\* SetWorkspaceMember: a workspace with zero admins is a lockout, which the
\* last-admin guard is there to prevent.
WorkspaceHasAdmin ==
    \A w \in Existing : \E u \in Users : members[w][u] = "admin"

\* UpdateOrgSettings: a field the patch leaves as it read it keeps its current
\* value.
PatchKeepsOmitted ==
    [][\A a \in OrgPatches : OrgPatchWrite(a) =>
          /\ loc[a].new.fetch = loc[a].old.fetch => org'.fetch = org.fetch
          /\ loc[a].new.open = loc[a].old.open => org'.open = org.open]_vars

\* The toggle guard and CreateWorkspace: no workspace exists in open mode.
OpenModeHasNoWorkspaces == org.open => Existing = {}

\* handleWorkspaceDelete: a function's owner reference is never left dangling.
OwnersExist == owned \subseteq Existing
=============================================================================
