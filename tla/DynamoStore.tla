---------------------------- MODULE DynamoStore -----------------------------
(***************************************************************************)
(* The store on a single DynamoDB table (src/server/internal/store/        *)
(* dynamodb): functions with their name claims, owner pointers, list       *)
(* entries and quota counters, users and their subject pointers, refresh   *)
(* grants, and the migration that every start of the server runs.          *)
(*                                                                         *)
(* What one statement does, several items in one TransactWriteItems        *)
(* included, is one step; a repository method that reads before it writes, *)
(* or writes in a batch, is several, and any of them may be the last one   *)
(* it makes: the call fails, or the server crashes and the table stays as  *)
(* it is.  A read that returns an older item (the code never asks for a    *)
(* consistent one) is a call that read earlier and was slow to go on.      *)
(***************************************************************************)
EXTENDS Integers, Sequences, FiniteSets

CONSTANTS
    Fns,             \* function ids
    OwnerOf, NameOf, \* what a function is created with
    CreatorOf,       \* whose versions it has; a legacy row does not say so
    Age,             \* its creation time
    Legacy,          \* the functions older than name claims and counters
    Vers,            \* version ids
    Users, Subjects, \* user ids, provider subjects
    OldUsers,        \* the users older than provider subjects, and ...
    GoogleSub,       \* ... their subject
    Handles,         \* public user ids
    OldHandles,      \* those that workspaces once had
    Workspaces,      \* workspace ids
    Grants,          \* oauth grants
    Calls,           \* calls of the store; also the secrets they mint
    Limit,           \* the quota of functions per creator
    MaxCrashes,      \* bound on the crashes of the server
    Nil

ASSUME LegacyAssumption ==
    /\ Legacy \subseteq Fns /\ OldUsers \subseteq Users /\ OldHandles \subseteq Handles
    /\ \A f, g \in Legacy : OwnerOf[f] = OwnerOf[g] /\ NameOf[f] = NameOf[g] => f = g
    /\ \A u \in OldUsers : GoogleSub[u] \in Subjects
ASSUME FinitenessAssumption == IsFiniteSet(Fns) /\ MaxCrashes \in Nat
ASSUME NilAssumption ==
    Nil \notin Fns \cup Vers \cup Users \cup Subjects \cup Workspaces \cup Grants \cup Calls

VARIABLES
    db,       \* the table: key -> item
    phase,    \* the server: the step of its migration, or serving
    mig,      \* the user whose row the migration is moving
    op,       \* call -> the method it calls
    loc,      \* call -> where it is
    arg,      \* call -> what it is called with
    got,      \* call -> the item it has read
    todo,     \* call -> the keys its batch has left to delete
    crashes,  \* so far
    born,     \* the ids of functions and workspaces that were ever given out
    settled,  \* the functions whose deletion was taken off a counter
    extra,    \* scope -> how often that happened once more, since the last migration
    minted,   \* the refresh secrets that were ever stored
    won       \* call -> the secret it traded for a new one

ghosts == <<crashes, born, settled, extra, minted, won>>
reg == <<op, arg, got, todo>>
server == <<phase, mig>>
storeVars == <<db, server, loc, reg, ghosts>>

-----------------------------------------------------------------------------
(***************************************************************************)
(* Keys (keys.go), items and the statements on them (helpers.go).          *)
(***************************************************************************)

pkFunc(f) == <<"FUNC", f>>
skVersion(f, v) == <<"FUNC", f, "VER", v>>
skEnv(f) == <<"FUNC", f, "ENV">>
pkFuncPtr(o, n) == <<"PTR", o, n>>
pkFuncName(n) == <<"NAME", n>>
pkFuncList(o, f) == <<"LIST", o, f>>
pkFuncCount(s) == <<"COUNT", s>>
pkVersion(v) == <<"VER", v>>
pkUser(u) == <<"USER", u>>
pkUserProviderSubject(s) == <<"SUBJECT", s>>
pkUserSubLegacy(s) == <<"SUB", s>>
pkHandle(h) == <<"HANDLE", h>>
pkWorkspace(w) == <<"WS", w>>
skMember(w, u) == <<"WS", w, "MEMBER", u>>
pkOAuthGrant(h) == <<"GRANT", h>>
pkOAuthGrantID(g) == <<"GRANTID", g>>
pkOAuthGrantPrev(h) == <<"PREV", h>>
Lock == <<"ORG", "LOCK">>

Has(k) == k \in DOMAIN db

\* putItem and upsertItem.
Put(d, k, item) == [j \in DOMAIN d \cup {k} |-> IF j = k THEN item ELSE d[j]]

\* deleteItem, and what a batch deletes.
Without(d, K) == [k \in DOMAIN d \ K |-> d[k]]

\* The rows a scan for one kind of entity visits.
RowsOf(kind) == {k \in DOMAIN db : k[1] = kind /\ Len(k) = 2}

\* functionItemFrom.
Item(f, creator, active) ==
    [id |-> f, owner |-> OwnerOf[f], name |-> NameOf[f], creator |-> creator, active |-> active]

\* A claim of a global name.
Claim(f) == [fn |-> f, state |-> "active"]

\* The owner of a handle that is not a user's.
WorkspaceHandle == "workspace"

\* functionCountScope: a user's functions count together, a workspace's per
\* creator.
functionCountScope(item) ==
    <<item.owner, IF item.owner \in Users THEN Nil ELSE item.creator>>

Scopes == {<<o, c>> : o \in {OwnerOf[f] : f \in Fns}, c \in {CreatorOf[f] : f \in Fns} \cup {Nil}}

\* What a scan of every function counts in a scope.
Counted(s) == Cardinality({k \in RowsOf("FUNC") : functionCountScope(db[k]) = s})

-----------------------------------------------------------------------------

\* A table that was written before claims, counters, creators and provider
\* subjects existed, and a server about to migrate it.
OldTable ==
    LET keys == (UNION {{pkFunc(f), pkFuncPtr(OwnerOf[f], NameOf[f]), pkFuncList(OwnerOf[f], f)}
                           : f \in Legacy})
                \cup (UNION {{Lock, pkUser(u), pkUserSubLegacy(GoogleSub[u])} : u \in OldUsers})
                \cup {pkHandle(h) : h \in OldHandles}
        fnOf(k) == CHOOSE f \in Legacy :
            k \in {pkFunc(f), pkFuncPtr(OwnerOf[f], NameOf[f]), pkFuncList(OwnerOf[f], f)}
    IN [k \in keys |->
          CASE k[1] = "FUNC" -> Item(k[2], Nil, Nil)
            [] k[1] \in {"PTR", "LIST"} -> fnOf(k)
            [] k[1] = "USER" -> [id |-> k[2], subject |-> Nil, role |-> "member"]
            [] k[1] = "HANDLE" -> WorkspaceHandle
            [] k[1] = "SUB" -> CHOOSE u \in OldUsers : GoogleSub[u] = k[2]
            [] OTHER -> Nil]

NewTable == <<>>

InitWith(ops, table) ==
    /\ db = table
    /\ phase = "names" /\ mig = Nil
    /\ op = ops
    /\ loc = [c \in Calls |-> "start"]
    /\ arg = [c \in Calls |-> Nil]
    /\ got = [c \in Calls |-> Nil]
    /\ todo = [c \in Calls |-> {}]
    /\ crashes = 0
    /\ born = {k[2] : k \in {j \in DOMAIN table : j[1] = "FUNC"}}
    /\ settled = {}
    /\ extra = [s \in Scopes |-> 0]
    /\ minted = {}
    /\ won = [c \in Calls |-> Nil]

Ops == {"Create", "Update", "Delete", "CreateVersion", "ActivateVersion", "SetEnv",
        "BootstrapFirstUser", "CreateUser", "UpdateUser", "CreateHandle", "RenameHandle",
        "CreateWorkspace", "AddMember", "UpdateWorkspace", "DeleteWorkspace",
        "CreateGrant", "Rotate", "DeleteGrant", "RevokeIfPrevious"}

StoreInit == \E ops \in [Calls -> Ops], table \in {OldTable, NewTable} : InitWith(ops, table)

Called(c, o) == op[c] = o /\ loc[c] = "start" /\ phase = "serving"
At(c, where) == loc[c] = where /\ phase = "serving"
MoveTo(c, to) == loc' = [loc EXCEPT ![c] = to]
Over == {"start", "ok", "notFound", "conflict", "limit", "failed"}

\* A statement fails: the method returns the error, and nothing is undone.
StatementFails(c) ==
    /\ loc[c] \notin Over
    /\ MoveTo(c, "failed")
    /\ UNCHANGED <<db, server, reg, ghosts>>

\* The server stops, and its calls with it; the next one migrates first.
Crash ==
    /\ crashes < MaxCrashes
    /\ crashes' = crashes + 1
    /\ phase' = "names" /\ mig' = Nil
    /\ loc' = [c \in Calls |-> IF loc[c] \in Over THEN loc[c] ELSE "failed"]
    /\ UNCHANGED <<db, reg, born, settled, extra, minted, won>>

-----------------------------------------------------------------------------
(***************************************************************************)
(* Migrate.                                                                *)
(***************************************************************************)

Unclaimed == {n \in {db[k].name : k \in RowsOf("FUNC")} : ~Has(pkFuncName(n))}

\* backfillGlobalNames: the oldest function of a name wins it.
BackfillName(n) ==
    LET named == {k \in RowsOf("FUNC") : db[k].name = n} IN
    /\ phase = "names" /\ n \in Unclaimed
    /\ \E oldest \in named :
         /\ \A k \in named : Age[oldest[2]] <= Age[k[2]]
         /\ db' = Put(db, pkFuncName(n), Claim(oldest[2]))
    /\ UNCHANGED <<server, loc, reg, ghosts>>

\* removeLegacyWorkspaceHandles: a delete that checks again.
RemoveLegacyHandle(h) ==
    /\ phase = "handles" /\ Has(pkHandle(h)) /\ db[pkHandle(h)] = WorkspaceHandle
    /\ db' = Without(db, {pkHandle(h)})
    /\ UNCHANGED <<server, loc, reg, ghosts>>

WorkspaceHandles == {k \in RowsOf("HANDLE") : db[k] = WorkspaceHandle}

Unmigrated == {k[2] : k \in {j \in RowsOf("USER") : db[j].subject = Nil}}

\* migrateUserProviderPointers rewrites the row, ...
MigrateRow(u) ==
    /\ phase = "subjects" /\ u \in Unmigrated
    /\ db' = [db EXCEPT ![pkUser(u)].subject = GoogleSub[u]]
    /\ phase' = "pointer" /\ mig' = u
    /\ UNCHANGED <<loc, reg, ghosts>>

\* ... then puts the new pointer if there is none, ...
MigratePointer ==
    LET k == pkUserProviderSubject(GoogleSub[mig]) IN
    /\ phase = "pointer"
    /\ db' = IF Has(k) THEN db ELSE Put(db, k, mig)
    /\ phase' = "unlink"
    /\ UNCHANGED <<mig, loc, reg, ghosts>>

\* ... then deletes the old one.
MigrateUnlink ==
    /\ phase = "unlink"
    /\ db' = Without(db, {pkUserSubLegacy(GoogleSub[mig])})
    /\ phase' = "subjects" /\ mig' = Nil
    /\ UNCHANGED <<loc, reg, ghosts>>

Uncredited == {k[2] : k \in {j \in RowsOf("FUNC") : db[j].creator = Nil /\ CreatorOf[j[2]] # Nil}}

\* backfillCreatedBy takes the creator of the oldest version.
BackfillCreator(f) ==
    /\ phase = "creators" /\ f \in Uncredited
    /\ db' = [db EXCEPT ![pkFunc(f)].creator = CreatorOf[f]]
    /\ UNCHANGED <<server, loc, reg, ghosts>>

\* Mutant: a counter that is there is left as it is.
MiscountedMissing == {s \in Scopes : ~Has(pkFuncCount(s)) /\ Counted(s) > 0}

\* Scopes whose counter is there and wrong, or missing and needed.
Miscounted ==
    {s \in Scopes : IF Has(pkFuncCount(s)) THEN db[pkFuncCount(s)] # Counted(s)
                    ELSE Counted(s) > 0}

\* backfillFunctionCounts overwrites each counter.
BackfillCount(s) ==
    /\ phase = "counts" /\ s \in Miscounted
    /\ db' = Put(db, pkFuncCount(s), Counted(s))
    /\ UNCHANGED <<server, loc, reg, ghosts>>

\* Mutant: the counters are computed before the creators are known.
NextPhaseCountsFirst ==
    /\ UNCHANGED <<db, loc, reg, crashes, born, settled, minted, won>>
    /\ UNCHANGED mig
    /\ \/ phase = "names" /\ Unclaimed = {} /\ phase' = "handles" /\ UNCHANGED extra
       \/ phase = "handles" /\ WorkspaceHandles = {} /\ phase' = "subjects" /\ UNCHANGED extra
       \/ phase = "subjects" /\ Unmigrated = {} /\ phase' = "counts" /\ UNCHANGED extra
       \/ phase = "counts" /\ Miscounted = {} /\ phase' = "creators" /\ UNCHANGED extra
       \/ phase = "creators" /\ Uncredited = {} /\ phase' = "serving"
          /\ extra' = [s \in Scopes |-> 0]

\* Migrate goes on to its next part, and to serving.
NextPhase ==
    /\ UNCHANGED <<db, mig, loc, reg, crashes, born, settled, minted, won>>
    /\ \/ phase = "names" /\ Unclaimed = {} /\ phase' = "handles" /\ UNCHANGED extra
       \/ phase = "handles" /\ WorkspaceHandles = {} /\ phase' = "subjects" /\ UNCHANGED extra
       \/ phase = "subjects" /\ Unmigrated = {} /\ phase' = "creators" /\ UNCHANGED extra
       \/ phase = "creators" /\ Uncredited = {} /\ phase' = "counts" /\ UNCHANGED extra
       \/ phase = "counts" /\ Miscounted = {} /\ phase' = "serving"
          /\ extra' = [s \in Scopes |-> 0]

Migrate ==
    \/ \E n \in {NameOf[f] : f \in Fns} : BackfillName(n)
    \/ \E h \in Handles : RemoveLegacyHandle(h)
    \/ \E u \in Users : MigrateRow(u)
    \/ MigratePointer \/ MigrateUnlink \/ NextPhase
    \/ \E f \in Fns : BackfillCreator(f)
    \/ \E s \in Scopes : BackfillCount(s)

-----------------------------------------------------------------------------
(***************************************************************************)
(* Functions.                                                              *)
(***************************************************************************)

CountIn(s) == IF Has(pkFuncCount(s)) THEN db[pkFuncCount(s)] ELSE 0

\* The lookups, Nil where nothing is found.
ByID(f) == IF Has(pkFunc(f)) THEN f ELSE Nil

ByName(n) ==
    LET k == pkFuncName(n) IN
    IF Has(k) /\ db[k].state = "active" THEN ByID(db[k].fn) ELSE Nil

ByOwnerAndName(o, n) ==
    IF Has(pkFuncPtr(o, n)) THEN ByID(db[pkFuncPtr(o, n)]) ELSE Nil

\* ListByOwner passes over an entry whose function is gone.
ListByOwner(o) == {f \in Fns : Has(pkFuncList(o, f)) /\ ByID(f) # Nil}

\* The function a version belongs to.
Version(v) == IF Has(pkVersion(v)) THEN db[pkVersion(v)] ELSE Nil

KeysOf(f) == {pkFunc(f), pkFuncName(NameOf[f]), pkFuncPtr(OwnerOf[f], NameOf[f]),
              pkFuncList(OwnerOf[f], f)}

\* The scope a new function counts in.
ScopeOf(f) == functionCountScope(Item(f, CreatorOf[f], Nil))

\* The items that create puts, with the counter one higher.
Created(f) ==
    Put(Put(Put(Put(Put(db, pkFunc(f), Item(f, CreatorOf[f], Nil)),
        pkFuncName(NameOf[f]), Claim(f)), pkFuncPtr(OwnerOf[f], NameOf[f]), f),
        pkFuncList(OwnerOf[f], f), f), pkFuncCount(ScopeOf(f)), CountIn(ScopeOf(f)) + 1)

\* Mutant: a tombstone does not count as a claim.
CreateOverTombstone(c, f) ==
    LET taken == {k \in KeysOf(f) \cap DOMAIN db :
                    ~(k[1] = "NAME" /\ db[k].state = "tombstoned")}
    IN /\ Called(c, "Create") /\ f \notin born
       /\ born' = born \cup {f}
       /\ IF CountIn(ScopeOf(f)) >= Limit THEN MoveTo(c, "limit") /\ UNCHANGED db
          ELSE IF taken # {} THEN MoveTo(c, "conflict") /\ UNCHANGED db
          ELSE MoveTo(c, "ok") /\ db' = Created(f)
       /\ UNCHANGED <<server, reg, crashes, settled, extra, minted, won>>

\* CreateWithinLimit: one transaction; ids are fresh.
Create(c, f) ==
    /\ Called(c, "Create") /\ f \notin born
    /\ born' = born \cup {f}
    /\ IF CountIn(ScopeOf(f)) >= Limit THEN MoveTo(c, "limit") /\ UNCHANGED db
       ELSE IF KeysOf(f) \cap DOMAIN db # {} THEN MoveTo(c, "conflict") /\ UNCHANGED db
       ELSE MoveTo(c, "ok") /\ db' = Created(f)
    /\ UNCHANGED <<server, reg, crashes, settled, extra, minted, won>>

\* Update: the caller's row, which it may have read long ago, ...
UpdateRead(c, f) ==
    /\ Called(c, "Update") /\ Has(pkFunc(f))
    /\ got' = [got EXCEPT ![c] = db[pkFunc(f)]]
    /\ MoveTo(c, "put")
    /\ UNCHANGED <<db, server, op, arg, todo, ghosts>>

\* ... replaces the item if there is one.
UpdatePut(c) ==
    /\ At(c, "put")
    /\ IF Has(pkFunc(got[c].id)) THEN db' = Put(db, pkFunc(got[c].id), got[c]) /\ MoveTo(c, "ok")
       ELSE MoveTo(c, "notFound") /\ UNCHANGED db
    /\ UNCHANGED <<server, reg, ghosts>>

\* Delete reads the row, ...
DeleteRead(c, f) ==
    /\ Called(c, "Delete") /\ f \in born
    /\ IF Has(pkFunc(f)) THEN got' = [got EXCEPT ![c] = db[pkFunc(f)]] /\ MoveTo(c, "tombstone")
       ELSE MoveTo(c, "ok") /\ UNCHANGED got
    /\ UNCHANGED <<db, server, op, arg, todo, ghosts>>

\* Mutant: the name is not retired before the items go.
DeleteKeepsName(c) ==
    /\ At(c, "tombstone")
    /\ MoveTo(c, "query")
    /\ UNCHANGED <<db, server, reg, ghosts>>

\* ... retires its name, whoever has it, ...
DeleteTombstone(c) ==
    LET k == pkFuncName(got[c].name) IN
    /\ At(c, "tombstone")
    /\ db' = IF Has(k) THEN [db EXCEPT ![k].state = "tombstoned"] ELSE db
    /\ MoveTo(c, "query")
    /\ UNCHANGED <<server, reg, ghosts>>

\* ... queries the partition, ...
DeleteQuery(c) ==
    LET f == got[c].id IN
    /\ At(c, "query")
    /\ todo' = [todo EXCEPT ![c] =
          {k \in DOMAIN db : k[1] = "FUNC" /\ k[2] = f}
          \cup {pkFuncPtr(got[c].owner, got[c].name), pkFuncList(got[c].owner, f)}]
    /\ MoveTo(c, "batch")
    /\ UNCHANGED <<db, server, op, arg, got, ghosts>>

\* ... deletes what it found, in any order, ...
BatchDelete(c) ==
    /\ At(c, "batch")
    /\ \E k \in todo[c] :
         /\ db' = Without(db, {k})
         /\ todo' = [todo EXCEPT ![c] = @ \ {k}]
         /\ MoveTo(c, IF todo[c] # {k} THEN "batch"
                    ELSE IF op[c] = "Delete" THEN "count"
                    ELSE IF op[c] = "RevokeIfPrevious" THEN "unprev" ELSE "ok")
    /\ UNCHANGED <<server, op, arg, got, ghosts>>

\* ... and takes one off the counter, in a statement of its own, which is no put
\* but an ADD: when its response is lost, the client of the AWS SDK sends it again
\* (once, here) and it counts again.
DeleteCount(c) ==
    LET s == functionCountScope(got[c]) IN
    /\ \/ At(c, "count") /\ \E to \in {"recount", "ok"} : MoveTo(c, to)
       \/ At(c, "recount") /\ MoveTo(c, "ok")
    /\ db' = Put(db, pkFuncCount(s), CountIn(s) - 1)
    /\ settled' = settled \cup {got[c].id}
    /\ extra' = IF got[c].id \in settled THEN [extra EXCEPT ![s] = @ + 1] ELSE extra
    /\ UNCHANGED <<server, reg, crashes, born, minted, won>>

\* CreateVersion writes both copies, of a function that need not exist.
CreateVersion(c, f, v) ==
    /\ Called(c, "CreateVersion") /\ f \in born /\ ~Has(pkVersion(v))
    /\ db' = Put(Put(db, pkVersion(v), f), skVersion(f, v), v)
    /\ MoveTo(c, "ok")
    /\ UNCHANGED <<server, reg, ghosts>>

\* ActivateVersion checks whose the version is, ...
ActivateCheck(c, f, v) ==
    /\ Called(c, "ActivateVersion") /\ f \in born /\ Has(pkVersion(v))
    /\ IF Version(v) = f THEN arg' = [arg EXCEPT ![c] = <<f, v>>] /\ MoveTo(c, "activate")
       ELSE MoveTo(c, "notFound") /\ UNCHANGED arg
    /\ UNCHANGED <<db, server, op, got, todo, ghosts>>

\* ... and updates the function if there is one.
Activate(c) ==
    LET k == pkFunc(arg[c][1]) IN
    /\ At(c, "activate")
    /\ IF Has(k) THEN db' = [db EXCEPT ![k].active = arg[c][2]] /\ MoveTo(c, "ok")
       ELSE MoveTo(c, "notFound") /\ UNCHANGED db
    /\ UNCHANGED <<server, reg, ghosts>>

\* SetEnv upserts, whether or not the function exists.
SetEnv(c, f) ==
    /\ Called(c, "SetEnv") /\ f \in born
    /\ db' = Put(db, skEnv(f), c)
    /\ MoveTo(c, "ok")
    /\ UNCHANGED <<server, reg, ghosts>>

-----------------------------------------------------------------------------
(***************************************************************************)
(* Users, their subject pointers and their public ids.                     *)
(***************************************************************************)

Row(u, s, role) == [id |-> u, subject |-> s, role |-> role]

\* BootstrapFirstUser: the lock is the only item with a condition.
BootstrapFirstUser(c, u, s) ==
    /\ Called(c, "BootstrapFirstUser") /\ ~Has(pkUser(u))
    /\ IF Has(Lock) THEN MoveTo(c, "conflict") /\ UNCHANGED db
       ELSE /\ db' = Put(Put(Put(db, Lock, Nil), pkUser(u), Row(u, s, "admin")),
                         pkUserProviderSubject(s), u)
            /\ MoveTo(c, "ok")
    /\ UNCHANGED <<server, reg, ghosts>>

\* Create, which a login calls when BootstrapFirstUser was refused.
CreateUser(c, u, s) ==
    /\ Called(c, "CreateUser") /\ Has(Lock)
    /\ IF Has(pkUser(u)) \/ Has(pkUserProviderSubject(s)) THEN MoveTo(c, "conflict") /\ UNCHANGED db
       ELSE /\ db' = Put(Put(db, pkUser(u), Row(u, s, "member")), pkUserProviderSubject(s), u)
            /\ MoveTo(c, "ok")
    /\ UNCHANGED <<server, reg, ghosts>>

\* Update reads the row it is about to replace, ...
UpdateUserRead(c, u, s) ==
    /\ Called(c, "UpdateUser") /\ Has(pkUser(u))
    /\ got' = [got EXCEPT ![c] = db[pkUser(u)]]
    /\ arg' = [arg EXCEPT ![c] = Row(u, s, db[pkUser(u)].role)]
    /\ MoveTo(c, "user")
    /\ UNCHANGED <<db, server, op, todo, ghosts>>

\* ... and puts it, moving the pointer when the subject has changed since.
UpdateUserPut(c) ==
    LET u == pkUser(arg[c].id)
        old == pkUserProviderSubject(got[c].subject)
        new == pkUserProviderSubject(arg[c].subject)
    IN /\ At(c, "user")
       /\ IF ~Has(u) THEN MoveTo(c, "notFound") /\ UNCHANGED db
          ELSE IF old = new THEN MoveTo(c, "ok") /\ db' = Put(db, u, arg[c])
          ELSE IF Has(new) THEN MoveTo(c, "conflict") /\ UNCHANGED db
          ELSE MoveTo(c, "ok") /\ db' = Put(Put(Without(db, {old}), u, arg[c]), new, arg[c].id)
       /\ UNCHANGED <<server, reg, ghosts>>

CreateHandle(c, h, u) ==
    /\ Called(c, "CreateHandle") /\ Has(pkUser(u))
    /\ IF Has(pkHandle(h)) THEN MoveTo(c, "conflict") /\ UNCHANGED db
       ELSE db' = Put(db, pkHandle(h), u) /\ MoveTo(c, "ok")
    /\ UNCHANGED <<server, reg, ghosts>>

\* Rename reads whose the old id is; a workspace's is not found, ...
RenameRead(c, old, new) ==
    /\ Called(c, "RenameHandle") /\ old # new /\ Has(pkHandle(old))
    /\ db[pkHandle(old)] # WorkspaceHandle
    /\ got' = [got EXCEPT ![c] = db[pkHandle(old)]]
    /\ arg' = [arg EXCEPT ![c] = <<old, new>>]
    /\ MoveTo(c, "rename")
    /\ UNCHANGED <<db, server, op, todo, ghosts>>

\* ... and moves it in one transaction.
Rename(c) ==
    LET old == pkHandle(arg[c][1])  new == pkHandle(arg[c][2]) IN
    /\ At(c, "rename")
    /\ IF Has(new) THEN MoveTo(c, "conflict") /\ UNCHANGED db
       ELSE IF ~Has(old) THEN MoveTo(c, "notFound") /\ UNCHANGED db
       ELSE db' = Put(Without(db, {old}), new, got[c]) /\ MoveTo(c, "ok")
    /\ UNCHANGED <<server, reg, ghosts>>

-----------------------------------------------------------------------------
(***************************************************************************)
(* Workspaces and their members.                                           *)
(***************************************************************************)

\* CreateWorkspace: the workspace and its first admin in one transaction.
CreateWorkspace(c, w, u) ==
    /\ Called(c, "CreateWorkspace") /\ w \notin born
    /\ born' = born \cup {w}
    /\ db' = Put(Put(db, pkWorkspace(w), 1), skMember(w, u), "admin")
    /\ MoveTo(c, "ok")
    /\ UNCHANGED <<server, reg, crashes, settled, extra, minted, won>>

\* AddMember puts the member, of a workspace that need not exist.
AddMember(c, w, u) ==
    /\ Called(c, "AddMember") /\ w \in born
    /\ db' = Put(db, skMember(w, u), "member")
    /\ MoveTo(c, "ok")
    /\ UNCHANGED <<server, reg, ghosts>>

\* Update of a row the caller has read while there was one.
UpdateWorkspace(c, w) ==
    /\ Called(c, "UpdateWorkspace") /\ w \in born
    /\ IF Has(pkWorkspace(w)) THEN db' = Put(db, pkWorkspace(w), 2) /\ MoveTo(c, "ok")
       ELSE MoveTo(c, "notFound") /\ UNCHANGED db
    /\ UNCHANGED <<server, reg, ghosts>>

\* Delete queries the partition; BatchDelete does the rest.
DeleteWorkspace(c, w) ==
    LET found == {k \in DOMAIN db : k[1] = "WS" /\ k[2] = w} IN
    /\ Called(c, "DeleteWorkspace") /\ w \in born
    /\ todo' = [todo EXCEPT ![c] = found]
    /\ MoveTo(c, IF found = {} THEN "ok" ELSE "batch")
    /\ UNCHANGED <<db, server, op, arg, got, ghosts>>

-----------------------------------------------------------------------------
(***************************************************************************)
(* Refresh grants: the secret a call mints is the call.                    *)
(***************************************************************************)

CreateGrant(c, g) ==
    /\ Called(c, "CreateGrant") /\ g \notin born
    /\ born' = born \cup {g} /\ minted' = minted \cup {c}
    /\ db' = Put(Put(db, pkOAuthGrant(c), [id |-> g, prev |-> Nil]), pkOAuthGrantID(g), c)
    /\ MoveTo(c, "ok")
    /\ UNCHANGED <<server, reg, crashes, settled, extra, won>>

\* Rotate reads the item of the secret it was shown, ...
RotateRead(c, h) ==
    /\ Called(c, "Rotate") /\ h \in minted
    /\ IF Has(pkOAuthGrant(h))
       THEN got' = [got EXCEPT ![c] = db[pkOAuthGrant(h)]] /\ MoveTo(c, "rotate")
       ELSE MoveTo(c, "conflict") /\ UNCHANGED got
    /\ arg' = [arg EXCEPT ![c] = h]
    /\ UNCHANGED <<db, server, op, todo, ghosts>>

\* The items of a rotation: the new secret's, the id's pointer to it, and the
\* one that remembers the old secret in place of the one before.
Rotated(c) ==
    LET g == got[c].id IN
    Put(Put(Put(Without(db, {pkOAuthGrant(arg[c]), pkOAuthGrantPrev(got[c].prev)}),
        pkOAuthGrant(c), [id |-> g, prev |-> arg[c]]),
        pkOAuthGrantID(g), c),
        pkOAuthGrantPrev(arg[c]), g)

\* Mutant: the id's pointer is set whatever it says.
RotateBlind(c) ==
    /\ At(c, "rotate")
    /\ IF Has(pkOAuthGrant(arg[c]))
       THEN /\ db' = Rotated(c) /\ MoveTo(c, "ok")
            /\ minted' = minted \cup {c} /\ won' = [won EXCEPT ![c] = arg[c]]
       ELSE MoveTo(c, "conflict") /\ UNCHANGED <<db, minted, won>>
    /\ UNCHANGED <<server, reg, crashes, born, settled, extra>>

\* ... and replaces it if it is still there and still the id's secret.
RotatePut(c) ==
    LET id == pkOAuthGrantID(got[c].id) IN
    /\ At(c, "rotate")
    /\ IF Has(pkOAuthGrant(arg[c])) /\ Has(id) /\ db[id] = arg[c]
       THEN /\ db' = Rotated(c) /\ MoveTo(c, "ok")
            /\ minted' = minted \cup {c} /\ won' = [won EXCEPT ![c] = arg[c]]
       ELSE MoveTo(c, "conflict") /\ UNCHANGED <<db, minted, won>>
    /\ UNCHANGED <<server, reg, crashes, born, settled, extra>>

DeleteGrant(c, g) ==
    /\ Called(c, "DeleteGrant") /\ g \in born
    /\ arg' = [arg EXCEPT ![c] = <<g, Nil>>] /\ MoveTo(c, "pointer")
    /\ UNCHANGED <<db, server, op, got, todo, ghosts>>

\* RevokeIfPreviousSecret deletes the grant that the secret once belonged to.
RevokeIfPrevious(c, h) ==
    /\ Called(c, "RevokeIfPrevious") /\ h \in minted
    /\ IF Has(pkOAuthGrantPrev(h))
       THEN arg' = [arg EXCEPT ![c] = <<db[pkOAuthGrantPrev(h)], h>>] /\ MoveTo(c, "pointer")
       ELSE MoveTo(c, "notFound") /\ UNCHANGED arg
    /\ UNCHANGED <<db, server, op, got, todo, ghosts>>

\* Delete follows the id's pointer to the secret in force, ...
DeleteGrantPointer(c) ==
    LET id == pkOAuthGrantID(arg[c][1]) IN
    /\ At(c, "pointer")
    /\ IF Has(id) THEN got' = [got EXCEPT ![c] = db[id]] /\ MoveTo(c, "prev")
       ELSE MoveTo(c, IF op[c] = "RevokeIfPrevious" THEN "unprev" ELSE "ok") /\ UNCHANGED got
    /\ UNCHANGED <<db, server, op, arg, todo, ghosts>>

\* ... looks there for the one before, and leaves the rest to BatchDelete.
DeleteGrantPrev(c) ==
    LET k == pkOAuthGrant(got[c]) IN
    /\ At(c, "prev")
    /\ todo' = [todo EXCEPT ![c] = {k, pkOAuthGrantID(arg[c][1])} \cup
          IF Has(k) /\ db[k].prev # Nil THEN {pkOAuthGrantPrev(db[k].prev)} ELSE {}]
    /\ MoveTo(c, "batch")
    /\ UNCHANGED <<db, server, op, arg, got, ghosts>>

\* RevokeIfPreviousSecret deletes the pointer it came by.
RevokeUnlink(c) ==
    /\ At(c, "unprev")
    /\ db' = Without(db, {pkOAuthGrantPrev(arg[c][2])})
    /\ MoveTo(c, "ok")
    /\ UNCHANGED <<server, reg, ghosts>>

-----------------------------------------------------------------------------

Functions(c) ==
    \/ \E f \in Fns : Create(c, f) \/ UpdateRead(c, f) \/ DeleteRead(c, f) \/ SetEnv(c, f)
    \/ \E f \in Fns, v \in Vers : CreateVersion(c, f, v) \/ ActivateCheck(c, f, v)
    \/ UpdatePut(c) \/ DeleteTombstone(c) \/ DeleteQuery(c) \/ BatchDelete(c) \/ DeleteCount(c)
    \/ Activate(c)

Accounts(c) ==
    \/ \E u \in Users, s \in Subjects :
         BootstrapFirstUser(c, u, s) \/ CreateUser(c, u, s) \/ UpdateUserRead(c, u, s)
    \/ \E h \in Handles, u \in Users : CreateHandle(c, h, u)
    \/ \E old, new \in Handles : RenameRead(c, old, new)
    \/ UpdateUserPut(c) \/ Rename(c)

WorkspaceCalls(c) ==
    \/ \E w \in Workspaces, u \in Users : CreateWorkspace(c, w, u) \/ AddMember(c, w, u)
    \/ \E w \in Workspaces : UpdateWorkspace(c, w) \/ DeleteWorkspace(c, w)

GrantCalls(c) ==
    \/ \E g \in Grants : CreateGrant(c, g) \/ DeleteGrant(c, g)
    \/ \E h \in Calls : RotateRead(c, h) \/ RevokeIfPrevious(c, h)
    \/ RotatePut(c) \/ DeleteGrantPointer(c) \/ DeleteGrantPrev(c) \/ RevokeUnlink(c)

StoreNext ==
    \/ Migrate \/ Crash
    \/ \E c \in Calls : Functions(c) \/ Accounts(c) \/ WorkspaceCalls(c) \/ GrantCalls(c) \/ StatementFails(c)

StoreSpec == StoreInit /\ [][StoreNext]_storeVars

-----------------------------------------------------------------------------
(***************************************************************************)
(* Properties.                                                             *)
(***************************************************************************)

\* Every item has the shape its key says.
StoreTypeOK ==
    /\ \A k \in DOMAIN db :
         /\ k[1] = "NAME" => db[k] \in [fn : Fns, state : {"active", "tombstoned"}]
         /\ k \in RowsOf("FUNC") => db[k] \in [id : Fns, owner : {OwnerOf[f] : f \in Fns},
                 name : {NameOf[f] : f \in Fns}, creator : {CreatorOf[f] : f \in Fns} \cup {Nil},
                 active : Vers \cup {Nil}]
         /\ k[1] = "COUNT" => db[k] \in Int
         /\ k[1] = "USER" => db[k] \in [id : Users, subject : Subjects \cup {Nil},
                                        role : {"admin", "member"}]
         /\ k[1] = "GRANT" => db[k] \in [id : Grants, prev : Calls \cup {Nil}]
         /\ k[1] = "GRANTID" => db[k] \in Calls
    /\ phase \in {"names", "handles", "subjects", "pointer", "unlink", "creators", "counts",
                  "serving"}
    /\ mig \in Users \cup {Nil}
    /\ crashes \in 0 .. MaxCrashes
    /\ minted \subseteq Calls

\* Whatever calls fail half-way and however the server crashes, a function
\* that still holds its name is whole: a delete retires the name before it
\* removes anything, so no lookup by name finds the remains of a function.
\* And the version it runs, in whatever order versions are added and activated
\* and rows are written back, exists and is its own.
WholeWhileNamed ==
    \A n \in {NameOf[f] : f \in Fns} :
        Has(pkFuncName(n)) /\ db[pkFuncName(n)].state = "active" =>
            LET f == ByName(n) IN
            /\ f # Nil
            /\ db[pkFunc(f)].name = n
            /\ ByOwnerAndName(OwnerOf[f], n) = f
            /\ f \in ListByOwner(OwnerOf[f])
            /\ db[pkFunc(f)].active # Nil => Version(db[pkFunc(f)].active) = f

\* The quota counter is never below what is really there, but for what was taken
\* off it more than once for one function since the last start: by two deletes at
\* once, or by one whose lost response made the SDK send its ADD -1 again.  (The
\* comment of functions.go:563 says "never too low".)  A delete that stops
\* half-way may leave it too high, which the next start repairs.
CounterCovers ==
    phase = "serving" => \A s \in Scopes : CountIn(s) + extra[s] >= Counted(s)

\* However often the server was stopped in the middle of a migration, when it
\* serves again the counters say exactly what is there.
MigrateHeals ==
    [][phase # "serving" /\ phase' = "serving" =>
         \A s \in Scopes : CountIn(s) = Counted(s)]_storeVars

\* What somebody has is theirs for good, or gone for good.  A name, a subject or
\* a public id is never given to another in place: two calls that want the same
\* one are told apart by the condition of the put, not by what either has read
\* before.  A name that was retired is nobody's again, and a function or a
\* workspace that is gone does not come back through a call that read it while
\* it was there.
ClaimsAreForGood ==
    [][/\ \A k \in DOMAIN db \cap DOMAIN db' :
            /\ k[1] = "NAME" => db'[k].fn = db[k].fn
            /\ k[1] \in {"SUBJECT", "HANDLE"} => db'[k] = db[k]
       /\ \A n \in {NameOf[f] : f \in Fns} :
            Has(pkFuncName(n)) /\ db[pkFuncName(n)].state = "tombstoned" =>
                Has(pkFuncName(n))' /\ db'[pkFuncName(n)] = db[pkFuncName(n)]
       /\ \A k \in DOMAIN db' \ DOMAIN db :
            k[1] \in {"FUNC", "WS"} /\ Len(k) = 2 => k[2] \notin born]_storeVars

\* Every user that has a subject is found by it once no migration is running
\* and nobody is changing a user ("one-time, idempotent migration").
MigratedUsersAreFound ==
    phase = "serving" => \A u \in OldUsers : Has(pkUserProviderSubject(GoogleSub[u]))

\* Refresh secrets are one-time codes: the secret in force is the one its
\* grant's pointer names, a rotation trades it for the next, and a deletion
\* that is under way beside it ends it.
Secrets == INSTANCE SingleUse WITH
    Codes <- Calls, Users <- Calls,
    fresh <- {db[k] : k \in RowsOf("GRANTID")},
    spent <- minted \ {db[k] : k \in RowsOf("GRANTID")},
    winner <- [h \in Calls |-> {c \in Calls : won[c] = h}]

\* The refresh grants of this store implement one-time codes.
SecretsAreSingleUse == Secrets!Spec
=============================================================================
