-------------------------- MODULE FunctionLifecycle --------------------------
(***************************************************************************)
(* The life of a function: service.Deployer.Deploy (deploy.go), Activate   *)
(* and Delete of service.Functions (functions.go), the SQL repository they *)
(* write through (store/sqlcommon/functions.go, aggregate.go), the         *)
(* invocations that read the rows and warm pools, and the offline blob     *)
(* collector (cmd/funcbox-server/gc.go) run against a live server.         *)
(*                                                                         *)
(* Every SQL statement outside a transaction is a step of its own, and so  *)
(* is every transaction, as on the sqlite backend with foreign keys on.    *)
(* A deploy creates at most one function and one version, so the ids of    *)
(* functions and versions are the deploys that create them.                *)
(***************************************************************************)
EXTENDS Naturals, FiniteSets

CONSTANTS
    Deploys,     \* Deploy calls; also the ids of functions and of versions
    Rollbacks,   \* Activate calls
    Deletes,     \* Delete calls
    EnvEdits,    \* SetEnv and DeleteEnv calls
    Invokes,     \* invocations
    Collectors,  \* runs of funcbox-server gc --apply
    Names,       \* function names
    Owners,      \* owner ids
    Workspaces,  \* the owners that are workspaces; the others are users
    Users,       \* deploying users
    Hashes,      \* bundle contents
    Descs,       \* descriptions
    Limit,       \* max_functions_per_user / max_functions_per_member, 0 for none
    None         \* no row, NULL

ASSUME LimitAssumption == Limit \in Nat
ASSUME DeploysAssumption == IsFiniteSet(Deploys)
ASSUME NoneNotAnId == None \notin Deploys

VARIABLES
    functions,  \* functions table: id -> row, or None
    names,      \* function_names table: name -> claim, or None
    versions,   \* function_versions table: id -> row, or None
    envs,       \* the function ids that have env_vars rows
    logs,       \* the function ids that have invocation_logs rows
    blobs,      \* the bundles in the blob store
    warm,       \* version -> the pool runtime.Manager tracks: "none", "ok" or "err"
    pc,         \* call -> where it is
    arg,        \* deploy -> its parameters; rollback -> the target version
    fn,         \* call -> its copy of the function row: its id ...
    old,        \*         ... and its active_version_id
    gc          \* collector -> where it is and what it has read

vars == <<functions, names, versions, envs, logs, blobs, warm, pc, arg, fn, old, gc>>
tables == <<functions, names, versions, envs, logs>>
locals == <<arg, fn, old>>

Calls == Deploys \cup Rollbacks \cup Deletes \cup EnvEdits \cup Invokes
DeployArgs == [name : Names, owner : Owners, by : Users, hash : Hashes, desc : Descs]
Function == [name : Names, owner : Owners, by : Users, desc : Descs, active : Deploys \cup {None}]
Version == [fn : Deploys, hash : Hashes]
Claim == [fn : Deploys, live : BOOLEAN]
Collection == [at : {"idle", "scan", "sweep"}, todo : SUBSET Deploys,
               ref : SUBSET Hashes, dead : SUBSET Hashes, seen : SUBSET Deploys]

\* A call is of one kind, and NULL is no row.
ASSUME KindsAssumption ==
    /\ Deploys \cap (Rollbacks \cup Deletes \cup EnvEdits \cup Invokes) = {}
    /\ Rollbacks \cap (Deletes \cup EnvEdits \cup Invokes) = {}
    /\ Deletes \cap (EnvEdits \cup Invokes) = {}
    /\ EnvEdits \cap Invokes = {}
ASSUME NoneNotARow == None \notin Function \cup Version \cup Claim

\* The functions table's rows.
Rows == {f \in Deploys : functions[f] # None}

Goto(c, to) == pc' = [pc EXCEPT ![c] = to]

GcIdle == [at |-> "idle", todo |-> {}, ref |-> {}, dead |-> {}, seen |-> {}]

Init ==
    /\ functions = [f \in Deploys |-> None]
    /\ names     = [n \in Names |-> None]
    /\ versions  = [v \in Deploys |-> None]
    /\ envs = {} /\ logs = {} /\ blobs = {}
    /\ warm = [v \in Deploys |-> "none"]
    /\ pc  = [c \in Calls |-> "start"]
    /\ arg = [c \in Deploys \cup Rollbacks |-> None]
    /\ fn  = [c \in Calls |-> None]
    /\ old = [c \in Calls |-> None]
    /\ gc  = [g \in Collectors |-> GcIdle]

\* The request is turned down before anything is written: invalid bundle or
\* manifest, unknown owner, name or version, or an actor without the right.
Refuse(c) ==
    /\ pc[c] = "start"
    /\ Goto(c, "failed")
    /\ UNCHANGED <<tables, blobs, warm, locals, gc>>

\* A call fails where it is: the store or the blob store returned an error,
\* its context ended, or the process died.  What it wrote before stays.
Fail(c) ==
    /\ pc[c] \notin {"start", "ok", "failed"}
    /\ Goto(c, "failed")
    /\ UNCHANGED <<tables, blobs, warm, locals, gc>>

\* The call keeps its own copy of function row f.
ReadRow(c, f) ==
    /\ fn' = [fn EXCEPT ![c] = f]
    /\ old' = [old EXCEPT ![c] = functions[f].active]

\* runtime.Manager.Invalidate (nil and untracked versions are no-ops).
Invalidated(v) == [w \in Deploys |-> IF w = v THEN "none" ELSE warm[w]]

(***************************************************************************)
(* Queries of the repository.                                              *)
(***************************************************************************)

\* ByName: the function that holds the live claim on a name, if any.
ByName(n) ==
    {f \in Rows : names[n] # None /\ names[n].live /\ names[n].fn = f}

\* functionLimitScopeCond and checkFunctionLimit: the functions that count
\* against the same quota: the owner's, and in a workspace only the creator's.
InScope(owner, by) ==
    {f \in Rows : /\ functions[f].owner = owner
                  /\ owner \in Workspaces => functions[f].by = by}

LimitReached(a) == Limit > 0 /\ Cardinality(InScope(a.owner, a.by)) >= Limit

(***************************************************************************)
(* Deploy.                                                                 *)
(***************************************************************************)

\* Validation, owner resolution and authorization have passed; the bundle is
\* put in the blob store (a no-op if it is there).
DeployPut(d) ==
    /\ pc[d] = "start"
    /\ \E a \in DeployArgs :
          /\ arg' = [arg EXCEPT ![d] = a]
          /\ blobs' = blobs \cup {a.hash}
    /\ Goto(d, "lookup")
    /\ UNCHANGED <<tables, warm, fn, old, gc>>

\* Functions().ByName and the switch on its result: a new name, another
\* owner's name, a changed description, or an unchanged row.
DeployLookup(d) ==
    /\ pc[d] = "lookup"
    /\ \/ /\ ByName(arg[d].name) = {}
          /\ Goto(d, "precheck")
          /\ UNCHANGED <<fn, old>>
       \/ \E f \in ByName(arg[d].name) :
            \/ /\ functions[f].owner # arg[d].owner
               /\ Goto(d, "failed")
               /\ UNCHANGED <<fn, old>>
            \/ /\ functions[f].owner = arg[d].owner
               /\ ReadRow(d, f)
               /\ Goto(d, IF functions[f].desc # arg[d].desc THEN "update" ELSE "version")
    /\ UNCHANGED <<tables, blobs, warm, arg, gc>>

\* checkFunctionLimit, the cheap read before the insert.
DeployPrecheck(d) ==
    /\ pc[d] = "precheck"
    /\ Goto(d, IF LimitReached(arg[d]) THEN "failed" ELSE "create")
    /\ UNCHANGED <<tables, blobs, warm, locals, gc>>

\* Mutant: the insert relies on the pre-check for the quota.
DeployCreateUnchecked(d) ==
    LET a == arg[d] IN
    /\ pc[d] = "create"
    /\ IF names[a.name] # None
       THEN Goto(d, "failed") /\ UNCHANGED <<functions, names, fn, old>>
       ELSE /\ functions' = [functions EXCEPT ![d] =
                  [name |-> a.name, owner |-> a.owner, by |-> a.by, desc |-> a.desc, active |-> None]]
            /\ names' = [names EXCEPT ![a.name] = [fn |-> d, live |-> TRUE]]
            /\ fn' = [fn EXCEPT ![d] = d]
            /\ old' = [old EXCEPT ![d] = None]
            /\ Goto(d, "version")
    /\ UNCHANGED <<versions, envs, logs, blobs, warm, arg, gc>>

\* CreateWithinLimit: one transaction that inserts the function if its scope
\* is under the limit, and claims the name if no one ever did.
DeployCreate(d) ==
    LET a == arg[d] IN
    /\ pc[d] = "create"
    /\ IF LimitReached(a) \/ names[a.name] # None
       THEN Goto(d, "failed") /\ UNCHANGED <<functions, names, fn, old>>
       ELSE /\ functions' = [functions EXCEPT ![d] =
                  [name |-> a.name, owner |-> a.owner, by |-> a.by, desc |-> a.desc, active |-> None]]
            /\ names' = [names EXCEPT ![a.name] = [fn |-> d, live |-> TRUE]]
            /\ fn' = [fn EXCEPT ![d] = d]
            /\ old' = [old EXCEPT ![d] = None]
            /\ Goto(d, "version")
    /\ UNCHANGED <<versions, envs, logs, blobs, warm, arg, gc>>

\* Functions().Update: writes back the whole row Deploy read, with the new
\* description; ErrNotFound if the row is gone.
DeployUpdate(d) ==
    /\ pc[d] = "update"
    /\ IF fn[d] \in Rows
       THEN /\ functions' = [functions EXCEPT ![fn[d]].desc = arg[d].desc,
                                              ![fn[d]].active = old[d]]
            /\ Goto(d, "version")
       ELSE Goto(d, "failed") /\ UNCHANGED functions
    /\ UNCHANGED <<names, versions, envs, logs, blobs, warm, locals, gc>>

\* Mutant: no foreign key on function_versions.
DeployVersionNoKey(d) ==
    /\ pc[d] = "version"
    /\ versions' = [versions EXCEPT ![d] = [fn |-> fn[d], hash |-> arg[d].hash]]
    /\ Goto(d, "activate")
    /\ UNCHANGED <<functions, names, envs, logs, blobs, warm, locals, gc>>

\* CreateVersion: the foreign key refuses a version of a deleted function.
DeployVersion(d) ==
    /\ pc[d] = "version"
    /\ IF fn[d] \in Rows
       THEN /\ versions' = [versions EXCEPT ![d] = [fn |-> fn[d], hash |-> arg[d].hash]]
            /\ Goto(d, "activate")
       ELSE Goto(d, "failed") /\ UNCHANGED versions
    /\ UNCHANGED <<functions, names, envs, logs, blobs, warm, locals, gc>>

\* Mutant: any existing version will do.
CanActivateAny(f, v) == versions[v] # None /\ f \in Rows

\* Store.ActivateVersion: the transaction shared by Deploy and Activate.
CanActivate(f, v) == versions[v] # None /\ versions[v].fn = f /\ f \in Rows

ActivateVersion(c, f, v) ==
    /\ pc[c] = "activate"
    /\ IF CanActivate(f, v)
       THEN /\ functions' = [functions EXCEPT ![f].active = v]
            /\ Goto(c, "invalidate")
       ELSE Goto(c, "failed") /\ UNCHANGED functions
    /\ UNCHANGED <<names, versions, envs, logs, blobs, warm, locals, gc>>

DeployActivate(d) == ActivateVersion(d, fn[d], d)

\* Runtime.Invalidate of the version that was active when the call read the
\* row; then the call returns.
DeployInvalidate(d) ==
    /\ pc[d] = "invalidate"
    /\ warm' = Invalidated(old[d])
    /\ Goto(d, "ok")
    /\ UNCHANGED <<tables, blobs, locals, gc>>

(***************************************************************************)
(* Activate (rollback).                                                    *)
(***************************************************************************)

\* The handler resolves the function by owner and name, and may be given the
\* id of any version.
RollbackResolve(b) ==
    /\ pc[b] = "start"
    /\ \E f \in Rows, v \in {w \in Deploys : versions[w] # None} :
          /\ ReadRow(b, f)
          /\ arg' = [arg EXCEPT ![b] = v]
    /\ Goto(b, "activate")
    /\ UNCHANGED <<tables, blobs, warm, gc>>

RollbackActivate(b) == ActivateVersion(b, fn[b], arg[b])

RollbackInvalidate(b) ==
    /\ pc[b] = "invalidate"
    /\ warm' = IF old[b] = arg[b] THEN warm ELSE Invalidated(old[b])
    /\ Goto(b, "ok")
    /\ UNCHANGED <<tables, blobs, locals, gc>>

(***************************************************************************)
(* Delete: one invalidation and five statements, in no transaction.        *)
(***************************************************************************)

DeleteResolve(x) ==
    /\ pc[x] = "start"
    /\ \E f \in Rows : ReadRow(x, f)
    /\ Goto(x, "invalidate")
    /\ UNCHANGED <<tables, blobs, warm, arg, gc>>

DeleteInvalidate(x) ==
    /\ pc[x] = "invalidate"
    /\ warm' = Invalidated(old[x])
    /\ Goto(x, "tombstone")
    /\ UNCHANGED <<tables, blobs, locals, gc>>

\* Mutant: the claim is deleted with the function.
DeleteFreesName(x) ==
    /\ pc[x] = "tombstone"
    /\ names' = [n \in Names |->
                    IF names[n] # None /\ names[n].fn = fn[x] THEN None ELSE names[n]]
    /\ Goto(x, "envs")
    /\ UNCHANGED <<functions, versions, envs, logs, blobs, warm, locals, gc>>

DeleteTombstone(x) ==
    /\ pc[x] = "tombstone"
    /\ names' = [n \in Names |->
                    IF names[n] # None /\ names[n].fn = fn[x]
                    THEN [names[n] EXCEPT !.live = FALSE] ELSE names[n]]
    /\ Goto(x, "envs")
    /\ UNCHANGED <<functions, versions, envs, logs, blobs, warm, locals, gc>>

DeleteEnvs(x) ==
    /\ pc[x] = "envs"
    /\ envs' = envs \ {fn[x]}
    /\ Goto(x, "logs")
    /\ UNCHANGED <<functions, names, versions, logs, blobs, warm, locals, gc>>

DeleteLogs(x) ==
    /\ pc[x] = "logs"
    /\ logs' = logs \ {fn[x]}
    /\ Goto(x, "versions")
    /\ UNCHANGED <<functions, names, versions, envs, blobs, warm, locals, gc>>

DeleteVersions(x) ==
    /\ pc[x] = "versions"
    /\ versions' = [v \in Deploys |->
                       IF versions[v] # None /\ versions[v].fn = fn[x] THEN None ELSE versions[v]]
    /\ Goto(x, "row")
    /\ UNCHANGED <<functions, names, envs, logs, blobs, warm, locals, gc>>

\* The rows that refer to function f.
HasChildren(f) ==
    \/ f \in envs \cup logs
    \/ \E v \in Deploys : versions[v] # None /\ versions[v].fn = f

\* The foreign keys refuse the last statement if a row that refers to the
\* function has come back since.
DeleteRow(x) ==
    /\ pc[x] = "row"
    /\ IF HasChildren(fn[x])
       THEN Goto(x, "failed") /\ UNCHANGED functions
       ELSE /\ functions' = [functions EXCEPT ![fn[x]] = None]
            /\ Goto(x, "ok")
    /\ UNCHANGED <<names, versions, envs, logs, blobs, warm, locals, gc>>

(***************************************************************************)
(* Environment variables.                                                  *)
(***************************************************************************)

\* SetEnv upserts a row, which the foreign key allows only while the function
\* exists; the pools of the function are left alone.
SetEnv(e) ==
    /\ pc[e] = "start"
    /\ \E f \in Rows : envs' = envs \cup {f}
    /\ Goto(e, "ok")
    /\ UNCHANGED <<functions, names, versions, logs, blobs, warm, locals, gc>>

DeleteEnv(e) ==
    /\ pc[e] = "start"
    /\ \E f \in Rows : envs' = envs \ {f}
    /\ Goto(e, "ok")
    /\ UNCHANGED <<functions, names, versions, logs, blobs, warm, locals, gc>>

(***************************************************************************)
(* Invocations.                                                            *)
(***************************************************************************)

\* Serve reads the row by owner and name, so also that of a half-deleted
\* function (ServeByName, only that of a live name); one without an active
\* version is answered 404.
InvokeLookup(i) ==
    /\ pc[i] = "start"
    /\ \E f \in Rows :
          /\ ReadRow(i, f)
          /\ Goto(i, IF functions[f].active = None THEN "failed" ELSE "load")
    /\ UNCHANGED <<tables, blobs, warm, arg, gc>>

\* Functions().Version of the active version it read.
InvokeLoad(i) ==
    /\ pc[i] = "load"
    /\ Goto(i, IF versions[old[i]] = None THEN "failed" ELSE "handler")
    /\ UNCHANGED <<tables, blobs, warm, locals, gc>>

\* Manager.HandlerFor: the version's pool is tracked from here on, even when
\* its build fails (which it does without the bundle, and may anyway).
InvokeHandler(i) ==
    LET v == old[i] IN
    /\ pc[i] = "handler"
    /\ \/ warm[v] = "ok" /\ Goto(i, "log") /\ UNCHANGED warm
       \/ warm[v] = "err" /\ Goto(i, "failed") /\ UNCHANGED warm
       \/ /\ warm[v] = "none" /\ arg[v].hash \in blobs
          /\ warm' = [warm EXCEPT ![v] = "ok"]
          /\ Goto(i, "log")
       \/ /\ warm[v] = "none"
          /\ warm' = [warm EXCEPT ![v] = "err"]
          /\ Goto(i, "failed")
    /\ UNCHANGED <<tables, blobs, locals, gc>>

\* The LRU cap of the Manager drops a pool, or an out-of-memory abort does.
Evict(v) ==
    /\ warm[v] # "none"
    /\ warm' = Invalidated(v)
    /\ UNCHANGED <<tables, blobs, pc, locals, gc>>

\* appendInvocationLog's goroutine, after the response: the foreign key
\* refuses the log of a deleted function, and the failure is only logged.
InvokeLog(i) ==
    /\ pc[i] = "log"
    /\ logs' = IF fn[i] \in Rows THEN logs \cup {fn[i]} ELSE logs
    /\ Goto(i, "ok")
    /\ UNCHANGED <<functions, names, versions, envs, blobs, warm, locals, gc>>

(***************************************************************************)
(* runGC: scan the store, list the blobs, delete what was not referenced.  *)
(***************************************************************************)

\* Functions().ListAll.
GcListAll(g) ==
    /\ gc[g].at = "idle"
    /\ gc' = [gc EXCEPT ![g] = [@ EXCEPT !.at = "scan", !.todo = Rows,
                                          !.seen = {v \in Deploys : versions[v] # None}]]
    /\ UNCHANGED <<tables, blobs, warm, pc, locals>>

\* Mutant: only the active version counts.
ReferencedByActive(f) ==
    {versions[v].hash : v \in {w \in Deploys : /\ versions[w] # None
                                               /\ functions[f] # None /\ functions[f].active = w}}

\* The bundles the versions of f refer to.
Referenced(f) ==
    {versions[v].hash : v \in {w \in Deploys : versions[w] # None /\ versions[w].fn = f}}

\* Functions().ListVersions of the next function of the list.
GcListVersions(g, f) ==
    /\ gc[g].at = "scan" /\ f \in gc[g].todo
    /\ gc' = [gc EXCEPT ![g] = [@ EXCEPT !.todo = gc[g].todo \ {f}, !.ref = gc[g].ref \cup Referenced(f)]]
    /\ UNCHANGED <<tables, blobs, warm, pc, locals>>

\* lister.List.
GcListBlobs(g) ==
    /\ gc[g].at = "scan" /\ gc[g].todo = {}
    /\ gc' = [gc EXCEPT ![g] = [@ EXCEPT !.at = "sweep", !.dead = blobs \ gc[g].ref]]
    /\ UNCHANGED <<tables, blobs, warm, pc, locals>>

\* With --apply, blobStore.Delete of one of them; one that fails is skipped.
GcDelete(g, h) ==
    /\ gc[g].at = "sweep" /\ h \in gc[g].dead
    /\ gc' = [gc EXCEPT ![g].dead = @ \ {h}]
    /\ blobs' \in {blobs, blobs \ {h}}
    /\ UNCHANGED <<tables, warm, pc, locals>>

\* Nothing is left to do.
Quiescent ==
    /\ \A c \in Calls : pc[c] \in {"ok", "failed"}
    /\ \A g \in Collectors : gc[g].at = "sweep" /\ gc[g].dead = {}
    /\ UNCHANGED vars

-----------------------------------------------------------------------------

DeployStep(d) ==
    \/ DeployPut(d) \/ DeployLookup(d) \/ DeployPrecheck(d) \/ DeployCreate(d)
    \/ DeployUpdate(d) \/ DeployVersion(d) \/ DeployActivate(d) \/ DeployInvalidate(d)

RollbackStep(b) == RollbackResolve(b) \/ RollbackActivate(b) \/ RollbackInvalidate(b)

DeleteStep(x) ==
    \/ DeleteResolve(x) \/ DeleteInvalidate(x) \/ DeleteTombstone(x) \/ DeleteEnvs(x)
    \/ DeleteLogs(x) \/ DeleteVersions(x) \/ DeleteRow(x)

InvokeStep(i) == InvokeLookup(i) \/ InvokeLoad(i) \/ InvokeHandler(i) \/ InvokeLog(i)

GcStep(g) ==
    \/ GcListAll(g) \/ GcListBlobs(g)
    \/ \E f \in Deploys : GcListVersions(g, f)
    \/ \E h \in Hashes : GcDelete(g, h)

Next ==
    \/ \E d \in Deploys : DeployStep(d)
    \/ \E b \in Rollbacks : RollbackStep(b)
    \/ \E x \in Deletes : DeleteStep(x)
    \/ \E i \in Invokes : InvokeStep(i)
    \/ \E c \in Calls : Refuse(c) \/ Fail(c)
    \/ \E e \in EnvEdits : SetEnv(e) \/ DeleteEnv(e)
    \/ \E v \in Deploys : Evict(v)
    \/ \E g \in Collectors : GcStep(g)
    \/ Quiescent

Spec == Init /\ [][Next]_vars

-----------------------------------------------------------------------------
(***************************************************************************)
(* Properties.                                                             *)
(***************************************************************************)

CallStates ==
    {"start", "lookup", "precheck", "create", "update", "version", "activate", "invalidate",
     "tombstone", "envs", "logs", "versions", "row", "load", "handler", "log", "ok", "failed"}

TypeOK ==
    /\ functions \in [Deploys -> Function \cup {None}]
    /\ names \in [Names -> Claim \cup {None}]
    /\ versions \in [Deploys -> Version \cup {None}]
    /\ envs \subseteq Deploys
    /\ logs \subseteq Deploys
    /\ blobs \subseteq Hashes
    /\ warm \in [Deploys -> {"none", "ok", "err"}]
    /\ pc \in [Calls -> CallStates]
    /\ arg \in [Deploys \cup Rollbacks -> DeployArgs \cup Deploys \cup {None}]
    /\ fn \in [Calls -> Deploys \cup {None}]
    /\ old \in [Calls -> Deploys \cup {None}]
    /\ gc \in [Collectors -> Collection]

\* The quota is never exceeded, however many deploys of distinct names race
\* past the pre-check.
QuotaRespected ==
    Limit > 0 => \A o \in Owners, u \in Users : Cardinality(InScope(o, u)) <= Limit

\* Names and rows agree, whatever deploys, rollbacks and deletes race.  Every row
\* holds the claim on its own name, half-deleted rows included, so that a name
\* stands for one function; and a name that still resolves leads to a row whose
\* active version, if it has one, exists and is its own.
LiveNamesServe ==
    /\ \A f \in Rows : names[functions[f].name] # None /\ names[functions[f].name].fn = f
    /\ \A n \in Names : names[n] # None /\ names[n].live =>
          LET f == names[n].fn IN
          /\ f \in Rows
          /\ functions[f].name = n
          /\ functions[f].active # None =>
                /\ versions[functions[f].active] # None
                /\ versions[functions[f].active].fn = f

\* After a Delete that succeeded, no row of the function is left, and no
\* late deploy, env change or invocation log brings one back.
DeleteLeavesNothing ==
    \A x \in Deletes : pc[x] = "ok" => fn[x] \notin Rows /\ ~HasChildren(fn[x])

\* Once claimed, a name is never claimed by another function, and a deleted
\* function's name never resolves again.
NamesNeverReused ==
    [][\A n \in Names : names[n] # None =>
          /\ names'[n] # None
          /\ names'[n].fn = names[n].fn
          /\ names'[n].live => names[n].live]_vars

\* The collector never takes the bundle of a version that existed when its
\* scan began, active or kept for a rollback.
GcKeepsScanned ==
    \A g \in Collectors : \A v \in gc[g].seen : versions[v] # None => versions[v].hash \in blobs

-----------------------------------------------------------------------------
(***************************************************************************)
(* What the code's comments say and the interleavings can break.           *)
(***************************************************************************)

\* runGC: the bundle of every version is in the blob
\* store, deploys racing with the collector included.
ReferencedBlobsExist ==
    \A v \in Deploys : versions[v] # None => versions[v].hash \in blobs

\* Activate: the activated version is the one
\* served next, so it is only ever replaced by another activation.
ActivationSticks ==
    [][\A f \in Deploys :
          functions[f] # None /\ functions'[f] # None /\ functions'[f].active # functions[f].active
          => \E c \in Calls : pc[c] = "activate" /\ pc'[c] = "invalidate"]_vars

\* Functions.Runtime: once every management
\* call is over, no pool serves a version that no longer exists.
NoPoolForDeletedVersion ==
    (\A c \in Calls \ Invokes : pc[c] \in {"start", "ok", "failed"})
        => \A v \in Deploys : warm[v] = "ok" => versions[v] # None
=============================================================================
