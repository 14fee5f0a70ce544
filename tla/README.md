# funcbox in TLA+

funcbox is a self-hosted function platform: users deploy JavaScript bundles
with a CLI or an MCP client, a server stores them as versions of named
functions, and HTTP requests run the active version in a pool of warmed engine
instances, under the fetch policy of the organization, the workspace and the
function's own manifest.

This directory holds TLA+ modules of its core, TLC configurations that check
them on small instances, and TLAPS proofs of what matters most.

    tlc -workers 2 -config MCPoolManager_pools.cfg MCPoolManager
    tlapm RuntimeProofs.tla

## Inventory

| component | state | operations | what is hard | what makes it correct |
|---|---|---|---|---|
| runtime manager (`runtime/manager.go`) | map version -> pool, LRU list, first builds | HandlerFor, Invalidate, Close, eviction | all of them at once, closes in the background | list and map agree, cap kept, each pool closed exactly once |
| engine pool (`runtime/enginepool/pool.go`) | a channel of instances | ServeHTTP, Close | Close competes with requests | no instance shared or lost, graceful drain |
| engine worker (`enginepool/worker.go`, `js/glue.js`) | stream generation, sink, the guest's `state.result`, what earlier requests left in the guest | serve, serveStreamingBody, host callbacks | leftover pumps and promises on a reused instance, deadlines, what looks at no deadline, truncation | responses never mix, a truncated response shows, a handler or a stream gives the instance back at the deadline |
| deploy and function service (`service/*.go`) | none of its own | Deploy, Activate, Delete, SetEnv, DeleteEnv | several statements without a transaction | a live name serves, quota, nothing left after a delete |
| SQL store (`store/sqlcommon`) | functions, names, versions, env, logs, users, workspaces, members, organization, sessions, codes, grants | one method per statement or transaction | foreign keys and unique keys decide the races | its constraints are enough for the services above it |
| blob collector (`cmd/funcbox-server/gc.go`) | what it has read so far | scan, list, delete | runs against a live server | takes no referenced bundle |
| organization and workspaces (`api/org.go`, `api/workspaces.go`) | settings documents with a generation, memberships | patches, create, delete, member changes | read, change, write back | no lost field, no stale permission, an admin remains |
| effective policy (`invoke/effective.go`, `policy/fetch.go`) | a cache keyed by generations | resolveFetch | filled and read while settings change | never wider than any level in force |
| OAuth server (`internal/oauth`) | clients, single-use codes, rotating grants, rate-limit buckets | register, authorize, token (two grant types), revoke, sweep | one secret presented twice, lost responses, expiry | traded once, reuse detected, bounded life |
| accounts (`internal/auth/login.go`, `github.go`, `user_id.go`, `api/org.go`, `api/me.go`) | users, public ids, login rules, the organization row | login with two providers, bootstrap of the first admin, account links, PATCH of users, rule lists | races at first login, whole-row writes, conflicts on create | nobody signs in who was never admitted, an identity ends in its own account, everybody has an id |
| credentials (`internal/auth/session.go`, `cliauth.go`, `invokesso.go`) | sessions, CLI codes and credentials, invoke codes; signed tokens and cookies | login, logout, exchange, mint, callback, device revocation, authentication of a request | credential, user and rules are read one after the other while they change | single use, revocation takes effect, the barred stay out |
| invocation (`internal/invoke`, `internal/server`) | pools in use, capture by goroutine, invocation log | route, authorize, load, run with deadline, stream, log | deadline against a late response, aborts, reads at five moments, leftovers on shared instances | visibility enforced, platform paths kept, output apart, a log that says what was sent |
| control plane (`internal/api`, `mcpserver`, `dashboard`, `authz`) | MCP sessions, the dashboard's pool and caller tokens | every management call, through three doors | roles, members and settings change between the check and the act | acts permitted, refusals due, nothing leaked, an admin remains |
| DynamoDB store (`store/dynamodb`) | items and conditional writes | as the SQL store, and a migration at every start | other atomicity than SQL, crashes in between | same contract as the SQL store, repaired at the next start |
| blob backends (`internal/blob`) | objects | Put, Get, List, Delete | crash between write and rename | content under a hash is whole |
| manifest, bundle, policy patterns, SSRF guard | none | pure functions | boundaries, unpack limits, wildcard rules | agree with a reference definition |
| module loader (`runtime/loader.go`) | module graph | resolve, load | cycles, aliases | deterministic resolution |
| CLI (`internal/cli`) | token file, watch loop | login, deploy, dev, logs | reload while a reload runs, token refresh | last change wins, no dropped change |
| configuration, metrics, pages, browser code | none of their own | request parsing, output | - | - |

They interact in three ways. An invocation reads the rows that the services
write and hands the version to the runtime manager, which builds the pool from
the blob store; the services call `Manager.Invalidate` when they change the
active version; and the hooks of a running function read the settings rows on
every fetch. The REST API, the MCP tools and the dashboard all end in the same
use cases, and differ in how and when they find out who is calling. All of it
is concurrent: every HTTP request is a goroutine, no
service method holds a transaction across its statements, and pools close in
goroutines of their own.

## Modules

| module | models | state | one action per |
|---|---|---|---|
| `PoolManager` | `Manager` and `Pool` | map, LRU list, entries, channel contents, closers, requests | locked section, channel operation, callback |
| `EngineWorker` | `worker.serve`, `serveStreamingBody`, `glue.js` | the Go fields of the worker, the guest's shared state, pumps and promises | host step between two `RunUntil`, guest turn, host callback |
| `FunctionLifecycle` | Deploy, Activate, Delete, env changes, invocations, the collector, the SQL rows | the tables, the blob store, tracked pools, each call's copy of the row | SQL statement or transaction, blob call |
| `OrgSettings` | organization and workspace handlers, membership, `resolveFetch` | the rows, the cache, each call's local copy | read, guard, write |
| `OAuthGrants` | registration, codes, grants, rotation, revocation, the sweep | the three tables, each token request, the clock | SQL statement |
| `Accounts` | logins, bootstrap, links, public ids, rule lists, PATCH of users | users, public ids, rules, each call's copy of the row | SQL statement or transaction, redirect to the provider |
| `Credentials` | sessions, CLI codes and credentials, access tokens, function-host cookies, devices | the four tables, what was signed, each request's view of its user | SQL statement, signature, tick of the clock |
| `SingleUse` | what a one-time code promises (abstract) | fresh and spent codes, who won each | issue, use, trade, loss |
| `DynamoStore` | the repositories on one DynamoDB table, the migration at start-up | the table, each call's registers, the phase of the migration | DynamoDB request (a transaction is one), batch item, crash |
| `Invocation` | middleware, routing, `serveFunction`, the response writer, log capture | settings, pools and their instances, connections, each request | read of the store, step of the guest or the client, return of the goroutine |
| `ControlPlane` | REST, MCP and dashboard up to the use cases, the rules of `authz` | users, members, settings, functions, MCP sessions, each call | read of the store, tool call, write |
| `RuntimeProofs` (`PoolManager`, `EngineWorker`), `StoreProofs` (`OAuthGrants`, `DynamoStore`), `AccountsProofs`, `FunctionLifecycleProofs`, `InvocationProofs`, `OrgSettingsProofs`, `CredentialsProofs`, `ControlPlaneProofs` | theorems | | |
| `MC*` | instances for TLC: symmetry, casts of callers | | |

`PROJECT.json` maps every definition to the lines it stands for. `EngineWorker` and
`DynamoStore` name their specification `WorkerSpec` and `StoreSpec` (and its parts
`WorkerInit`, `StoreNext` and so on), since their theorems share a module with those
of `PoolManager` and `OAuthGrants`.

The modules meet where components do. `Invocation` names a pool by the request that
built it and an instance by its place in the pool; their lives are `PoolManager` and
`EngineWorker`, and it goes through the phases of `worker.serve` one by one: the body
is read (`body`), the handler runs (`guest`), the methods of its Response are called
(`reply`), chunks are produced (`stream`) and written (`write`). Who a caller is comes from `Credentials`, who may sign in from `Accounts`.
`ControlPlane` does in one step what `FunctionLifecycle` does in many, and
leaves the fields of settings to `OrgSettings`. The tables that two modules
share (users and login rules) change nondeterministically in the one that only
reads them.

`SingleUse` is the abstract specification of a one-time code: issued once, used
at most once, useless after use or loss. Three tables implement it, each with a
refinement mapping as a PROPERTY of its run: `cli_auth_codes` and
`invoke_auth_codes` (`Credentials!CodesAreSingleUse`, where `winner` is who got a
credential or a cookie) and the refresh secrets of the DynamoDB store
(`DynamoStore!SecretsAreSingleUse`, where the fresh secret of a grant is the one
its id points at, and a rotation is a use that issues the next secret).

### Abstractions

* Ids, names, hosts, bundle contents and secrets are model values. An id that
  a call creates is named by the call (a version by its deploy, a grant by its
  token request), which is what a random, never reused id amounts to.
* Requests that are refused before any write (bad input, missing rights) are
  one nondeterministic refusal. A failing store, a cancelled context and a
  dying process are one nondeterministic end of the call, wherever it is, with
  what it wrote kept.
* The SQL constraints the races depend on are modelled: unique names, the
  quota inside the insert, `DELETE ... RETURNING`, the compare-and-swap of
  `Rotate`, and the foreign keys (`function_versions`, `env_vars` and
  `invocation_logs` to `functions`, `workspace_members` to `workspaces`, OAuth
  codes and grants to clients). There is none on `functions.owner_id` and
  `functions.active_version_id`, and the model has none either. sqlite is
  opened with foreign keys on; a backend that does not enforce them is not
  covered.
* In `EngineWorker`, bodies and headers are left out; a chunk is written whole
  or is lost.
* In `Accounts` a list of login rules is the set of addresses that it admits
  (any matching rule admits); in `ControlPlane` a user whom the rules no
  longer admit is one who is barred. `Credentials` keeps two histories of each
  request: the addresses that its credential could vouch for since it came
  (`vouched`), and those that the rules admitted (`admitted`); and the mints whose
  credential was revoked before they touched it (`late`).
* In `Accounts` a confirmation of a link is a request of its own, which presents the
  token of any offer, as often as it likes; that the token expires is left out.
* In `DynamoStore` a key is a tuple and an item a record. The code never asks
  for a consistent read: an old item is what a slow call has read earlier. The scan of
  the migration is exact in the model, since no call runs beside it; one that misses an
  item written just before the last process died is left out. The client library's
  retries matter for the one request that is neither conditional nor idempotent, the
  decrement of a counter (`functions.go:607`), which may be sent again once.
* In `Invocation` a request is its host, path and credential by kind, and what
  the platform itself answers (API, login, dashboard) is one step. `past` is a history:
  which requests were over when this one got its instance.
* In `OrgSettings` three histories say what a fetch may be decided by: `seen`, the policies
  of the generations in force while the call ran, and `orgPast` and `wsPast`, which policies have stood
  under each generation of a row and whether a patch has overwritten one it had not read.
* In `ControlPlane` a version is the sizes of its files, which `get_function_files`
  lists within a budget, or returns one of by its path. A use case is one step, `act`, after the checks of its
  channel; a deleted function is gone for good, since its name stays claimed.
  `seen` is a history variable: what each thing that a call depends on has been
  since it began.
* In `OAuthGrants` times are small integers and `Tick` moves the clock between
  any two statements.

## Runs

| run | instance | shows |
|---|---|---|
| `pool_races` | 2 requests, 2 versions, 2 instances per pool, cap 1 | a pool is tracked or being closed by exactly one closer, instances are exclusive; every request is answered, every removed pool closes and `Manager.Close` returns, unless a build or a serving request never ends, and then they wait for nothing else |
| `worker_streams` | 3 requests in turn on one instance | stale pumps never write into a later response, truncation is visible, the deadline frees the instance from a handler and from a stream, and only a body read, a write or a method of the Response can keep it |
| `lifecycle_races` | four casts: 3 deploys; 2 deploys, rollback, delete; deploy, 2 deletes, env change, invocation; 2 deploys, collector | quota, name claims and active versions, complete deletion, collected bundles, names never reused |
| `lifecycle_gc_race` (violation) | 1 deploy, 1 collector | a bundle put before the listing and referenced after the scan is collected |
| `org_races` | six casts: a patch of each level, create, deploy, fetch; patch and delete of a workspace that fetches; organization patch and 2 fetches; 2 organization patches and a fetch; 2 patches of one workspace, create, deploy, fetch; 2 creates, delete, 2 member changes | no fetch decided by a policy of an earlier generation than those of the call, a cache entry decides as the rows do until an update is lost and as a policy of its generation afterwards, no membership without workspace |
| `oauth_rotation` | 4 token requests, 2 codes, 1 client, clock 0..2 | a code or secret is traded once, a reused secret is dead, renewals within both windows |
| `accounts_races` | eight casts: five of up to 3 logins (two identities of each provider on two addresses), a change of rules, PATCHes by an admin or oneself, addresses that move; three of 4 calls in which a link is offered and confirmed up to twice, beside a PATCH | nobody is signed in who was never admitted or first, every newcomer has a public id, a login ends in the account of its identity |
| `credentials_races` | six casts of up to 5 requests: code, credential, token; two mints; device revocation; function-host cookies; sessions; one change of users or rules | the barred stay out, what was revoked before a mint touched it mints nothing, dead rows stay dead, both code tables refine `SingleUse` |
| `dynamo_races` | eleven casts of 4 calls, six on an old table that is being migrated, with failures and one crash | a function that holds its name is whole, counters cover what is there but for deletions counted twice, a migration heals, claims are for good, refresh secrets refine `SingleUse` |
| `invocation_races` | a request of any kind, beside a second plain one, on two connections and a pool of two instances | admission is exact, only what is a guest's reaches it, a log has output of the same instance only, its status is the one sent, a request that is never answered is at its build, its client or a method of its Response |
| `invocation_cut_stream` (violation) | the same | a stream that is cut ends cleanly for the client |
| `control_plane` | 3 calls of an admin and another user (any channel, credential and operation), 2 MCP sessions, one change of settings or members | acts are permitted and refusals due at some time during the call, outsiders learn nothing, the last admin goes only in a race, what answers say is so |

A cast is a set of callers that take part in one behaviour; the run explores
every cast. In `MCFunctionLifecycle` and `MCAccounts` the other calls have
already been refused (a reachable state), in the others they never come.
`MCInvocation` and `MCControlPlane` also keep apart what cannot meet (`Apart`):
a second invocation comes only beside one like it, which is when they share
pools and connections; settings change under the one call whose checks depend
on them; an answered call is over at once.

Every module has a type invariant. It is proved for every instance (only that of
`SingleUse`, which is abstract, is not needed), and so left out of the runs, as are
other invariants that the theorems below establish (`CapRespected`,
`NothingLeftBehind`, `FamiliesDisjoint`, the `IInv`s and so on).

Why the bounds are enough: every race in this code is between two or three
statements of two or three calls on one row, so three callers on two names contain them. Two patches of one settings row that
overlap need a third generation (`MaxGen`): one policy is stored twice under the
second, and a patch that starts from the older writes the second again after the
third. A link that is confirmed again needs the login that made the account, the
one that was offered the link, and two that present it. Output of an earlier request
needs an instance that is used again beside one that is not. The cap of one needs two
versions to evict; the two windows of a grant need a clock of three values and
three rotations; a code needs two that present it; the repair of a crash needs one
migration before and one after. Each property has a mutant of the code, listed in
`PROJECT.json`, that breaks it within the same bounds.

Deadlock is checked where calls always have a next step (pools, worker,
lifecycle, settings, OAuth). The other instances end when all their calls are
answered, and their configurations say so.

### Fairness

`pool_races`, the liveness part of `worker_streams` and `invocation_races` assume two
things: a goroutine that can run does, and the deadline of an invocation fires
(`Invoker.Timeout`, 30 s by default) and is noticed by whatever looks at the context,
which is the wait for a pool or an instance, `RunUntil`, and the loop of a stream
between two chunks (strong fairness, since the guest may produce them without end).

They do not assume that anything ends which looks at no context, and the server has
no read or write timeout that would end it (`main.go:225`):

* the read of the body (`worker.go:302`) and the writes of a response
  (`worker.go:190`, `429`), which a client can hold up for ever;
* the methods of the guest's Response that Go calls outside `RunUntil`
  (`headers.entries`, `getReader`: `worker.go:385`, `458`);
* the top-level code of a bundle while its pool is built (`worker.go:128`).

So the liveness properties each name these as the only places where something may
stay for ever (`Uncancelled` in `EngineWorker`, `build` and `serving` in `PoolManager`,
`build`, `body`, `reply` and `write` in `Invocation`). What they show is the rest:
nobody waits for ever for a channel, a lock or another request unless one of these holds
it up, and a handler that hangs or a stream without end gives its instance back.

In `Invocation` a browser that is sent to log in comes back, which makes the
property harder: a user whom the login cannot help must not be sent again. Nothing is
assumed of pumps.

### Known races

Two disagreements between code and comments are runs (`findings`). The modules
hold further such claims as definitions, which hold for one caller at a time and
not for two; naming one as an INVARIANT or PROPERTY of a configuration shows the
trace.

| definition | trace |
|---|---|
| `PoolManager!HandlerKeepsAnInstance` | a request has the pool but no instance when it is invalidated; `Pool.Close` takes all instances first, and the request waits for its deadline |
| `EngineWorker!AnswerIsOwn` | a handler left pending by a request that timed out is resolved by code of the next, and its result is the next one's answer (`glue.js:112`; `worker.go:278` says un-awaited work cannot fire during the next request) |
| `Invocation!OutputIsOwn` | what a request left pending on an instance prints while the next one runs there, on the next one's goroutine, and its output is in the next one's log (`logcapture.go:81` says it cannot be) |
| `FunctionLifecycle!ActivationSticks` | `Deploy` reads the row, another deploy activates, the first writes its description together with the active version it read |
| `FunctionLifecycle!NoPoolForDeletedVersion` | an invocation reads the rows, `Delete` invalidates and deletes, the invocation warms the pool |
| `OrgSettings!PatchKeepsOmitted` | two patches of different fields: the second writes the first one's field back |
| `OrgSettings!CacheNeverStale` | two patches of the organization both increment the generation they read (`org.go:208`), two policies are stored under one, and the entry of the older stays in use (`effective.go:19` says that every change makes old entries unreachable) |
| `OrgSettings!WorkspaceHasAdmin` | two admins of a workspace demote each other; each guard counts the other (`workspaces.go:393`) |
| `OrgSettings!OpenModeHasNoWorkspaces`, `OrgSettings!OwnersExist` | the check and the write of two handlers cross |
| `OAuthGrants!ReuseRevokesFamily` | a retired secret misses the lookup, the grant rotates once more, the revocation matches nothing |
| `Accounts!BootstrapOnce` | two first logins in two READ COMMITTED transactions both find no user (`aggregate.go:25`); one connection, as sqlite has, excludes it |
| `Credentials!RevocationStopsMinting` | a mint touches its credential (`cliauth.go:208`), the device is revoked, and the token is signed (`cliauth.go:211`); `me.go:376` says that revocation stops minting immediately |
| `Credentials!DeletedDeviceIsGone` | an organization admin deletes an OAuth app of their own: revoking it as a CLI device always succeeds for an admin (`me.go:337`), so 204 is answered and nothing deleted |
| `DynamoStore!MigratedUsersAreFound` | a crash after a user's row is rewritten and before its pointer exists (`migrate_user_provider.go:69`); the next start takes the row for migrated |

The models follow the code in these cases too, for which no text of the
repository claims otherwise:

* organization: two administrators demote each other at once and none is left
  (`org.go:479`). A change writes the whole row it read, so there need not even
  be a second administrator at the time: one who is demoted is made administrator
  again by a change that was under way, and then demoted, as the only one, by
  another that had read the row before. `LastAdminStays` says what it takes: the
  user was not the only administrator all the while the change ran. An attempt to
  prove that there had been another one came to this, with four calls;
* accounts: a login, a PATCH or a link writes the whole row it read, so that it
  can revive a user who was disabled meanwhile; a process that dies between the
  bootstrap and the seeding of the rules leaves rules that admit nobody; a
  rename goes by the old public id, which may have become somebody else's; a
  user left without an id by a failure is never given one; a confirmation of a link can
  be presented again until it expires (`github.go:450`), which signs in again and undoes
  a link of the account that was made in between;
* invocation: a guest that runs out of memory after its stream has begun panics past
  `isLikelyOOM` (`invoke.go:263`), so that its pool stays;
* DynamoDB: two deletes of one function both decrement its counter, and so does one
  whose decrement is sent again after a lost response ("never too low",
  `functions.go:563`; `CounterCovers` allows for each of them), a member added
  during the deletion of a workspace stays behind, as do variables and versions
  added during that of a function, and a grant's deletion beside a rotation may
  leave the new secret's row, which its id no longer points at;
* credentials: status and rules are read at different times, so a user who is
  disabled after the row was read, and whose address is admitted only after
  that, is let in although there was no moment at which both were in order
  (`BarredStayOut` says what does hold); of two mints from one credential the
  slower, older one sets `last_used_at` back to its own time
  (`clicredentials.go:53`; `RevokedMintsNothing` allows the time of either). An
  attempt to prove stronger forms of both properties came to these;
* collector: of two collectors, one may delete a bundle that the other has found
  referenced (`LoneCollectorKeepsScanned`);
* control plane: openings of MCP sessions at the same time may exceed the cap,
  since a server connects after it is counted; a second delete is audited like
  the first; the handlers of environment variables answer 403 where others
  answer 404, the one exception in `OutsidersLearnNothing`; a failed build of
  the dashboard's pool stays until a restart;
* settings of functions: `SetEnv` leaves warm pools alone, which keep the values
  they were built with.

## Proofs

TLAPS checks, for any sets of versions, requests, callers, users, clients and
codes, any cap, limits and lifetimes:

* `RuntimeProofs`, of `PoolManager`: `Spec => []IInv`, and from it type correctness,
  `CapRespected`, `TrackedXorClosing`, `InstanceExclusive`,
  `InstancesAccounted`, `FreshEntrySurvives` and `GracefulDrain`. None of the
  properties is inductive alone: that an eviction removes a tracked pool needs
  the list to hold exactly the tracked entries, each once (`CapRespected`),
  the entry to know its key (`MapInv`), and that closing is exclusive needs
  what each closer may find in a pool (`EntryInv`, `RequestInv`). The list
  lemmas say what `list.Remove`, `PushFront` and removing the back do to the
  elements and their distinctness.
* `RuntimeProofs`, of `EngineWorker`: `WorkerSpec => []WorkerInv`, and from it type
  correctness, `StreamsNeverMix`, `CleanEndIsWhole` and `NothingLeftBehind`. The
  strengthening is that generations number the pumps injectively and the armed
  sink carries the newest one (`GenInv`), and what a finished or lost pump says
  of its response (`PumpInv`).
* `StoreProofs`, of `OAuthGrants`: `Spec => []IInv`, and from it type correctness,
  `RedeemedOnce`, `FamiliesDisjoint`, `ReusedSecretIsDead`, `InUseClientsStay`,
  and the action properties `DeadStaysDead` and `RenewedInTime`. That a secret
  is traded once needs that a traded secret is no grant's current one
  (`SecretInv`); that a renewal is in time although the windows were checked
  at an earlier statement needs that an unchanged current secret means an
  unchanged row (`RotateInv`), which is what the compare-and-swap relies on.
* `StoreProofs`, of `DynamoStore`, for any number of functions, users, workspaces,
  grants, calls and crashes: `StoreSpec => []StoreInv`, and from it type
  correctness, `WholeWhileNamed`, `CounterCovers`, the action properties
  `MigrateHeals` and `ClaimsAreForGood`, and the refinement `SecretsAreSingleUse`.
  The parts of the invariant are predicates of a table and of one call's registers,
  so that the lemma of each action can compare them before and after its step:
  - `FnsOK`: a function's name is retired, or its pointer and list entry are there,
    and the version it runs is its own. It is kept since what a half-done call has in
    its registers (`RegOK`) is a row whose version is there (`Loaded`) and a batch
    that deletes nothing of a function whose name is not retired (`TodoOK`).
  - `CountInv`: a counter covers not the rows but what it *owes* (`Owed`), the rows
    and the deletions that are not counted yet. A first deletion of a function lowers
    both by one, a second one lowers the counter and raises `extra`.
  - `PhaseInv`: no call runs during a migration, so that the last count of the
    migration is the one with which the server starts to serve.
  - `SecretsOK` and `MintInv`: no two grants have one secret, what is in force was
    minted, and what was traded is in force nowhere; a call mints when it ends.
  Beside the invariant, each lemma proves what no step undoes (`Lasting`: claims,
  retired names, versions, ids that are gone) and the step of `SingleUse` (`Right`).
* `AccountsProofs`: `Spec => []IInv`, and from it type correctness (which says that two
  users never share an identity, an address or a public id), `AdmittedOrFirst`,
  `NewcomersHaveAnId` and the action property `SettlesOnItself`. The strengthening
  says, of each login at each of its places, that its address was admitted before or
  it bootstrapped (`Cleared`), and that an account it has created is its own and has
  a public id from the claim on (`LoginOK`); of every call, that the user it works on
  exists and its copy is a row (`CallOK`). A step is looked at only for the call that
  takes it (`StepKeeps`): of the others it is enough that users stay, that an address
  once admitted is in `ever` for good, and that who has a public id keeps one
  (`RowsLast`), also when it is renamed or handed over by a link.
* `FunctionLifecycleProofs`: type correctness, `QuotaRespected`,
  `LiveNamesServe`, `DeleteLeavesNothing`, the foreign keys (`KeyInv`), the
  action property `NamesNeverReused`, and what collectors spare. The quota needs
  a finite table and a count inside the insert; that a live name leads to a row
  with a version of its own needs what a deploy is about to write back
  (`WriteBackInv`), and that no delete is past its tombstone while a name
  resolves (`TombstoneInv`); the collector needs that a deploy that has not
  inserted its version is in no scan (`UnbornInv`, `ScanInv`, `BundleInv`).
  `GcKeepsScanned` is proved for one collector and is false for two.
* `InvocationProofs`: type correctness, `AdmissionIsExact`,
  `OnlyItsOwnReachesAGuest`, `OutputStaysOnInstance` and `LogMatchesAnswer`. The
  argument for admission is `DecisionInv`: at each read of `resolveVisibility` and
  `authorize`, the visibility so far is the least of the levels read, so that the
  last read leaves the least of all of them, however the chain is cut short. That
  output stays apart needs that two requests which hold one pool at the same time have
  different instances, and that whoever shares one had given it back before
  (`InstanceInv`), besides the right capture for each goroutine (`CaptureInv`); that
  the log says what was sent needs that the writer remembers whether it has swapped
  the status, though the deadline may pass later (`WriterInv`).
* `OrgSettingsProofs`: type correctness, `MembersHaveWorkspace`, `NoStalePermission` and
  `CacheMatchesRows`, for any number of patches that overlap in any way. The argument is
  the history of the policies under each generation: until an update of a row is lost,
  its generation only grows and each has one policy; afterwards the row in force is one
  of those under its generation (`PastInv`), and what a resolver has read and what a
  cache entry was made of are policies under the generations they are keyed by
  (`ReadInv`). That a fetch is decided by what was in force during the call needs that
  every policy of a generation that a resolver has read is in its own history (`SeenInv`). The lemma `EffectiveIsExact`
  says that `policy.Effective` decides a host as all levels together.
* `CredentialsProofs`: type correctness, `BarredStayOut`, `RevokedMintsNothing`, the
  action property `DeadStaysDead`, `TimeInv`, and the refinement
  `CodesAreSingleUse`. Each action's lemma proves the invariant, what lasts (a row
  stays, with its user, and a dead one stays dead: `Lasting`), and that both code
  tables take a step of `SingleUse`: nothing is issued and nobody profits, one code
  is issued, or one request profits from one. The strengthening is that a request
  creates one credential, of its endpoint's kind, with its last step (`BornInv`),
  that the row it came with is there for good (`PlaceInv`), that its histories
  contain what holds now and the address it has loaded (`GateInv`), that a mint whose
  credential was revoked before it touched it stays short of its signature (`LateInv`),
  and that nobody has profited from a code that is live (`UnusedInv`).
* `ControlPlaneProofs`: type correctness, `ActsArePermitted`,
  `OutsidersLearnNothing`, `RefusalsAreDue`, the action property `LastAdminStays`,
  and, given `FilesFit`, `AnswersAreTrue`. The strengthening says what a call has
  got at each of its places (`PlaceAt`: who it acts for, what it has read, that it
  could be seen or done), why each answer is given (`Reason`), and that whatever
  holds now is in the history of every call under way (`WatchInv`). All of it
  survives when a history grows (`GrowsKeepsCall`), so a step need only be looked
  at for the call that takes it (`StepKeeps`). `HomeInv` and `RowInv` trace every
  version to the function it was deployed to, through the calls that made it.
  `FilesFit` is what the loop of `get_function_files` computes for the files of
  each version (the cap is on this listing, not on one file asked for by its path), a fold, which needs induction over data; TLC checks it.

Each inductive invariant was checked by TLC on a run's instance before it was
proved. What the proofs changed in the models: two properties of `Credentials` and
`LastAdminStays`, which held on the instances and not in general (see the known
races); the arms
of `ByHost` in `Invocation` and some records, written so that the provers can
reason about them; types that `TypeOK` had left open, among them those of a login's
registers in `Accounts`; the assumptions that `Accounts` and `DynamoStore` had made
silently (below).

Assumptions, each an `ASSUME` that TLC evaluates on the runs: caps, limits, times
and generations are natural numbers and a pool has an instance; the ids of calls
of different kinds are distinct (`KindsAssumption`, `CallsAssumption`), as are
codes and refresh secrets, and versions and the calls that make them; there are
finitely many deploys and MCP sessions, and on DynamoDB functions and crashes
(`FinitenessAssumption`); `None` is no row, id or number (`NoneNotARow`,
`NoneAssumption`, `NullAssumption`, `NilAssumption`); the public ids that a login may
try are a sequence of ids (`IdsAssumption`); the old table that is migrated holds
users with a subject and no two functions of one owner and name, which the old keys
already excluded (`LegacyAssumption`); the settings and shapes to choose from
have their types (`ShapesAssumption`, `SettingsAssumption`, `PoliciesAssumption`, `RowsAssumption`), and a request for a
rollback or a deploy names a version (`RequestsAssumption`).

The theorems that state properties of the runs are marked in `PROJECT.json`:
every invariant, action property and refinement of every passing run
(`GcKeepsScanned` and `AnswersAreTrue` under the hypotheses named above).

Only model-checked: liveness, that is `EveryRequestAnswered` and
`EveryRemovedPoolCloses` of `pool_races`, `InstanceComesBack` of `worker_streams` and
`EveryRequestIsAnswered` of `invocation_races` (fairness and ENABLED are beyond the
prover), and `FilesFit`, which needs induction over data.

## Not modelled

JavaScript execution, cryptography, SQL engines and cloud services are
external. Output only: pages, browser code, metrics, audit texts. Request parsing
in the REST, MCP and CLI layers is left out where it changes no state. Manifest
and bundle validation, fetch patterns, address ranges and module resolution are
rules on strings and bytes, which their unit tests cover with tables. SQL
migrations run once, before the server listens. On DynamoDB, several servers
that migrate one table at once, rule lists replaced in two batches, and queries
of more than a page are left out. The command-line client keeps no state but its
token file; the reload loop of `funcbox dev` is the part that is worth a model.

## Plan

1. Rules: visibility limits, the rate limiter, manifest and bundle limits, as
   operators against reference definitions.
2. The reload loop and the token refresh of the command-line client; the blob
   store's write and rename.
