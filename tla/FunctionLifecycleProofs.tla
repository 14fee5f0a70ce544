----------------------- MODULE FunctionLifecycleProofs -----------------------
(***************************************************************************)
(* Machine-checked proofs about FunctionLifecycle, for any sets of calls,  *)
(* names, owners, users and bundles and any quota.                         *)
(***************************************************************************)
EXTENDS FunctionLifecycle, FiniteSetTheorems, TLAPS

(***************************************************************************)
(* The inductive invariant, in parts.                                      *)
(***************************************************************************)

\* Where a deploy has not inserted a function yet, or not a version yet.
BeforeCreate  == {"start", "lookup", "precheck", "create"}
BeforeVersion == BeforeCreate \cup {"update", "version"}

\* The functions that ever claimed a name; one claims it when it is created.
Claimed(f) == \E n \in Names : names[n] # None /\ names[n].fn = f

\* The function still resolves by a name.
Resolves(f) == \E n \in Names : names[n] # None /\ names[n].fn = f /\ names[n].live

\* Version v exists and is one of f.
OwnVersion(f, v) == versions[v] # None /\ versions[v].fn = f

\* What a call has read before it uses it.
LocalInv ==
    /\ \A d \in Deploys :
          /\ pc[d] \in {"lookup", "precheck", "create", "update", "version", "activate"}
                => arg[d] \in DeployArgs
          /\ pc[d] \in {"update", "version", "activate"} => fn[d] \in Deploys
    /\ \A b \in Rollbacks : pc[b] = "activate" => fn[b] \in Deploys /\ arg[b] \in Deploys
    /\ \A x \in Deletes : pc[x] \notin {"start", "failed"} => fn[x] \in Deploys

\* A deploy that has not created its function is not known to anyone, and the
\* rows calls have read belong to functions that were created.
FreshInv ==
    /\ \A d \in Deploys : pc[d] \in BeforeCreate => functions[d] = None /\ ~Claimed(d)
    /\ \A c \in Calls : fn[c] # None => Claimed(fn[c])

\* A function row holds the claim on its name.
RowsHoldNames ==
    \A f \in Rows : names[functions[f].name] # None /\ names[functions[f].name].fn = f

\* A live claim leads to a row with that name and a version of its own.
ClaimsLead ==
    \A n \in Names : names[n] # None /\ names[n].live =>
        /\ names[n].fn \in Rows
        /\ functions[names[n].fn].name = n
        /\ functions[names[n].fn].active # None =>
              OwnVersion(names[n].fn, functions[names[n].fn].active)

\* The active version a deploy is about to write back is still one of the
\* function's as long as the function resolves.
WriteBackInv ==
    \A d \in Deploys : pc[d] = "update" /\ Resolves(fn[d]) /\ old[d] # None
        => OwnVersion(fn[d], old[d])

\* A delete past its tombstone works on a function that does not resolve.
TombstoneInv ==
    \A x \in Deletes : pc[x] \in {"envs", "logs", "versions", "row"} => ~Resolves(fn[x])

\* The foreign keys.
KeyInv ==
    /\ envs \cup logs \subseteq Rows
    /\ \A v \in Deploys : versions[v] # None => versions[v].fn \in Rows

\* A deploy that has not inserted its version is not in a collector's scan.
UnbornInv ==
    \A d \in Deploys : pc[d] \in BeforeVersion =>
        versions[d] = None /\ \A g \in Collectors : d \notin gc[g].seen

\* What a collector has scanned is referenced, or still to be listed; nothing
\* is condemned before the blobs are listed, and nothing scanned ever is.
ScanInv ==
    \A g \in Collectors :
        /\ gc[g].at = "idle" => gc[g].seen = {}
        /\ gc[g].at # "sweep" => gc[g].dead = {}
        /\ \A v \in gc[g].seen : versions[v] # None =>
              /\ gc[g].at = "scan" => versions[v].fn \in gc[g].todo \/ versions[v].hash \in gc[g].ref
              /\ versions[v].hash \notin gc[g].dead

\* Until a collector sweeps, the bundle of every version, and of every deploy
\* about to insert one, is in the blob store.
BundleInv ==
    (\A g \in Collectors : gc[g].at # "sweep") =>
        /\ \A v \in Deploys : versions[v] # None => versions[v].hash \in blobs
        /\ \A d \in Deploys : pc[d] \in BeforeVersion \ {"start"} => arg[d].hash \in blobs

IInv ==
    /\ TypeOK
    /\ LocalInv
    /\ FreshInv
    /\ RowsHoldNames
    /\ ClaimsLead
    /\ WriteBackInv
    /\ TombstoneInv
    /\ KeyInv
    /\ UnbornInv
    /\ ScanInv
    /\ BundleInv
    /\ QuotaRespected
    /\ DeleteLeavesNothing

-----------------------------------------------------------------------------
(***************************************************************************)
(* Lemmas about the tables.                                                *)
(***************************************************************************)

\* A row that is there has its type, and a row of the type is there.
LEMMA RowTypes ==
    ASSUME TypeOK
    PROVE  /\ \A f \in Rows : functions[f] \in Function
           /\ \A n \in Names : names[n] # None => names[n] \in Claim
           /\ \A v \in Deploys : versions[v] # None => versions[v] \in Version
           /\ \A r \in Function \cup Claim \cup Version : r # None
BY NoneNotARow DEF TypeOK, Rows

\* Quotas count a finite set of rows.
LEMMA ScopeIsFinite ==
    ASSUME NEW o, NEW u
    PROVE  IsFiniteSet(InScope(o, u)) /\ Cardinality(InScope(o, u)) \in Nat
<1>1. InScope(o, u) \in SUBSET Deploys
  BY DEF InScope, Rows
<1>2. IsFiniteSet(InScope(o, u))
  BY <1>1, DeploysAssumption, FS_Subset
<1> QED BY <1>2, FS_CardinalityType

\* A step that inserts no function and moves none to another owner or creator
\* keeps every quota.
LEMMA NoInsertKeepsQuota ==
    ASSUME QuotaRespected,
           \A f \in Deploys : functions'[f] # None =>
               /\ functions[f] # None
               /\ functions'[f].owner = functions[f].owner
               /\ functions'[f].by = functions[f].by
    PROVE  QuotaRespected'
<1> SUFFICES ASSUME Limit > 0, NEW o \in Owners, NEW u \in Users
             PROVE  Cardinality(InScope(o, u)') <= Limit
  BY DEF QuotaRespected, InScope
<1>1. InScope(o, u)' \in SUBSET InScope(o, u)
  BY DEF InScope, Rows
<1>2. Cardinality(InScope(o, u)') <= Cardinality(InScope(o, u))
  BY <1>1, ScopeIsFinite, FS_Subset
<1>3. Cardinality(InScope(o, u)') \in Nat
  BY <1>1, ScopeIsFinite, FS_Subset, FS_CardinalityType
<1>4. Cardinality(InScope(o, u)) <= Limit
  BY DEF QuotaRespected
<1> QED BY <1>2, <1>3, <1>4, ScopeIsFinite, LimitAssumption

\* What only speaks of the tables holds as long as they do not change.
LEMMA TablesUntouched ==
    ASSUME IInv, UNCHANGED tables
    PROVE  RowsHoldNames' /\ ClaimsLead' /\ KeyInv' /\ QuotaRespected'
<1>1. RowsHoldNames' /\ ClaimsLead' /\ KeyInv'
  BY DEF IInv, tables, RowsHoldNames, ClaimsLead, KeyInv, OwnVersion, Rows
<1>2. QuotaRespected'
  BY NoInsertKeepsQuota DEF IInv, tables
<1> QED BY <1>1, <1>2

\* What the collectors rely on holds as long as the versions, the blobs and
\* the collectors stay as they are and no deploy goes back.
LEMMA BlobsUntouched ==
    ASSUME IInv, UNCHANGED <<versions, blobs, gc>>,
           \A d \in Deploys : pc'[d] \in BeforeVersion =>
               /\ pc[d] \in BeforeVersion
               /\ pc'[d] # "start" => pc[d] # "start" /\ arg'[d] = arg[d]
    PROVE  UnbornInv' /\ ScanInv' /\ BundleInv'
<1>1. UnbornInv' /\ ScanInv'
  BY DEF IInv, UnbornInv, ScanInv
<1>2. BundleInv'
  BY DEF IInv, BundleInv, BeforeVersion
<1> QED BY <1>1, <1>2

-----------------------------------------------------------------------------
(***************************************************************************)
(* Every action keeps the invariant.                                       *)
(***************************************************************************)

\* A server that never served anything.
LEMMA InitInvariant == Init => IInv
<1> SUFFICES ASSUME Init PROVE IInv
  OBVIOUS
<1> USE NoneNotARow, NoneNotAnId DEF Init
<1>1. TypeOK
  BY DEF TypeOK, CallStates, GcIdle, Collection
<1>2. Rows = {} /\ \A n \in Names : names[n] = None
  BY DEF Rows
<1>3. LocalInv /\ RowsHoldNames /\ ClaimsLead /\ KeyInv
  BY <1>2 DEF LocalInv, RowsHoldNames, ClaimsLead, KeyInv, Calls
<1>4. FreshInv /\ WriteBackInv /\ TombstoneInv /\ DeleteLeavesNothing
  BY <1>2 DEF FreshInv, WriteBackInv, TombstoneInv, DeleteLeavesNothing, Claimed, Calls
<1>5. UnbornInv /\ ScanInv /\ BundleInv
  BY DEF UnbornInv, ScanInv, BundleInv, GcIdle, Calls, BeforeVersion
<1>6. QuotaRespected
  <2>1. ASSUME NEW o, NEW u PROVE InScope(o, u) = {}
    BY <1>2 DEF InScope
  <2> QED BY <2>1, FS_EmptySet, LimitAssumption DEF QuotaRespected
<1> QED BY <1>1, <1>3, <1>4, <1>5, <1>6 DEF IInv

\* A request turned down.
LEMMA RefuseKeeps == ASSUME IInv, NEW c \in Calls, Refuse(c) PROVE IInv'
<1> USE NoneNotAnId, NoneNotARow, KindsAssumption DEF Refuse, tables, locals, Goto
<1>1. TypeOK'
  BY DEF IInv, TypeOK, CallStates, Calls, Rows, Function, Version, DeployArgs
<1>2. LocalInv'
  BY DEF IInv, TypeOK, LocalInv, DeployArgs, Calls, Rows
<1>3. FreshInv'
  BY DEF IInv, TypeOK, FreshInv, Claimed, BeforeCreate, Calls
<1>4. WriteBackInv' /\ TombstoneInv' /\ DeleteLeavesNothing'
  BY DEF IInv, TypeOK, WriteBackInv, TombstoneInv, DeleteLeavesNothing, OwnVersion, Resolves,
       HasChildren, Rows, Calls
<1>5. UnbornInv' /\ ScanInv' /\ BundleInv'
  BY BlobsUntouched DEF IInv, TypeOK, BeforeVersion, BeforeCreate, Calls
<1> QED BY <1>1, <1>2, <1>3, <1>4, <1>5, TablesUntouched DEF IInv

\* A call that fails half-way leaves what it wrote.
LEMMA FailKeeps == ASSUME IInv, NEW c \in Calls, Fail(c) PROVE IInv'
<1> USE NoneNotAnId, NoneNotARow, KindsAssumption DEF Fail, tables, locals, Goto
<1>1. TypeOK'
  BY DEF IInv, TypeOK, CallStates, Calls, Rows, Function, Version, DeployArgs
<1>2. LocalInv'
  BY DEF IInv, TypeOK, LocalInv, DeployArgs, Calls, Rows
<1>3. FreshInv'
  BY DEF IInv, TypeOK, FreshInv, Claimed, BeforeCreate, Calls
<1>4. WriteBackInv' /\ TombstoneInv' /\ DeleteLeavesNothing'
  BY DEF IInv, TypeOK, WriteBackInv, TombstoneInv, DeleteLeavesNothing, OwnVersion, Resolves,
       HasChildren, Rows, Calls
<1>5. UnbornInv' /\ ScanInv' /\ BundleInv'
  BY BlobsUntouched DEF IInv, TypeOK, BeforeVersion, BeforeCreate, Calls
<1> QED BY <1>1, <1>2, <1>3, <1>4, <1>5, TablesUntouched DEF IInv

\* Put adds a bundle, and the deploy now knows what it deploys.
LEMMA DeployPutKeeps == ASSUME IInv, NEW d \in Deploys, DeployPut(d) PROVE IInv'
<1> USE NoneNotAnId, NoneNotARow, KindsAssumption DEF DeployPut, tables, locals, Goto
<1>1. TypeOK'
  BY DEF IInv, TypeOK, CallStates, Calls, Rows, Function, Version, DeployArgs
<1>2. LocalInv'
  BY DEF IInv, TypeOK, LocalInv, DeployArgs, Calls, Rows
<1>3. FreshInv'
  BY DEF IInv, TypeOK, FreshInv, Claimed, BeforeCreate, Calls
<1>4. WriteBackInv' /\ TombstoneInv' /\ DeleteLeavesNothing'
  BY DEF IInv, TypeOK, WriteBackInv, TombstoneInv, DeleteLeavesNothing, OwnVersion, Resolves,
       HasChildren, Rows, Calls
<1>5. UnbornInv' /\ ScanInv'
  BY DEF IInv, TypeOK, UnbornInv, ScanInv, BeforeVersion, BeforeCreate, Calls
<1>6. BundleInv'
  BY DEF IInv, TypeOK, BundleInv, BeforeVersion, BeforeCreate, DeployArgs, Calls
<1> QED BY <1>1, <1>2, <1>3, <1>4, <1>5, <1>6, TablesUntouched DEF IInv

\* The row a deploy reads by a live name has an active version of its own.
LEMMA DeployLookupKeeps == ASSUME IInv, NEW d \in Deploys, DeployLookup(d) PROVE IInv'
<1> USE NoneNotAnId, NoneNotARow, KindsAssumption DEF DeployLookup, tables, locals, ByName, ReadRow,
     Goto
<1>1. TypeOK'
  BY DEF IInv, TypeOK, CallStates, Calls, Rows, Function, Version, DeployArgs
<1>2. LocalInv'
  BY DEF IInv, TypeOK, LocalInv, DeployArgs, Calls, Rows
<1>3. FreshInv'
  BY DEF IInv, TypeOK, FreshInv, RowsHoldNames, Claimed, Rows, Function, BeforeCreate, Calls
<1>4. WriteBackInv'
  BY DEF IInv, TypeOK, WriteBackInv, ClaimsLead, OwnVersion, Resolves, Rows, Function, Claim, Calls
<1>5. TombstoneInv' /\ DeleteLeavesNothing'
  BY DEF IInv, TypeOK, TombstoneInv, DeleteLeavesNothing, Resolves, HasChildren, Rows, Calls
<1>6. UnbornInv' /\ ScanInv' /\ BundleInv'
  BY BlobsUntouched DEF IInv, TypeOK, BeforeVersion, BeforeCreate, Calls
<1> QED BY <1>1, <1>2, <1>3, <1>4, <1>5, <1>6, TablesUntouched DEF IInv

\* The cheap quota check decides nothing.
LEMMA DeployPrecheckKeeps == ASSUME IInv, NEW d \in Deploys, DeployPrecheck(d) PROVE IInv'
<1> USE NoneNotAnId, NoneNotARow, KindsAssumption DEF DeployPrecheck, tables, locals, Goto
<1>1. TypeOK'
  BY DEF IInv, TypeOK, CallStates, Calls, Rows, Function, Version, DeployArgs
<1>2. LocalInv'
  BY DEF IInv, TypeOK, LocalInv, DeployArgs, Calls, Rows
<1>3. FreshInv'
  BY DEF IInv, TypeOK, FreshInv, Claimed, BeforeCreate, Calls
<1>4. WriteBackInv' /\ TombstoneInv' /\ DeleteLeavesNothing'
  BY DEF IInv, TypeOK, WriteBackInv, TombstoneInv, DeleteLeavesNothing, OwnVersion, Resolves,
       HasChildren, Rows, Calls
<1>5. UnbornInv' /\ ScanInv' /\ BundleInv'
  BY BlobsUntouched DEF IInv, TypeOK, BeforeVersion, BeforeCreate, Calls
<1> QED BY <1>1, <1>2, <1>3, <1>4, <1>5, TablesUntouched DEF IInv

\* The insert takes a name no one ever claimed, in a scope under its limit, for
\* a function that no call has seen.
LEMMA DeployCreateKeeps == ASSUME IInv, NEW d \in Deploys, DeployCreate(d) PROVE IInv'
<1> USE NoneNotAnId, NoneNotARow, KindsAssumption DEF DeployCreate, Goto
<1>1. arg[d] \in DeployArgs /\ d \in Calls /\ d \notin Deletes
  BY DEF IInv, LocalInv, Calls
<1>2. functions[d] = None /\ ~Claimed(d) /\ versions[d] = None
  BY DEF IInv, FreshInv, UnbornInv, BeforeCreate, BeforeVersion
<1>3. LocalInv'
  BY <1>1 DEF IInv, TypeOK, LocalInv, Calls
<1>4. UnbornInv' /\ ScanInv' /\ BundleInv'
  <2>1. UNCHANGED <<versions, blobs, gc>> /\ arg' = arg
    OBVIOUS
  <2>2. \A e \in Deploys : pc'[e] \in BeforeVersion =>
          (pc[e] \in BeforeVersion /\ pc[e] # "start") \/ pc'[e] = pc[e]
    BY DEF IInv, TypeOK, BeforeVersion, BeforeCreate, Calls
  <2> QED BY <2>1, <2>2, BlobsUntouched
<1>5. CASE LimitReached(arg[d]) \/ names[arg[d].name] # None
  <2> USE <1>5
  <2>1. TypeOK'
    BY DEF IInv, TypeOK, CallStates, Calls
  <2>2. FreshInv'
    BY DEF IInv, TypeOK, FreshInv, Claimed, BeforeCreate, Calls
  <2>3. WriteBackInv' /\ TombstoneInv' /\ DeleteLeavesNothing'
    BY DEF IInv, TypeOK, WriteBackInv, TombstoneInv, DeleteLeavesNothing, OwnVersion,
           Resolves, HasChildren, Rows, Calls
  <2>4. UNCHANGED tables
    BY DEF tables
  <2> QED BY <1>3, <1>4, <2>1, <2>2, <2>3, <2>4, TablesUntouched DEF IInv
<1>6. CASE ~LimitReached(arg[d]) /\ names[arg[d].name] = None
  <2> DEFINE a == arg[d]
             row == [name |-> a.name, owner |-> a.owner, by |-> a.by, desc |-> a.desc, active |-> None]
  <2>1. /\ functions' = [functions EXCEPT ![d] = row]
        /\ names' = [names EXCEPT ![a.name] = [fn |-> d, live |-> TRUE]]
        /\ fn' = [fn EXCEPT ![d] = d]
        /\ old' = [old EXCEPT ![d] = None]
        /\ pc' = [pc EXCEPT ![d] = "version"]
        /\ UNCHANGED <<versions, envs, logs, blobs, warm, arg, gc>>
    BY <1>6
  <2>2. a.name \in Names /\ row \in Function /\ [fn |-> d, live |-> TRUE] \in Claim
    BY <1>1 DEF DeployArgs, Function, Claim
  <2>3. TypeOK'
    BY <2>1, <2>2 DEF IInv, TypeOK, CallStates, Calls
  <2>4. /\ functions'[d] = row /\ row # None
        /\ \A f \in Deploys \ {d} : functions'[f] = functions[f]
        /\ names'[a.name] = [fn |-> d, live |-> TRUE] /\ names'[a.name] # None
        /\ \A n \in Names \ {a.name} : names'[n] = names[n]
    BY <2>1, <2>2 DEF IInv, TypeOK
  <2>5. Rows' = Rows \cup {d} /\ d \notin Rows
    BY <1>2, <2>4 DEF Rows
  <2>6. \A f \in Deploys \ {d} : (Resolves(f)' <=> Resolves(f)) /\ (Claimed(f)' <=> Claimed(f))
    BY <1>6, <2>4 DEF Resolves, Claimed
  <2>7. FreshInv'
    <3>1. Claimed(d)'
      BY <2>2, <2>4 DEF Claimed
    <3>2. \A c \in Calls : fn'[c] = IF c = d THEN d ELSE fn[c]
      BY <1>1, <2>1 DEF IInv, TypeOK
    <3>3. \A c \in Calls : fn'[c] # None => Claimed(fn[c])'
      BY <2>6, <3>1, <3>2 DEF IInv, TypeOK, FreshInv, Claimed
    <3>4. ASSUME NEW e \in Deploys, pc'[e] \in BeforeCreate
          PROVE  functions'[e] = None /\ ~Claimed(e)'
      <4>1. e # d /\ pc[e] \in BeforeCreate
        BY <1>1, <2>1, <3>4 DEF IInv, TypeOK, BeforeCreate, Calls
      <4> QED BY <2>4, <2>6, <4>1 DEF IInv, FreshInv, Claimed
    <3> QED BY <3>3, <3>4 DEF FreshInv, Claimed
  <2>8. RowsHoldNames'
    <3>1. ASSUME NEW f \in Rows' PROVE names'[functions'[f].name] # None /\ names'[functions'[f].name].fn = f
      <4>1. CASE f = d
        BY <2>4, <4>1
      <4>2. CASE f # d
        <5>1. f \in Rows /\ functions'[f] = functions[f] /\ functions[f].name \in Names
          BY <2>4, <2>5, <4>2, RowTypes DEF IInv, Rows, Function
        <5> QED BY <1>6, <2>4, <5>1 DEF IInv, RowsHoldNames
      <4> QED BY <4>1, <4>2
    <3> QED BY <3>1 DEF RowsHoldNames
  <2>9. ClaimsLead'
    <3>1. ASSUME NEW n \in Names, names'[n] # None, names'[n].live
          PROVE  /\ names'[n].fn \in Rows'
                 /\ functions'[names'[n].fn].name = n
                 /\ functions'[names'[n].fn].active # None =>
                       OwnVersion(names[n].fn, functions[names[n].fn].active)'
      <4>1. CASE n = a.name
        BY <2>4, <2>5, <4>1
      <4>2. CASE n # a.name
        <5>1. names'[n] = names[n] /\ names[n].fn # d /\ names[n].fn \in Deploys
          BY <1>2, <2>4, <3>1, <4>2, RowTypes DEF IInv, Claimed, Claim
        <5> QED BY <2>1, <2>4, <2>5, <3>1, <5>1 DEF IInv, ClaimsLead, OwnVersion
      <4> QED BY <4>1, <4>2
    <3> QED BY <3>1 DEF ClaimsLead
  <2>10. \A c \in Calls \ {d} : pc'[c] = pc[c] /\ fn'[c] = fn[c] /\ old'[c] = old[c]
    BY <2>1 DEF IInv, TypeOK
  <2>11. \A c \in Calls \ {d} : fn[c] \in Deploys => fn[c] # d
    BY <1>2 DEF IInv, FreshInv
  <2>12. WriteBackInv'
    <3> SUFFICES ASSUME NEW e \in Deploys, pc'[e] = "update", Resolves(fn[e])', old'[e] # None
                 PROVE  OwnVersion(fn[e], old[e])'
      BY DEF WriteBackInv
    <3>1. e # d /\ e \in Calls
      BY <1>1, <2>1 DEF IInv, TypeOK, Calls
    <3>2. pc[e] = "update" /\ fn'[e] = fn[e] /\ old'[e] = old[e] /\ fn[e] \in Deploys \ {d}
      BY <2>10, <2>11, <3>1 DEF IInv, LocalInv
    <3>3. Resolves(fn[e])
      BY <2>6, <3>2 DEF Resolves
    <3> QED BY <2>1, <3>2, <3>3 DEF IInv, WriteBackInv, OwnVersion
  <2>13. TombstoneInv'
    <3> SUFFICES ASSUME NEW x \in Deletes, pc'[x] \in {"envs", "logs", "versions", "row"}
                 PROVE  ~Resolves(fn[x])'
      BY DEF TombstoneInv
    <3>1. x # d /\ x \in Calls
      BY <1>1 DEF Calls
    <3>2. pc'[x] = pc[x] /\ fn'[x] = fn[x] /\ fn[x] \in Deploys \ {d}
      BY <2>10, <2>11, <3>1 DEF IInv, LocalInv
    <3> QED BY <2>6, <3>2 DEF IInv, TombstoneInv, Resolves
  <2>14. DeleteLeavesNothing'
    <3> SUFFICES ASSUME NEW x \in Deletes, pc'[x] = "ok"
                 PROVE  fn'[x] \notin Rows' /\ ~HasChildren(fn[x])'
      BY DEF DeleteLeavesNothing
    <3>1. x # d /\ x \in Calls
      BY <1>1 DEF Calls
    <3>2. pc'[x] = pc[x] /\ fn'[x] = fn[x] /\ fn[x] \in Deploys \ {d}
      BY <2>10, <2>11, <3>1 DEF IInv, LocalInv
    <3> QED BY <2>1, <2>5, <3>2 DEF IInv, DeleteLeavesNothing, HasChildren
  <2>15. KeyInv'
    BY <2>1, <2>5 DEF IInv, KeyInv
  <2>16. QuotaRespected'
    <3> SUFFICES ASSUME Limit > 0, NEW o \in Owners, NEW u \in Users
                 PROVE  Cardinality(InScope(o, u)') <= Limit
      BY DEF QuotaRespected, InScope
    <3>1. CASE a.owner = o /\ (o \in Workspaces => a.by = u)
      <4>1. InScope(o, u) = InScope(a.owner, a.by)
        BY <3>1 DEF InScope
      <4>2. Cardinality(InScope(o, u)) < Limit
        BY <1>6, <4>1, ScopeIsFinite, LimitAssumption DEF LimitReached
      <4>3. InScope(o, u)' = InScope(o, u) \cup {d}
        BY <2>4, <2>5, <3>1 DEF InScope, Rows
      <4>4. Cardinality(InScope(o, u) \cup {d}) <= Cardinality(InScope(o, u)) + 1
        <5>1. IsFiniteSet(InScope(o, u)) /\ Cardinality(InScope(o, u)) \in Nat
          BY ScopeIsFinite
        <5>2. Cardinality(InScope(o, u) \cup {d})
                = IF d \in InScope(o, u) THEN Cardinality(InScope(o, u)) ELSE Cardinality(InScope(o, u)) + 1
          BY <5>1, FS_AddElement
        <5> QED BY <5>1, <5>2
      <4>5. Cardinality(InScope(o, u)') \in Nat
        BY <4>3, ScopeIsFinite, FS_AddElement, FS_CardinalityType
      <4> QED BY <4>2, <4>3, <4>4, <4>5, ScopeIsFinite, LimitAssumption
    <3>2. CASE ~(a.owner = o /\ (o \in Workspaces => a.by = u))
      <4>1. InScope(o, u)' = InScope(o, u)
        BY <2>4, <2>5, <3>2 DEF InScope, Rows
      <4> QED BY <4>1 DEF IInv, QuotaRespected
    <3> QED BY <3>1, <3>2
  <2> QED BY <1>3, <1>4, <2>3, <2>7, <2>8, <2>9, <2>12, <2>13, <2>14, <2>15, <2>16 DEF IInv
<1> QED BY <1>5, <1>6

\* Functions().Update of a row that is there changes its description and its
\* active version, and no other row.
LEMMA Rewritten ==
    ASSUME IInv, NEW d \in Deploys, DeployUpdate(d), fn[d] \in Rows
    PROVE  /\ Rows' = Rows
           /\ functions'[fn[d]].name = functions[fn[d]].name
           /\ functions'[fn[d]].active = old[d]
<1> DEFINE f == fn[d]
           half == [functions EXCEPT ![f].desc = arg[d].desc]
<1>1. functions[f] \in Function /\ f \in Deploys
  BY RowTypes DEF IInv, Rows
<1>2. arg[d] \in DeployArgs /\ old[d] \in Deploys \cup {None}
  BY DEF IInv, TypeOK, LocalInv, DeployUpdate, Calls
<1>3. functions' = [half EXCEPT ![f].active = old[d]]
  BY DEF DeployUpdate
<1>4. half[f] = [functions[f] EXCEPT !.desc = arg[d].desc] /\ half[f] \in Function
  BY <1>1, <1>2 DEF IInv, TypeOK, Function, DeployArgs
<1>5. half \in [Deploys -> Function \cup {None}] /\ \A g \in Deploys \ {f} : half[g] = functions[g]
  BY <1>1, <1>2 DEF IInv, TypeOK, Function, DeployArgs
<1>6. functions'[f] = [half[f] EXCEPT !.active = old[d]]
  BY <1>1, <1>3, <1>5
<1>7. functions'[f].name = functions[f].name /\ functions'[f].active = old[d] /\ functions'[f] \in Function
  BY <1>1, <1>2, <1>4, <1>6 DEF Function
<1>8. \A g \in Deploys \ {f} : functions'[g] = functions[g]
  BY <1>3, <1>5
<1> QED BY <1>1, <1>7, <1>8, NoneNotARow DEF Rows

\* The row written back keeps its name, and its active version is still its own.
LEMMA DeployUpdateKeeps == ASSUME IInv, NEW d \in Deploys, DeployUpdate(d) PROVE IInv'
<1> USE NoneNotAnId, NoneNotARow, KindsAssumption DEF DeployUpdate, Goto
<1>1. TypeOK'
  BY DEF IInv, TypeOK, LocalInv, CallStates, Calls, Rows, Function, Version, Claim, DeployArgs, locals
<1>2. LocalInv'
  BY DEF IInv, TypeOK, LocalInv, Calls, locals
<1>3. FreshInv'
  BY DEF IInv, TypeOK, LocalInv, FreshInv, Claimed, BeforeCreate, Calls, Rows, locals
<1>4. RowsHoldNames'
  BY DEF IInv, TypeOK, LocalInv, RowsHoldNames, Rows, Function
<1>5. ClaimsLead'
  <2> SUFFICES ASSUME NEW n \in Names, names[n] # None, names[n].live
               PROVE  /\ names[n].fn \in Rows'
                      /\ functions'[names[n].fn].name = n
                      /\ functions'[names[n].fn].active # None =>
                            OwnVersion(names[n].fn, functions'[names[n].fn].active)
    BY DEF ClaimsLead, OwnVersion
  <2> DEFINE f == names[n].fn
  <2>1. /\ f \in Rows /\ functions[f].name = n
        /\ functions[f].active # None => OwnVersion(f, functions[f].active)
    BY DEF IInv, ClaimsLead
  <2>2. functions[f] \in Function /\ Resolves(f)
    BY <2>1, RowTypes DEF IInv, Resolves
  <2>3. CASE f = fn[d]
    <3>1. f \in Rows' /\ functions'[f].name = functions[f].name /\ functions'[f].active = old[d]
      BY <2>1, <2>2, <2>3, Rewritten
    <3> QED BY <2>1, <2>2, <2>3, <3>1 DEF IInv, WriteBackInv
  <2>4. CASE f # fn[d]
    BY <2>1, <2>4 DEF IInv, TypeOK, Rows
  <2> QED BY <2>3, <2>4
<1>6. WriteBackInv' /\ TombstoneInv'
  BY DEF IInv, TypeOK, WriteBackInv, TombstoneInv, OwnVersion, Resolves, Calls, locals
<1>7. KeyInv'
  <2>1. Rows' = Rows
    BY Rewritten DEF Rows
  <2> QED BY <2>1 DEF IInv, KeyInv
<1>8. UnbornInv' /\ ScanInv' /\ BundleInv'
  BY BlobsUntouched DEF IInv, TypeOK, BeforeVersion, BeforeCreate, Calls, locals
<1>9. DeleteLeavesNothing'
  BY DEF IInv, TypeOK, LocalInv, DeleteLeavesNothing, HasChildren, Rows, Version, Calls, locals
<1>10. QuotaRespected'
  BY NoInsertKeepsQuota DEF IInv, TypeOK, Rows, Function, LocalInv
<1> QED BY <1>1, <1>2, <1>3, <1>4, <1>5, <1>6, <1>7, <1>8, <1>9, <1>10 DEF IInv

\* The new version belongs to a row that is there, and no one has seen it.
LEMMA DeployVersionKeeps == ASSUME IInv, NEW d \in Deploys, DeployVersion(d) PROVE IInv'
<1> USE NoneNotAnId, NoneNotARow, KindsAssumption DEF DeployVersion, Goto
<1>1. TypeOK'
  BY DEF IInv, TypeOK, LocalInv, CallStates, Calls, Rows, Function, Version, Claim, DeployArgs, locals
<1>2. LocalInv'
  BY DEF IInv, TypeOK, LocalInv, Calls, locals
<1>3. FreshInv'
  BY DEF IInv, TypeOK, LocalInv, FreshInv, Claimed, BeforeCreate, Calls, Rows, locals
<1>4. RowsHoldNames'
  BY DEF IInv, TypeOK, LocalInv, RowsHoldNames, Rows, Function
<1>5. ClaimsLead'
  <2>1. versions[d] = None /\ \A v \in Deploys \ {d} : versions'[v] = versions[v]
    BY DEF IInv, TypeOK, UnbornInv, BeforeVersion
  <2>2. \A f \in Rows : functions[f].active # None => functions[f].active \in Deploys
    BY RowTypes DEF IInv, Function
  <2>3. functions' = functions /\ names' = names
    OBVIOUS
  <2> QED BY <2>1, <2>2, <2>3 DEF IInv, ClaimsLead, OwnVersion, Rows
<1>6. WriteBackInv' /\ TombstoneInv'
  BY DEF IInv, TypeOK, LocalInv, WriteBackInv, TombstoneInv, UnbornInv, BeforeVersion, OwnVersion,
       Resolves, Calls, locals
<1>7. KeyInv'
  BY DEF IInv, TypeOK, LocalInv, KeyInv, Rows, Function, Version
<1>8. UnbornInv' /\ ScanInv'
  BY DEF IInv, TypeOK, Collection, UnbornInv, ScanInv, BeforeVersion, BeforeCreate, Calls, locals
<1>9. BundleInv'
  BY DEF IInv, TypeOK, LocalInv, BundleInv, BeforeVersion, BeforeCreate, Version, DeployArgs, Calls,
       locals
<1>10. DeleteLeavesNothing'
  BY DEF IInv, TypeOK, LocalInv, DeleteLeavesNothing, HasChildren, Rows, Version, Calls, locals
<1>11. QuotaRespected'
  BY NoInsertKeepsQuota DEF IInv
<1> QED BY <1>1, <1>2, <1>3, <1>4, <1>5, <1>6, <1>7, <1>8, <1>9, <1>10, <1>11 DEF IInv

\* The transaction checks the version it makes active.
LEMMA DeployActivateKeeps == ASSUME IInv, NEW d \in Deploys, DeployActivate(d) PROVE IInv'
<1> USE NoneNotAnId, NoneNotARow, KindsAssumption DEF DeployActivate, ActivateVersion, CanActivate, Goto
<1>1. TypeOK'
  BY DEF IInv, TypeOK, LocalInv, CallStates, Calls, Rows, Function, Version, Claim, DeployArgs, locals
<1>2. LocalInv'
  BY DEF IInv, TypeOK, LocalInv, Calls, locals
<1>3. FreshInv'
  BY DEF IInv, TypeOK, LocalInv, FreshInv, Claimed, BeforeCreate, Calls, Rows, locals
<1>4. RowsHoldNames'
  BY DEF IInv, TypeOK, LocalInv, RowsHoldNames, Rows, Function
<1>5. ClaimsLead'
  BY DEF IInv, TypeOK, LocalInv, ClaimsLead, OwnVersion, Rows, Function
<1>6. WriteBackInv' /\ TombstoneInv'
  BY DEF IInv, TypeOK, WriteBackInv, TombstoneInv, OwnVersion, Resolves, Calls, locals
<1>7. KeyInv'
  <2>1. Rows' = Rows
    BY DEF IInv, TypeOK, LocalInv, Rows, Function
  <2> QED BY <2>1 DEF IInv, KeyInv
<1>8. UnbornInv' /\ ScanInv' /\ BundleInv'
  BY BlobsUntouched DEF IInv, TypeOK, BeforeVersion, BeforeCreate, Calls, locals
<1>9. DeleteLeavesNothing'
  BY DEF IInv, TypeOK, LocalInv, DeleteLeavesNothing, HasChildren, Rows, Version, Calls, locals
<1>10. QuotaRespected'
  BY NoInsertKeepsQuota DEF IInv, TypeOK, Rows, Function, LocalInv
<1> QED BY <1>1, <1>2, <1>3, <1>4, <1>5, <1>6, <1>7, <1>8, <1>9, <1>10 DEF IInv

\* A rollback goes through the same transaction.
LEMMA RollbackActivateKeeps == ASSUME IInv, NEW b \in Rollbacks, RollbackActivate(b) PROVE IInv'
<1> USE NoneNotAnId, NoneNotARow, KindsAssumption DEF RollbackActivate, ActivateVersion, CanActivate,
     Goto
<1>1. TypeOK'
  BY DEF IInv, TypeOK, LocalInv, CallStates, Calls, Rows, Function, Version, Claim, DeployArgs, locals
<1>2. LocalInv'
  BY DEF IInv, TypeOK, LocalInv, Calls, locals
<1>3. FreshInv'
  BY DEF IInv, TypeOK, LocalInv, FreshInv, Claimed, BeforeCreate, Calls, Rows, locals
<1>4. RowsHoldNames'
  BY DEF IInv, TypeOK, LocalInv, RowsHoldNames, Rows, Function
<1>5. ClaimsLead'
  BY DEF IInv, TypeOK, LocalInv, ClaimsLead, OwnVersion, Rows, Function
<1>6. WriteBackInv' /\ TombstoneInv'
  BY DEF IInv, TypeOK, WriteBackInv, TombstoneInv, OwnVersion, Resolves, Calls, locals
<1>7. KeyInv'
  <2>1. Rows' = Rows
    BY DEF IInv, TypeOK, LocalInv, Rows, Function
  <2> QED BY <2>1 DEF IInv, KeyInv
<1>8. UnbornInv' /\ ScanInv' /\ BundleInv'
  BY BlobsUntouched DEF IInv, TypeOK, BeforeVersion, BeforeCreate, Calls, locals
<1>9. DeleteLeavesNothing'
  BY DEF IInv, TypeOK, LocalInv, DeleteLeavesNothing, HasChildren, Rows, Version, Calls, locals
<1>10. QuotaRespected'
  BY NoInsertKeepsQuota DEF IInv, TypeOK, Rows, Function, LocalInv
<1> QED BY <1>1, <1>2, <1>3, <1>4, <1>5, <1>6, <1>7, <1>8, <1>9, <1>10 DEF IInv

\* Dropping a pool touches no row.
LEMMA DeployInvalidateKeeps == ASSUME IInv, NEW d \in Deploys, DeployInvalidate(d) PROVE IInv'
<1> USE NoneNotAnId, NoneNotARow, KindsAssumption DEF DeployInvalidate, tables, locals, Invalidated,
     Goto
<1>1. TypeOK'
  BY DEF IInv, TypeOK, CallStates, Calls, Rows, Function, Version, DeployArgs
<1>2. LocalInv'
  BY DEF IInv, TypeOK, LocalInv, DeployArgs, Calls, Rows
<1>3. FreshInv'
  BY DEF IInv, TypeOK, FreshInv, Claimed, BeforeCreate, Calls
<1>4. WriteBackInv' /\ TombstoneInv' /\ DeleteLeavesNothing'
  BY DEF IInv, TypeOK, WriteBackInv, TombstoneInv, DeleteLeavesNothing, OwnVersion, Resolves,
       HasChildren, Rows, Calls
<1>5. UnbornInv' /\ ScanInv' /\ BundleInv'
  BY BlobsUntouched DEF IInv, TypeOK, BeforeVersion, BeforeCreate, Calls
<1> QED BY <1>1, <1>2, <1>3, <1>4, <1>5, TablesUntouched DEF IInv

\* A rollback reads the row of a function that was created.
LEMMA RollbackResolveKeeps == ASSUME IInv, NEW b \in Rollbacks, RollbackResolve(b) PROVE IInv'
<1> USE NoneNotAnId, NoneNotARow, KindsAssumption DEF RollbackResolve, tables, locals, ReadRow, Goto
<1>1. TypeOK'
  BY DEF IInv, TypeOK, CallStates, Calls, Rows, Function, Version, DeployArgs
<1>2. LocalInv'
  BY DEF IInv, TypeOK, LocalInv, DeployArgs, Calls, Rows
<1>3. FreshInv'
  BY DEF IInv, TypeOK, FreshInv, RowsHoldNames, Claimed, Rows, Function, BeforeCreate, Calls
<1>4. WriteBackInv' /\ TombstoneInv' /\ DeleteLeavesNothing'
  BY DEF IInv, TypeOK, WriteBackInv, TombstoneInv, DeleteLeavesNothing, OwnVersion, Resolves,
       HasChildren, Rows, Calls
<1>5. UnbornInv' /\ ScanInv' /\ BundleInv'
  BY BlobsUntouched DEF IInv, TypeOK, BeforeVersion, BeforeCreate, Calls
<1> QED BY <1>1, <1>2, <1>3, <1>4, <1>5, TablesUntouched DEF IInv

\* Dropping a pool touches no row.
LEMMA RollbackInvalidateKeeps == ASSUME IInv, NEW b \in Rollbacks, RollbackInvalidate(b) PROVE IInv'
<1> USE NoneNotAnId, NoneNotARow, KindsAssumption DEF RollbackInvalidate, tables, locals, Invalidated,
     Goto
<1>1. TypeOK'
  BY DEF IInv, TypeOK, CallStates, Calls, Rows, Function, Version, DeployArgs
<1>2. LocalInv'
  BY DEF IInv, TypeOK, LocalInv, DeployArgs, Calls, Rows
<1>3. FreshInv'
  BY DEF IInv, TypeOK, FreshInv, Claimed, BeforeCreate, Calls
<1>4. WriteBackInv' /\ TombstoneInv' /\ DeleteLeavesNothing'
  BY DEF IInv, TypeOK, WriteBackInv, TombstoneInv, DeleteLeavesNothing, OwnVersion, Resolves,
       HasChildren, Rows, Calls
<1>5. UnbornInv' /\ ScanInv' /\ BundleInv'
  BY BlobsUntouched DEF IInv, TypeOK, BeforeVersion, BeforeCreate, Calls
<1> QED BY <1>1, <1>2, <1>3, <1>4, <1>5, TablesUntouched DEF IInv

\* A delete reads the row of a function that was created.
LEMMA DeleteResolveKeeps == ASSUME IInv, NEW x \in Deletes, DeleteResolve(x) PROVE IInv'
<1> USE NoneNotAnId, NoneNotARow, KindsAssumption DEF DeleteResolve, tables, locals, ReadRow, Goto
<1>1. TypeOK'
  BY DEF IInv, TypeOK, CallStates, Calls, Rows, Function, Version, DeployArgs
<1>2. LocalInv'
  BY DEF IInv, TypeOK, LocalInv, DeployArgs, Calls, Rows
<1>3. FreshInv'
  BY DEF IInv, TypeOK, FreshInv, RowsHoldNames, Claimed, Rows, Function, BeforeCreate, Calls
<1>4. WriteBackInv' /\ TombstoneInv' /\ DeleteLeavesNothing'
  BY DEF IInv, TypeOK, WriteBackInv, TombstoneInv, DeleteLeavesNothing, OwnVersion, Resolves,
       HasChildren, Rows, Calls
<1>5. UnbornInv' /\ ScanInv' /\ BundleInv'
  BY BlobsUntouched DEF IInv, TypeOK, BeforeVersion, BeforeCreate, Calls
<1> QED BY <1>1, <1>2, <1>3, <1>4, <1>5, TablesUntouched DEF IInv

\* Dropping a pool touches no row.
LEMMA DeleteInvalidateKeeps == ASSUME IInv, NEW x \in Deletes, DeleteInvalidate(x) PROVE IInv'
<1> USE NoneNotAnId, NoneNotARow, KindsAssumption DEF DeleteInvalidate, tables, locals, Invalidated,
     Goto
<1>1. TypeOK'
  BY DEF IInv, TypeOK, CallStates, Calls, Rows, Function, Version, DeployArgs
<1>2. LocalInv'
  BY DEF IInv, TypeOK, LocalInv, DeployArgs, Calls, Rows
<1>3. FreshInv'
  BY DEF IInv, TypeOK, FreshInv, Claimed, BeforeCreate, Calls
<1>4. WriteBackInv' /\ TombstoneInv' /\ DeleteLeavesNothing'
  BY DEF IInv, TypeOK, WriteBackInv, TombstoneInv, DeleteLeavesNothing, OwnVersion, Resolves,
       HasChildren, Rows, Calls
<1>5. UnbornInv' /\ ScanInv' /\ BundleInv'
  BY BlobsUntouched DEF IInv, TypeOK, BeforeVersion, BeforeCreate, Calls
<1> QED BY <1>1, <1>2, <1>3, <1>4, <1>5, TablesUntouched DEF IInv

\* The tombstone keeps the claim and ends the resolution.
LEMMA DeleteTombstoneKeeps == ASSUME IInv, NEW x \in Deletes, DeleteTombstone(x) PROVE IInv'
<1> USE NoneNotAnId, NoneNotARow, KindsAssumption DEF DeleteTombstone, Goto
<1>1. \A n \in Names : names[n] # None =>
        names'[n] \in Claim /\ names'[n].fn = names[n].fn /\ (names'[n].live => names[n].live)
  BY RowTypes DEF IInv, Claim
<1>2. \A n \in Names : names[n] = None => names'[n] = None
  OBVIOUS
<1>3. TypeOK'
  BY <1>1, <1>2 DEF IInv, TypeOK, CallStates, Calls, locals
<1>4. LocalInv'
  BY DEF IInv, TypeOK, LocalInv, Calls, locals
<1>5. FreshInv'
  BY <1>1, <1>2 DEF IInv, TypeOK, FreshInv, Claimed, BeforeCreate, Calls, locals
<1>6. RowsHoldNames'
  BY <1>1, RowTypes DEF IInv, RowsHoldNames, Rows, Function
<1>7. ClaimsLead'
  BY DEF IInv, TypeOK, LocalInv, ClaimsLead, OwnVersion, Rows, Function
<1>8. WriteBackInv' /\ TombstoneInv'
  BY DEF IInv, TypeOK, WriteBackInv, TombstoneInv, OwnVersion, Resolves, Calls, locals
<1>9. KeyInv'
  BY DEF IInv, TypeOK, LocalInv, KeyInv, Rows, Function, Version
<1>10. UnbornInv' /\ ScanInv' /\ BundleInv'
  BY BlobsUntouched DEF IInv, TypeOK, BeforeVersion, BeforeCreate, Calls, locals
<1>11. DeleteLeavesNothing'
  BY DEF IInv, TypeOK, LocalInv, DeleteLeavesNothing, HasChildren, Rows, Version, Calls, locals
<1>12. QuotaRespected'
  BY NoInsertKeepsQuota DEF IInv
<1> QED BY <1>1, <1>2, <1>3, <1>4, <1>5, <1>6, <1>7, <1>8, <1>9, <1>10, <1>11, <1>12 DEF IInv

\* Deleting rows that refer to a function breaks no key.
LEMMA DeleteEnvsKeeps == ASSUME IInv, NEW x \in Deletes, DeleteEnvs(x) PROVE IInv'
<1> USE NoneNotAnId, NoneNotARow, KindsAssumption DEF DeleteEnvs, Goto
<1>1. TypeOK'
  BY DEF IInv, TypeOK, LocalInv, CallStates, Calls, Rows, Function, Version, Claim, DeployArgs, locals
<1>2. LocalInv'
  BY DEF IInv, TypeOK, LocalInv, Calls, locals
<1>3. FreshInv'
  BY DEF IInv, TypeOK, LocalInv, FreshInv, Claimed, BeforeCreate, Calls, Rows, locals
<1>4. RowsHoldNames'
  BY DEF IInv, TypeOK, LocalInv, RowsHoldNames, Rows, Function
<1>5. ClaimsLead'
  BY DEF IInv, TypeOK, LocalInv, ClaimsLead, OwnVersion, Rows, Function
<1>6. WriteBackInv' /\ TombstoneInv'
  BY DEF IInv, TypeOK, WriteBackInv, TombstoneInv, OwnVersion, Resolves, Calls, locals
<1>7. KeyInv'
  BY DEF IInv, TypeOK, LocalInv, KeyInv, Rows, Function, Version
<1>8. UnbornInv' /\ ScanInv' /\ BundleInv'
  BY BlobsUntouched DEF IInv, TypeOK, BeforeVersion, BeforeCreate, Calls, locals
<1>9. DeleteLeavesNothing'
  BY DEF IInv, TypeOK, LocalInv, DeleteLeavesNothing, HasChildren, Rows, Version, Calls, locals
<1>10. QuotaRespected'
  BY NoInsertKeepsQuota DEF IInv
<1> QED BY <1>1, <1>2, <1>3, <1>4, <1>5, <1>6, <1>7, <1>8, <1>9, <1>10 DEF IInv

\* Deleting rows that refer to a function breaks no key.
LEMMA DeleteLogsKeeps == ASSUME IInv, NEW x \in Deletes, DeleteLogs(x) PROVE IInv'
<1> USE NoneNotAnId, NoneNotARow, KindsAssumption DEF DeleteLogs, Goto
<1>1. TypeOK'
  BY DEF IInv, TypeOK, LocalInv, CallStates, Calls, Rows, Function, Version, Claim, DeployArgs, locals
<1>2. LocalInv'
  BY DEF IInv, TypeOK, LocalInv, Calls, locals
<1>3. FreshInv'
  BY DEF IInv, TypeOK, LocalInv, FreshInv, Claimed, BeforeCreate, Calls, Rows, locals
<1>4. RowsHoldNames'
  BY DEF IInv, TypeOK, LocalInv, RowsHoldNames, Rows, Function
<1>5. ClaimsLead'
  BY DEF IInv, TypeOK, LocalInv, ClaimsLead, OwnVersion, Rows, Function
<1>6. WriteBackInv' /\ TombstoneInv'
  BY DEF IInv, TypeOK, WriteBackInv, TombstoneInv, OwnVersion, Resolves, Calls, locals
<1>7. KeyInv'
  BY DEF IInv, TypeOK, LocalInv, KeyInv, Rows, Function, Version
<1>8. UnbornInv' /\ ScanInv' /\ BundleInv'
  BY BlobsUntouched DEF IInv, TypeOK, BeforeVersion, BeforeCreate, Calls, locals
<1>9. DeleteLeavesNothing'
  BY DEF IInv, TypeOK, LocalInv, DeleteLeavesNothing, HasChildren, Rows, Version, Calls, locals
<1>10. QuotaRespected'
  BY NoInsertKeepsQuota DEF IInv
<1> QED BY <1>1, <1>2, <1>3, <1>4, <1>5, <1>6, <1>7, <1>8, <1>9, <1>10 DEF IInv

\* The versions go only once the function has stopped to resolve.
LEMMA DeleteVersionsKeeps == ASSUME IInv, NEW x \in Deletes, DeleteVersions(x) PROVE IInv'
<1> USE NoneNotAnId, NoneNotARow, KindsAssumption DEF DeleteVersions, Goto
<1>1. TypeOK'
  BY DEF IInv, TypeOK, LocalInv, CallStates, Calls, Rows, Function, Version, Claim, DeployArgs, locals
<1>2. LocalInv'
  BY DEF IInv, TypeOK, LocalInv, Calls, locals
<1>3. FreshInv'
  BY DEF IInv, TypeOK, LocalInv, FreshInv, Claimed, BeforeCreate, Calls, Rows, locals
<1>4. RowsHoldNames'
  BY DEF IInv, TypeOK, LocalInv, RowsHoldNames, Rows, Function
<1>5. ClaimsLead'
  BY DEF IInv, TypeOK, LocalInv, ClaimsLead, TombstoneInv, Resolves, OwnVersion, Rows, Function, Version
<1>6. WriteBackInv' /\ TombstoneInv'
  BY DEF IInv, TypeOK, LocalInv, WriteBackInv, TombstoneInv, OwnVersion, Resolves, Calls, locals
<1>7. KeyInv'
  BY DEF IInv, TypeOK, LocalInv, KeyInv, Rows, Function, Version
<1>8. UnbornInv' /\ ScanInv'
  BY DEF IInv, TypeOK, Collection, UnbornInv, ScanInv, BeforeVersion, BeforeCreate, Calls, locals
<1>9. BundleInv'
  BY DEF IInv, TypeOK, BundleInv, BeforeVersion, BeforeCreate, Calls, locals
<1>10. DeleteLeavesNothing'
  BY DEF IInv, TypeOK, LocalInv, DeleteLeavesNothing, HasChildren, Rows, Version, Calls, locals
<1>11. QuotaRespected'
  BY NoInsertKeepsQuota DEF IInv
<1> QED BY <1>1, <1>2, <1>3, <1>4, <1>5, <1>6, <1>7, <1>8, <1>9, <1>10, <1>11 DEF IInv

\* The row goes when nothing refers to it and no name leads to it.
LEMMA DeleteRowKeeps == ASSUME IInv, NEW x \in Deletes, DeleteRow(x) PROVE IInv'
<1> USE NoneNotAnId, NoneNotARow, KindsAssumption DEF DeleteRow, Goto
<1>1. TypeOK'
  BY DEF IInv, TypeOK, LocalInv, CallStates, Calls, Rows, Function, Version, Claim, DeployArgs, locals
<1>2. LocalInv'
  BY DEF IInv, TypeOK, LocalInv, Calls, locals
<1>3. FreshInv'
  BY DEF IInv, TypeOK, LocalInv, FreshInv, Claimed, BeforeCreate, Calls, Rows, locals
<1>4. RowsHoldNames'
  BY DEF IInv, TypeOK, LocalInv, RowsHoldNames, Rows, Function
<1>5. ClaimsLead'
  BY DEF IInv, TypeOK, LocalInv, ClaimsLead, TombstoneInv, Resolves, OwnVersion, Rows, Function
<1>6. WriteBackInv' /\ TombstoneInv'
  BY DEF IInv, TypeOK, WriteBackInv, TombstoneInv, OwnVersion, Resolves, Calls, locals
<1>7. KeyInv'
  BY DEF IInv, TypeOK, LocalInv, KeyInv, HasChildren, Rows, Version
<1>8. UnbornInv' /\ ScanInv' /\ BundleInv'
  BY BlobsUntouched DEF IInv, TypeOK, BeforeVersion, BeforeCreate, Calls, locals
<1>9. DeleteLeavesNothing'
  BY DEF IInv, TypeOK, LocalInv, DeleteLeavesNothing, HasChildren, Rows, Version, Calls, locals
<1>10. QuotaRespected'
  BY NoInsertKeepsQuota DEF IInv, TypeOK, Rows, Function, LocalInv
<1> QED BY <1>1, <1>2, <1>3, <1>4, <1>5, <1>6, <1>7, <1>8, <1>9, <1>10 DEF IInv

\* An env row needs its function.
LEMMA SetEnvKeeps == ASSUME IInv, NEW e \in EnvEdits, SetEnv(e) PROVE IInv'
<1> USE NoneNotAnId, NoneNotARow, KindsAssumption DEF SetEnv, Goto
<1>1. TypeOK'
  BY DEF IInv, TypeOK, LocalInv, CallStates, Calls, Rows, Function, Version, Claim, DeployArgs, locals
<1>2. LocalInv'
  BY DEF IInv, TypeOK, LocalInv, Calls, locals
<1>3. FreshInv'
  BY DEF IInv, TypeOK, LocalInv, FreshInv, Claimed, BeforeCreate, Calls, Rows, locals
<1>4. RowsHoldNames'
  BY DEF IInv, TypeOK, LocalInv, RowsHoldNames, Rows, Function
<1>5. ClaimsLead'
  BY DEF IInv, TypeOK, LocalInv, ClaimsLead, OwnVersion, Rows, Function
<1>6. WriteBackInv' /\ TombstoneInv'
  BY DEF IInv, TypeOK, WriteBackInv, TombstoneInv, OwnVersion, Resolves, Calls, locals
<1>7. KeyInv'
  BY DEF IInv, TypeOK, LocalInv, KeyInv, Rows, Function, Version
<1>8. UnbornInv' /\ ScanInv' /\ BundleInv'
  BY BlobsUntouched DEF IInv, TypeOK, BeforeVersion, BeforeCreate, Calls, locals
<1>9. DeleteLeavesNothing'
  BY DEF IInv, TypeOK, LocalInv, DeleteLeavesNothing, HasChildren, Rows, Version, Calls, locals
<1>10. QuotaRespected'
  BY NoInsertKeepsQuota DEF IInv
<1> QED BY <1>1, <1>2, <1>3, <1>4, <1>5, <1>6, <1>7, <1>8, <1>9, <1>10 DEF IInv

\* Deleting rows that refer to a function breaks no key.
LEMMA DeleteEnvKeeps == ASSUME IInv, NEW e \in EnvEdits, DeleteEnv(e) PROVE IInv'
<1> USE NoneNotAnId, NoneNotARow, KindsAssumption DEF DeleteEnv, Goto
<1>1. TypeOK'
  BY DEF IInv, TypeOK, LocalInv, CallStates, Calls, Rows, Function, Version, Claim, DeployArgs, locals
<1>2. LocalInv'
  BY DEF IInv, TypeOK, LocalInv, Calls, locals
<1>3. FreshInv'
  BY DEF IInv, TypeOK, LocalInv, FreshInv, Claimed, BeforeCreate, Calls, Rows, locals
<1>4. RowsHoldNames'
  BY DEF IInv, TypeOK, LocalInv, RowsHoldNames, Rows, Function
<1>5. ClaimsLead'
  BY DEF IInv, TypeOK, LocalInv, ClaimsLead, OwnVersion, Rows, Function
<1>6. WriteBackInv' /\ TombstoneInv'
  BY DEF IInv, TypeOK, WriteBackInv, TombstoneInv, OwnVersion, Resolves, Calls, locals
<1>7. KeyInv'
  BY DEF IInv, TypeOK, LocalInv, KeyInv, Rows, Function, Version
<1>8. UnbornInv' /\ ScanInv' /\ BundleInv'
  BY BlobsUntouched DEF IInv, TypeOK, BeforeVersion, BeforeCreate, Calls, locals
<1>9. DeleteLeavesNothing'
  BY DEF IInv, TypeOK, LocalInv, DeleteLeavesNothing, HasChildren, Rows, Version, Calls, locals
<1>10. QuotaRespected'
  BY NoInsertKeepsQuota DEF IInv
<1> QED BY <1>1, <1>2, <1>3, <1>4, <1>5, <1>6, <1>7, <1>8, <1>9, <1>10 DEF IInv

\* An invocation reads the row of a function that was created.
LEMMA InvokeLookupKeeps == ASSUME IInv, NEW i \in Invokes, InvokeLookup(i) PROVE IInv'
<1> USE NoneNotAnId, NoneNotARow, KindsAssumption DEF InvokeLookup, tables, locals, ReadRow, Goto
<1>1. TypeOK'
  BY DEF IInv, TypeOK, CallStates, Calls, Rows, Function, Version, DeployArgs
<1>2. LocalInv'
  BY DEF IInv, TypeOK, LocalInv, DeployArgs, Calls, Rows
<1>3. FreshInv'
  BY DEF IInv, TypeOK, FreshInv, RowsHoldNames, Claimed, Rows, Function, BeforeCreate, Calls
<1>4. WriteBackInv' /\ TombstoneInv' /\ DeleteLeavesNothing'
  BY DEF IInv, TypeOK, WriteBackInv, TombstoneInv, DeleteLeavesNothing, OwnVersion, Resolves,
       HasChildren, Rows, Calls
<1>5. UnbornInv' /\ ScanInv' /\ BundleInv'
  BY BlobsUntouched DEF IInv, TypeOK, BeforeVersion, BeforeCreate, Calls
<1> QED BY <1>1, <1>2, <1>3, <1>4, <1>5, TablesUntouched DEF IInv

\* Reading a version changes nothing.
LEMMA InvokeLoadKeeps == ASSUME IInv, NEW i \in Invokes, InvokeLoad(i) PROVE IInv'
<1> USE NoneNotAnId, NoneNotARow, KindsAssumption DEF InvokeLoad, tables, locals, Goto
<1>1. TypeOK'
  BY DEF IInv, TypeOK, CallStates, Calls, Rows, Function, Version, DeployArgs
<1>2. LocalInv'
  BY DEF IInv, TypeOK, LocalInv, DeployArgs, Calls, Rows
<1>3. FreshInv'
  BY DEF IInv, TypeOK, FreshInv, Claimed, BeforeCreate, Calls
<1>4. WriteBackInv' /\ TombstoneInv' /\ DeleteLeavesNothing'
  BY DEF IInv, TypeOK, WriteBackInv, TombstoneInv, DeleteLeavesNothing, OwnVersion, Resolves,
       HasChildren, Rows, Calls
<1>5. UnbornInv' /\ ScanInv' /\ BundleInv'
  BY BlobsUntouched DEF IInv, TypeOK, BeforeVersion, BeforeCreate, Calls
<1> QED BY <1>1, <1>2, <1>3, <1>4, <1>5, TablesUntouched DEF IInv

\* Building a pool touches no row.
LEMMA InvokeHandlerKeeps == ASSUME IInv, NEW i \in Invokes, InvokeHandler(i) PROVE IInv'
<1> USE NoneNotAnId, NoneNotARow, KindsAssumption DEF InvokeHandler, tables, locals, Goto
<1>1. TypeOK'
  BY DEF IInv, TypeOK, CallStates, Calls, Rows, Function, Version, DeployArgs
<1>2. LocalInv'
  BY DEF IInv, TypeOK, LocalInv, DeployArgs, Calls, Rows
<1>3. FreshInv'
  BY DEF IInv, TypeOK, FreshInv, Claimed, BeforeCreate, Calls
<1>4. WriteBackInv' /\ TombstoneInv' /\ DeleteLeavesNothing'
  BY DEF IInv, TypeOK, WriteBackInv, TombstoneInv, DeleteLeavesNothing, OwnVersion, Resolves,
       HasChildren, Rows, Calls
<1>5. UnbornInv' /\ ScanInv' /\ BundleInv'
  BY BlobsUntouched DEF IInv, TypeOK, BeforeVersion, BeforeCreate, Calls
<1> QED BY <1>1, <1>2, <1>3, <1>4, <1>5, TablesUntouched DEF IInv

\* A log row needs its function.
LEMMA InvokeLogKeeps == ASSUME IInv, NEW i \in Invokes, InvokeLog(i) PROVE IInv'
<1> USE NoneNotAnId, NoneNotARow, KindsAssumption DEF InvokeLog, Goto
<1>1. TypeOK'
  BY DEF IInv, TypeOK, LocalInv, CallStates, Calls, Rows, Function, Version, Claim, DeployArgs, locals
<1>2. LocalInv'
  BY DEF IInv, TypeOK, LocalInv, Calls, locals
<1>3. FreshInv'
  BY DEF IInv, TypeOK, LocalInv, FreshInv, Claimed, BeforeCreate, Calls, Rows, locals
<1>4. RowsHoldNames'
  BY DEF IInv, TypeOK, LocalInv, RowsHoldNames, Rows, Function
<1>5. ClaimsLead'
  BY DEF IInv, TypeOK, LocalInv, ClaimsLead, OwnVersion, Rows, Function
<1>6. WriteBackInv' /\ TombstoneInv'
  BY DEF IInv, TypeOK, WriteBackInv, TombstoneInv, OwnVersion, Resolves, Calls, locals
<1>7. KeyInv'
  BY DEF IInv, TypeOK, LocalInv, KeyInv, Rows, Function, Version
<1>8. UnbornInv' /\ ScanInv' /\ BundleInv'
  BY BlobsUntouched DEF IInv, TypeOK, BeforeVersion, BeforeCreate, Calls, locals
<1>9. DeleteLeavesNothing'
  BY DEF IInv, TypeOK, LocalInv, DeleteLeavesNothing, HasChildren, Rows, Version, Calls, locals
<1>10. QuotaRespected'
  BY NoInsertKeepsQuota DEF IInv
<1> QED BY <1>1, <1>2, <1>3, <1>4, <1>5, <1>6, <1>7, <1>8, <1>9, <1>10 DEF IInv

\* What only speaks of the calls and the tables holds as long as both stay.
LEMMA CallsUntouched ==
    ASSUME IInv, UNCHANGED <<tables, pc, locals>>
    PROVE  LocalInv' /\ FreshInv' /\ WriteBackInv' /\ TombstoneInv' /\ DeleteLeavesNothing'
<1> USE DEF IInv, tables, locals
<1>1. LocalInv' /\ FreshInv'
  BY DEF LocalInv, FreshInv, Claimed
<1>2. WriteBackInv' /\ TombstoneInv' /\ DeleteLeavesNothing'
  BY DEF WriteBackInv, TombstoneInv, DeleteLeavesNothing, OwnVersion, Resolves, HasChildren, Rows
<1> QED BY <1>1, <1>2

\* Dropping a pool touches no row.
LEMMA EvictKeeps == ASSUME IInv, NEW v \in Deploys, Evict(v) PROVE IInv'
<1>1. TypeOK'
  BY DEF Evict, Invalidated, IInv, TypeOK, tables, locals
<1>2. UnbornInv' /\ ScanInv' /\ BundleInv'
  BY BlobsUntouched DEF Evict, tables, locals
<1>3. UNCHANGED <<tables, pc, locals>>
  BY DEF Evict
<1> QED BY <1>1, <1>2, <1>3, TablesUntouched, CallsUntouched DEF IInv

\* Every version a scan starts from belongs to a function it will list.
LEMMA GcListAllKeeps == ASSUME IInv, NEW g \in Collectors, GcListAll(g) PROVE IInv'
<1> USE DEF GcListAll
<1>1. UNCHANGED <<tables, pc, locals>>
  OBVIOUS
<1>2. TypeOK'
  <2>1. [gc[g] EXCEPT !.at = "scan", !.todo = Rows, !.seen = {v \in Deploys : versions[v] # None}]
          \in Collection
    BY DEF IInv, TypeOK, Collection, Rows
  <2> QED BY <2>1 DEF IInv, TypeOK, tables, locals
<1>3. UnbornInv'
  BY DEF IInv, TypeOK, Collection, UnbornInv, tables
<1>4. ScanInv'
  BY DEF IInv, TypeOK, Collection, ScanInv, KeyInv, tables
<1>5. BundleInv'
  BY DEF IInv, TypeOK, Collection, BundleInv, tables, locals
<1> QED BY <1>1, <1>2, <1>3, <1>4, <1>5, TablesUntouched, CallsUntouched DEF IInv

\* Listing a function's versions references their bundles.
LEMMA GcListVersionsKeeps ==
    ASSUME IInv, NEW g \in Collectors, NEW f \in Deploys, GcListVersions(g, f)
    PROVE  IInv'
<1> USE DEF GcListVersions
<1>1. UNCHANGED <<tables, pc, locals>>
  OBVIOUS
<1>2. Referenced(f) \subseteq Hashes
  BY RowTypes DEF IInv, Referenced, Version
<1>3. TypeOK'
  <2>1. [gc[g] EXCEPT !.todo = gc[g].todo \ {f}, !.ref = gc[g].ref \cup Referenced(f)] \in Collection
    BY <1>2 DEF IInv, TypeOK, Collection
  <2> QED BY <2>1 DEF IInv, TypeOK, tables, locals
<1>4. UnbornInv'
  BY DEF IInv, TypeOK, Collection, UnbornInv, tables
<1>5. ScanInv'
  <2>1. /\ \A k \in Collectors \ {g} : gc'[k] = gc[k]
        /\ gc'[g] = [gc[g] EXCEPT !.todo = gc[g].todo \ {f}, !.ref = gc[g].ref \cup Referenced(f)]
        /\ versions' = versions
    BY DEF IInv, TypeOK, tables
  <2>2. /\ gc'[g].at = "scan" /\ gc'[g].dead = gc[g].dead /\ gc'[g].seen = gc[g].seen
        /\ gc'[g].todo = gc[g].todo \ {f} /\ gc'[g].ref = gc[g].ref \cup Referenced(f)
        /\ gc[g].seen \subseteq Deploys
    BY <2>1 DEF IInv, TypeOK, Collection
  <2>3. \A v \in Deploys : versions[v] # None /\ versions[v].fn = f => versions[v].hash \in Referenced(f)
    BY DEF Referenced
  <2>4. ASSUME NEW v \in gc[g].seen, versions[v] # None
        PROVE  /\ versions[v].fn \in gc'[g].todo \/ versions[v].hash \in gc'[g].ref
               /\ versions[v].hash \notin gc'[g].dead
    BY <2>2, <2>3, <2>4 DEF IInv, ScanInv
  <2> QED BY <2>1, <2>2, <2>4 DEF IInv, ScanInv
<1>6. BundleInv'
  BY DEF IInv, TypeOK, Collection, BundleInv, tables, locals
<1> QED BY <1>1, <1>3, <1>4, <1>5, <1>6, TablesUntouched, CallsUntouched DEF IInv

\* Once every function is listed, what was scanned is referenced, and so is
\* not condemned.
LEMMA GcListBlobsKeeps == ASSUME IInv, NEW g \in Collectors, GcListBlobs(g) PROVE IInv'
<1> USE DEF GcListBlobs
<1>1. UNCHANGED <<tables, pc, locals>>
  OBVIOUS
<1>2. TypeOK'
  <2>1. [gc[g] EXCEPT !.at = "sweep", !.dead = blobs \ gc[g].ref] \in Collection
    BY DEF IInv, TypeOK, Collection
  <2> QED BY <2>1 DEF IInv, TypeOK, tables, locals
<1>3. UnbornInv'
  BY DEF IInv, TypeOK, Collection, UnbornInv, tables
<1>4. ScanInv'
  BY DEF IInv, TypeOK, Collection, ScanInv, tables
<1>5. BundleInv'
  BY DEF IInv, TypeOK, Collection, BundleInv, tables, locals
<1> QED BY <1>1, <1>2, <1>3, <1>4, <1>5, TablesUntouched, CallsUntouched DEF IInv

\* Only what was condemned is deleted, in a sweep.
LEMMA GcDeleteKeeps ==
    ASSUME IInv, NEW g \in Collectors, NEW h \in Hashes, GcDelete(g, h)
    PROVE  IInv'
<1> USE DEF GcDelete
<1>1. UNCHANGED <<tables, pc, locals>>
  OBVIOUS
<1>2. TypeOK'
  <2>1. [gc[g] EXCEPT !.dead = gc[g].dead \ {h}] \in Collection
    BY DEF IInv, TypeOK, Collection
  <2>2. gc' = [gc EXCEPT ![g] = [gc[g] EXCEPT !.dead = gc[g].dead \ {h}]]
    BY DEF IInv, TypeOK
  <2>3. gc' \in [Collectors -> Collection] /\ blobs' \subseteq blobs
    BY <2>1, <2>2 DEF IInv, TypeOK
  <2> QED BY <2>3 DEF IInv, TypeOK, tables, locals
<1>3. UnbornInv'
  BY DEF IInv, TypeOK, Collection, UnbornInv, tables
<1>4. ScanInv'
  BY DEF IInv, TypeOK, Collection, ScanInv, tables
<1>5. BundleInv'
  BY DEF IInv, TypeOK, Collection, BundleInv, tables, locals
<1> QED BY <1>1, <1>2, <1>3, <1>4, <1>5, TablesUntouched, CallsUntouched DEF IInv

\* A step that changes nothing.
LEMMA StutterKeeps == ASSUME IInv, UNCHANGED vars PROVE IInv'
<1> USE DEF vars
<1>1. TypeOK'
  BY DEF IInv, TypeOK
<1>2. UnbornInv' /\ ScanInv' /\ BundleInv'
  BY BlobsUntouched
<1>3. UNCHANGED <<tables, pc, locals>>
  BY DEF tables, locals
<1> QED BY <1>1, <1>2, <1>3, TablesUntouched, CallsUntouched DEF IInv

\* The invariant is inductive.
LEMMA NextInvariant == IInv /\ [Next]_vars => IInv'
<1> SUFFICES ASSUME IInv, [Next]_vars PROVE IInv'
  OBVIOUS
<1>1. ASSUME NEW d \in Deploys, DeployStep(d) PROVE IInv'
  BY <1>1, DeployPutKeeps, DeployLookupKeeps, DeployPrecheckKeeps, DeployCreateKeeps, DeployUpdateKeeps,
     DeployVersionKeeps, DeployActivateKeeps, DeployInvalidateKeeps DEF DeployStep
<1>2. ASSUME NEW b \in Rollbacks, RollbackStep(b) PROVE IInv'
  BY <1>2, RollbackResolveKeeps, RollbackActivateKeeps, RollbackInvalidateKeeps DEF RollbackStep
<1>3. ASSUME NEW x \in Deletes, DeleteStep(x) PROVE IInv'
  BY <1>3, DeleteResolveKeeps, DeleteInvalidateKeeps, DeleteTombstoneKeeps, DeleteEnvsKeeps,
     DeleteLogsKeeps, DeleteVersionsKeeps, DeleteRowKeeps DEF DeleteStep
<1>4. ASSUME NEW i \in Invokes, InvokeStep(i) PROVE IInv'
  BY <1>4, InvokeLookupKeeps, InvokeLoadKeeps, InvokeHandlerKeeps, InvokeLogKeeps DEF InvokeStep
<1>5. ASSUME NEW c \in Calls, Refuse(c) \/ Fail(c) PROVE IInv'
  BY <1>5, RefuseKeeps, FailKeeps
<1>6. ASSUME NEW e \in EnvEdits, SetEnv(e) \/ DeleteEnv(e) PROVE IInv'
  BY <1>6, SetEnvKeeps, DeleteEnvKeeps
<1>7. ASSUME NEW g \in Collectors, GcStep(g) PROVE IInv'
  BY <1>7, GcListAllKeeps, GcListVersionsKeeps, GcListBlobsKeeps, GcDeleteKeeps DEF GcStep
<1>8. CASE Quiescent \/ UNCHANGED vars
  BY <1>8, StutterKeeps DEF Quiescent
<1> QED BY <1>1, <1>2, <1>3, <1>4, <1>5, <1>6, <1>7, <1>8, EvictKeeps DEF Next

LEMMA Invariance == Spec => []IInv
BY InitInvariant, NextInvariant, PTL DEF Spec

-----------------------------------------------------------------------------
(***************************************************************************)
(* Theorems.                                                               *)
(***************************************************************************)

\* The tables, the pools and the copies calls keep always have their types.
THEOREM TypeCorrect == Spec => []TypeOK
<1>1. IInv => TypeOK
  BY DEF IInv
<1> QED BY <1>1, Invariance, PTL

\* No owner, and in a workspace no creator, ever has more functions than the
\* limit, however many deploys race past the pre-check: CreateWithinLimit
\* counts again in its transaction.
THEOREM QuotaHolds == Spec => []QuotaRespected
<1>1. IInv => QuotaRespected
  BY DEF IInv
<1> QED BY <1>1, Invariance, PTL

\* Whatever deploys, rollbacks and deletes race, a row holds the claim on its
\* name, and a name that resolves leads to a row whose active version is one of
\* its own: a deploy that writes an old row back, and a delete that stops half-way,
\* included.
THEOREM NamesServe == Spec => []LiveNamesServe
<1>1. IInv => LiveNamesServe
  BY DEF IInv, LiveNamesServe, RowsHoldNames, ClaimsLead, OwnVersion
<1> QED BY <1>1, Invariance, PTL

\* Once Delete has returned without an error nothing of the function is left,
\* and no late deploy, env change or log brings a row of it back.
THEOREM DeleteIsComplete == Spec => []DeleteLeavesNothing
<1>1. IInv => DeleteLeavesNothing
  BY DEF IInv
<1> QED BY <1>1, Invariance, PTL

\* No statement of Deploy, Delete, SetEnv or the invocation log ever leaves a
\* row that refers to a function that is gone.
THEOREM NoDanglingRows == Spec => []KeyInv
<1>1. IInv => KeyInv
  BY DEF IInv
<1> QED BY <1>1, Invariance, PTL

\* A name belongs to the first function that claimed it for ever, and a
\* tombstone is never lifted.
THEOREM NamesAreForever == Spec => NamesNeverReused
<1> DEFINE Kept == \A n \in Names : names[n] # None =>
                      /\ names'[n] # None
                      /\ names'[n].fn = names[n].fn
                      /\ names'[n].live => names[n].live
<1>1. ASSUME IInv, [Next]_vars PROVE [Kept]_vars
  <2>1. ASSUME NEW d \in Deploys, DeployCreate(d) PROVE Kept
    <3>1. CASE names' = names
      BY <3>1
    <3>2. CASE names[arg[d].name] = None /\ names' = [names EXCEPT ![arg[d].name] = [fn |-> d, live |-> TRUE]]
      BY <1>1, <3>2 DEF IInv, TypeOK
    <3> QED BY <2>1, <3>1, <3>2 DEF DeployCreate
  <2>2. ASSUME NEW x \in Deletes, DeleteTombstone(x) PROVE Kept
    <3>1. ASSUME NEW n \in Names, names[n] # None
          PROVE  names'[n] \in Claim /\ names'[n].fn = names[n].fn /\ (names'[n].live => names[n].live)
      BY <1>1, <2>2, <3>1, RowTypes DEF IInv, DeleteTombstone, Claim
    <3> QED BY <3>1, NoneNotARow
  <2>3. CASE names' = names
    BY <2>3
  <2>4. ASSUME NEW d \in Deploys, DeployStep(d), ~DeployCreate(d) PROVE names' = names
    BY <2>4 DEF DeployStep, DeployPut, DeployLookup, DeployPrecheck, DeployUpdate, DeployVersion,
                DeployActivate, ActivateVersion, DeployInvalidate, tables
  <2>5. ASSUME NEW x \in Deletes, DeleteStep(x), ~DeleteTombstone(x) PROVE names' = names
    BY <2>5 DEF DeleteStep, DeleteResolve, DeleteInvalidate, DeleteEnvs, DeleteLogs, DeleteVersions,
                DeleteRow, tables
  <2>6. ASSUME NEW b \in Rollbacks, RollbackStep(b) PROVE names' = names
    BY <2>6 DEF RollbackStep, RollbackResolve, RollbackActivate, ActivateVersion, RollbackInvalidate,
         tables
  <2>7. ASSUME NEW i \in Invokes, InvokeStep(i) PROVE names' = names
    BY <2>7 DEF InvokeStep, InvokeLookup, InvokeLoad, InvokeHandler, InvokeLog, tables
  <2>8. ASSUME NEW c \in Calls, Refuse(c) \/ Fail(c) PROVE names' = names
    BY <2>8 DEF Refuse, Fail, tables
  <2>9. ASSUME NEW e \in EnvEdits, SetEnv(e) \/ DeleteEnv(e) PROVE names' = names
    BY <2>9 DEF SetEnv, DeleteEnv
  <2>10. ASSUME NEW g \in Collectors, GcStep(g) PROVE names' = names
    BY <2>10 DEF GcStep, GcListAll, GcListVersions, GcListBlobs, GcDelete, tables
  <2>11. ASSUME NEW v \in Deploys, Evict(v) PROVE names' = names
    BY <2>11 DEF Evict, tables
  <2>12. CASE Quiescent \/ UNCHANGED vars
    BY <2>12 DEF Quiescent, vars
  <2> QED BY <1>1, <2>1, <2>2, <2>3, <2>4, <2>5, <2>6, <2>7, <2>8, <2>9, <2>10, <2>11, <2>12 DEF Next
<1>2. IInv /\ [Next]_vars => [Kept]_vars
  BY <1>1
<1> QED BY <1>2, Invariance, PTL DEF Spec, NamesNeverReused

\* However many collectors run, none condemns the bundle of a version that
\* existed when its own scan began and still does.
THEOREM CollectorsSpareScanned ==
    Spec => [](\A g \in Collectors : \A v \in gc[g].seen :
                  versions[v] # None => versions[v].hash \notin gc[g].dead)
<1>1. IInv => \A g \in Collectors : \A v \in gc[g].seen :
                  versions[v] # None => versions[v].hash \notin gc[g].dead
  BY DEF IInv, ScanInv
<1> QED BY <1>1, Invariance, PTL

\* When a collector runs alone, the bundles it found referenced stay in the
\* store: whatever it deletes, and whatever deploys and deletes go on.
THEOREM LoneCollectorKeepsScanned ==
    ASSUME \A g, h \in Collectors : g = h
    PROVE  Spec => []GcKeepsScanned
<1>1. Init => GcKeepsScanned
  BY DEF Init, GcKeepsScanned, GcIdle
<1>2. ASSUME IInv, GcKeepsScanned, [Next]_vars PROVE GcKeepsScanned'
  <2> SUFFICES ASSUME NEW g \in Collectors, NEW v \in gc'[g].seen, versions'[v] # None
               PROVE  versions'[v].hash \in blobs'
    BY DEF GcKeepsScanned
  <2>1. CASE versions' = versions /\ gc' = gc /\ blobs \subseteq blobs'
    BY <1>2, <2>1 DEF GcKeepsScanned
  <2>2. ASSUME NEW d \in Deploys, DeployStep(d) PROVE versions'[v].hash \in blobs'
    <3>1. CASE DeployVersion(d)
      <4>1. d \notin gc[g].seen /\ v \in Deploys \ {d} /\ v \in gc[g].seen
        BY <1>2, <3>1 DEF DeployVersion, IInv, UnbornInv, BeforeVersion, TypeOK, Collection
      <4>2. versions'[v] = versions[v] /\ blobs' = blobs
        BY <1>2, <3>1, <4>1 DEF DeployVersion, IInv, TypeOK
      <4> QED BY <1>2, <4>1, <4>2 DEF GcKeepsScanned
    <3>2. CASE ~DeployVersion(d)
      BY <2>1, <2>2, <3>2 DEF DeployStep, DeployPut, DeployLookup, DeployPrecheck, DeployCreate,
           DeployUpdate, DeployActivate, ActivateVersion, DeployInvalidate, tables
    <3> QED BY <3>1, <3>2
  <2>3. ASSUME NEW x \in Deletes, DeleteStep(x) PROVE versions'[v].hash \in blobs'
    <3>1. CASE DeleteVersions(x)
      <4>1. v \in Deploys /\ v \in gc[g].seen
        BY <1>2, <3>1 DEF DeleteVersions, IInv, TypeOK, Collection
      <4>2. versions'[v] = versions[v] /\ blobs' = blobs
        BY <1>2, <3>1, <4>1 DEF DeleteVersions
      <4> QED BY <1>2, <4>1, <4>2 DEF GcKeepsScanned
    <3>2. CASE ~DeleteVersions(x)
      BY <2>1, <2>3, <3>2 DEF DeleteStep, DeleteResolve, DeleteInvalidate, DeleteTombstone, DeleteEnvs,
           DeleteLogs, DeleteRow, tables
    <3> QED BY <3>1, <3>2
  <2>4. ASSUME NEW h \in Collectors, GcStep(h) PROVE versions'[v].hash \in blobs'
    <3>1. h = g
      OBVIOUS
    <3>2. CASE GcListAll(g)
      <4>1. \A k \in Collectors : gc[k].at # "sweep"
        BY <3>2 DEF GcListAll
      <4>2. v \in Deploys /\ versions' = versions /\ blobs' = blobs
        BY <1>2, <3>2 DEF GcListAll, IInv, TypeOK, Collection, tables
      <4> QED BY <1>2, <4>1, <4>2 DEF IInv, BundleInv
    <3>3. CASE \E f \in Deploys : GcListVersions(g, f)
      BY <1>2, <3>3 DEF GcListVersions, IInv, TypeOK, Collection, GcKeepsScanned, tables
    <3>4. CASE GcListBlobs(g)
      BY <1>2, <3>4 DEF GcListBlobs, IInv, TypeOK, Collection, GcKeepsScanned, tables
    <3>5. ASSUME NEW k \in Hashes, GcDelete(g, k) PROVE versions'[v].hash \in blobs'
      <4>1. v \in gc[g].seen /\ versions' = versions
        BY <1>2, <3>5 DEF GcDelete, IInv, TypeOK, Collection, tables
      <4>2. versions[v].hash \in blobs /\ versions[v].hash # k
        BY <1>2, <3>5, <4>1 DEF GcDelete, IInv, ScanInv, GcKeepsScanned
      <4> QED BY <3>5, <4>1, <4>2 DEF GcDelete
    <3> QED BY <2>4, <3>1, <3>2, <3>3, <3>4, <3>5 DEF GcStep
  <2>5. ASSUME NEW b \in Rollbacks, RollbackStep(b) PROVE versions'[v].hash \in blobs'
    BY <2>1, <2>5 DEF RollbackStep, RollbackResolve, RollbackActivate, ActivateVersion,
         RollbackInvalidate, tables
  <2>6. ASSUME NEW i \in Invokes, InvokeStep(i) PROVE versions'[v].hash \in blobs'
    BY <2>1, <2>6 DEF InvokeStep, InvokeLookup, InvokeLoad, InvokeHandler, InvokeLog, tables
  <2>7. ASSUME NEW c \in Calls, Refuse(c) \/ Fail(c) PROVE versions'[v].hash \in blobs'
    BY <2>1, <2>7 DEF Refuse, Fail, tables
  <2>8. ASSUME NEW e \in EnvEdits, SetEnv(e) \/ DeleteEnv(e) PROVE versions'[v].hash \in blobs'
    BY <2>1, <2>8 DEF SetEnv, DeleteEnv
  <2>9. ASSUME NEW w \in Deploys, Evict(w) PROVE versions'[v].hash \in blobs'
    BY <2>1, <2>9 DEF Evict, tables
  <2>10. CASE Quiescent \/ UNCHANGED vars
    BY <2>1, <2>10 DEF Quiescent, vars
  <2> QED BY <1>2, <2>2, <2>3, <2>4, <2>5, <2>6, <2>7, <2>8, <2>9, <2>10 DEF Next
<1> QED BY <1>1, <1>2, Invariance, PTL DEF Spec
=============================================================================
