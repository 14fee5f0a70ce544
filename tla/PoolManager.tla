----------------------------- MODULE PoolManager -----------------------------
(***************************************************************************)
(* runtime.Manager (src/runtime/manager.go) and the enginepool.Pool values *)
(* it owns (src/runtime/enginepool/pool.go): a mutex-guarded map from a    *)
(* function-version key to a warmed, fixed-size pool of engine instances,  *)
(* with an LRU cap, shared first builds, and graceful background closing.  *)
(*                                                                         *)
(* A request is one HandlerFor call followed by one ServeHTTP call, as     *)
(* Invoker.serveFunction makes them, under one deadline-bound context.  A  *)
(* request creates at most one managedPool, so the managedPool ("entry")   *)
(* is named by the request whose cache miss created it.                    *)
(***************************************************************************)
EXTENDS Naturals, Sequences

CONSTANTS
    Keys,      \* function-version ids (VersionSpec.Key)
    Reqs,      \* requests; also the names of the managedPool entries
    Workers,   \* the instances of one pool (enginepool.Config.Size of them)
    MaxPools,  \* WithMaxPools: the LRU cap, 0 for unlimited
    None       \* the nil pointer

ASSUME MaxPoolsAssumption == MaxPools \in Nat
ASSUME WorkersAssumption == Workers # {}
ASSUME NoneAssumption == None \notin Keys \cup Reqs \cup Workers

VARIABLES
    pools,    \* Manager.pools: key -> tracked entry, or None
    lru,      \* Manager.lru: tracked entries, most recently used first
    key,      \* the VersionSpec.Key a request asked for (= managedPool.key)
    build,    \* entry -> "none", "building", then "ok" or "err" (ready closed)
    idle,     \* entry -> the instances in its Pool.workers channel
    closed,   \* entry -> the instances already shut down by Pool.Close
    closer,   \* entry -> who is going to close it, and whether it is done
    pc,       \* request -> where it is
    ent,      \* request -> the managedPool HandlerFor found or created
    wk,       \* request -> the instance it has checked out
    expired,  \* request -> its context is done (deadline or client gone)
    mgr       \* "open", then "closing" and "closed" by Manager.Close

vars == <<pools, lru, key, build, idle, closed, closer, pc, ent, wk, expired, mgr>>
cacheVars == <<pools, lru, closer, mgr>>
instVars  == <<idle, closed, wk>>

InFlight == {"build", "wait", "handler", "serving"}
Final    == {"failed", "unavailable", "done"}

\* The entries some key maps to.
Tracked == {pools[k] : k \in Keys} \ {None}

\* The requests that hold an instance of entry e.
Busy(e) == {wk[r] : r \in {q \in Reqs : pc[q] = "serving" /\ ent[q] = e}}

Init ==
    /\ pools   = [k \in Keys |-> None]
    /\ lru     = <<>>
    /\ key     = [r \in Reqs |-> None]
    /\ build   = [r \in Reqs |-> "none"]
    /\ idle    = [r \in Reqs |-> {}]
    /\ closed  = [r \in Reqs |-> {}]
    /\ closer  = [r \in Reqs |-> "none"]
    /\ pc      = [r \in Reqs |-> "start"]
    /\ ent     = [r \in Reqs |-> None]
    /\ wk      = [r \in Reqs |-> None]
    /\ expired = [r \in Reqs |-> FALSE]
    /\ mgr     = "open"

(***************************************************************************)
(* container/list operations on the recency list.                          *)
(***************************************************************************)

\* The entries on a list, and that none is on it twice.
Elems(s) == {s[i] : i \in 1..Len(s)}
Distinct(s) == \A i, j \in 1..Len(s) : s[i] = s[j] => i = j

\* list.Remove: s without the entry e, the order of the others kept.
ListRemove(s, e) ==
    IF \A i \in 1..Len(s) : s[i] # e
    THEN s
    ELSE LET i == CHOOSE i \in 1..Len(s) : s[i] = e
         IN  [j \in 1..(Len(s) - 1) |-> s[IF j < i THEN j ELSE j + 1]]

\* touchLocked: e becomes the most recently used entry; no list is kept when
\* the cap is disabled.
TouchLocked(s, e) ==
    IF MaxPools = 0 THEN s ELSE <<e>> \o ListRemove(s, e)

\* evictIfOverCapLocked's test, on the list as the insertion left it.
OverCap(s) == MaxPools # 0 /\ Len(s) > MaxPools

\* The entry evictIfOverCapLocked removes: the back of the list.
Victim(s) == s[Len(s)]

(***************************************************************************)
(* HandlerFor.                                                             *)
(***************************************************************************)

\* The locked section when the key is tracked: touch it and wait for its build.
HandlerForHit(r, k) ==
    /\ pc[r] = "start"
    /\ pools[k] # None
    /\ key' = [key EXCEPT ![r] = k]
    /\ ent' = [ent EXCEPT ![r] = pools[k]]
    /\ lru' = TouchLocked(lru, pools[k])
    /\ pc' = [pc EXCEPT ![r] = "wait"]
    /\ UNCHANGED <<pools, build, idle, closed, closer, wk, expired, mgr>>

\* The locked section when it is not: insert a new entry, evict the least
\* recently used one if that exceeds the cap (its close runs in the
\* background, evictAsync), then go on to Build outside the lock.
HandlerForMiss(r, k) ==
    LET touched  == TouchLocked(lru, r)
        inserted == [pools EXCEPT ![k] = r]
    IN
    /\ pc[r] = "start"
    /\ pools[k] = None
    /\ key' = [key EXCEPT ![r] = k]
    /\ ent' = [ent EXCEPT ![r] = r]
    /\ build' = [build EXCEPT ![r] = "building"]
    /\ pc' = [pc EXCEPT ![r] = "build"]
    /\ IF OverCap(touched)
       THEN /\ lru' = SubSeq(touched, 1, Len(touched) - 1)
            /\ pools' = [inserted EXCEPT ![key'[Victim(touched)]] = None]
            /\ closer' = [closer EXCEPT ![Victim(touched)] = "evict"]
       ELSE /\ lru' = touched
            /\ pools' = inserted
            /\ UNCHANGED closer
    /\ UNCHANGED <<idle, closed, wk, expired, mgr>>

\* spec.Build returns a warmed pool: NewPool put every instance in the channel.
BuildOk(r) ==
    /\ pc[r] = "build"
    /\ build' = [build EXCEPT ![r] = "ok"]
    /\ idle' = [idle EXCEPT ![r] = Workers]
    /\ pc' = [pc EXCEPT ![r] = "wait"]
    /\ UNCHANGED <<cacheVars, key, closed, ent, wk, expired>>

\* spec.Build fails (bundle, environment or a warming instance): the entry
\* keeps the error.  NewPool closed whatever it had created.
BuildErr(r) ==
    /\ pc[r] = "build"
    /\ build' = [build EXCEPT ![r] = "err"]
    /\ pc' = [pc EXCEPT ![r] = "wait"]
    /\ UNCHANGED <<cacheVars, instVars, key, ent, expired>>

\* The select of HandlerFor takes <-mp.ready and there is a pool.
WaitReady(r) ==
    /\ pc[r] = "wait"
    /\ build[ent[r]] = "ok"
    /\ pc' = [pc EXCEPT ![r] = "handler"]
    /\ UNCHANGED <<cacheVars, instVars, key, build, ent, expired>>

\* The request is answered: it drops its references, and the deferred cancel
\* of serveFunction ends its context.
Answer(r, outcome) ==
    /\ pc' = [pc EXCEPT ![r] = outcome]
    /\ ent' = [ent EXCEPT ![r] = None]
    /\ expired' = [expired EXCEPT ![r] = TRUE]

\* The select of HandlerFor takes <-mp.ready and the entry holds an error.
WaitErr(r) ==
    /\ pc[r] = "wait"
    /\ build[ent[r]] = "err"
    /\ Answer(r, "failed")
    /\ UNCHANGED <<cacheVars, instVars, key, build>>

\* The select of HandlerFor takes <-ctx.Done(), which it may even if the
\* build is ready too.
WaitCtxDone(r) ==
    /\ pc[r] = "wait"
    /\ expired[r]
    /\ Answer(r, "failed")
    /\ UNCHANGED <<cacheVars, instVars, key, build>>

(***************************************************************************)
(* Pool.ServeHTTP.                                                         *)
(***************************************************************************)

\* Mutant: the instance is read from the channel without being taken out.
CheckoutShared(r) ==
    /\ pc[r] = "handler"
    /\ \E w \in idle[ent[r]] : wk' = [wk EXCEPT ![r] = w]
    /\ pc' = [pc EXCEPT ![r] = "serving"]
    /\ UNCHANGED <<cacheVars, key, build, idle, closed, ent, expired>>

\* The request receives an instance from the channel.
Checkout(r) ==
    /\ pc[r] = "handler"
    /\ \E w \in idle[ent[r]] :
          /\ idle' = [idle EXCEPT ![ent[r]] = @ \ {w}]
          /\ wk' = [wk EXCEPT ![r] = w]
    /\ pc' = [pc EXCEPT ![r] = "serving"]
    /\ UNCHANGED <<cacheVars, key, build, closed, ent, expired>>

\* Mutant: waits again instead of answering 503.
CheckoutCtxDoneRetries(r) ==
    /\ pc[r] = "handler"
    /\ expired[r]
    /\ pc' = [pc EXCEPT ![r] = "wait"]
    /\ UNCHANGED <<cacheVars, instVars, key, build, ent, expired>>

\* The context is done first: 503 "no worker available".
CheckoutCtxDone(r) ==
    /\ pc[r] = "handler"
    /\ expired[r]
    /\ Answer(r, "unavailable")
    /\ UNCHANGED <<cacheVars, instVars, key, build>>

\* worker.serve returns or panics; the deferred send gives the instance back.
\* Nothing makes it return: EngineWorker says where serve may stay for ever.
Finish(r) ==
    /\ pc[r] = "serving"
    /\ idle' = [idle EXCEPT ![ent[r]] = @ \cup {wk[r]}]
    /\ wk' = [wk EXCEPT ![r] = None]
    /\ Answer(r, "done")
    /\ UNCHANGED <<cacheVars, key, build, closed>>

\* The invocation's context ends: its deadline fires or its client goes away.
Expire(r) ==
    /\ pc[r] \in InFlight
    /\ ~expired[r]
    /\ expired' = [expired EXCEPT ![r] = TRUE]
    /\ UNCHANGED <<cacheVars, instVars, key, build, pc, ent>>

(***************************************************************************)
(* Closing.                                                                *)
(***************************************************************************)

\* Mutant: the entry stays in the map while its close runs.
InvalidateKeepsEntry(k) ==
    /\ pools[k] # None
    /\ lru' = ListRemove(lru, pools[k])
    /\ closer' = [closer EXCEPT ![pools[k]] = "invalidate"]
    /\ UNCHANGED <<instVars, pools, key, build, pc, ent, expired, mgr>>

\* Manager.Invalidate of a tracked key (an untracked one is a no-op).
Invalidate(k) ==
    /\ pools[k] # None
    /\ pools' = [pools EXCEPT ![k] = None]
    /\ lru' = ListRemove(lru, pools[k])
    /\ closer' = [closer EXCEPT ![pools[k]] = "invalidate"]
    /\ UNCHANGED <<instVars, key, build, pc, ent, expired, mgr>>

\* Manager.Close takes the whole map; it then closes those entries one by one.
ManagerClose ==
    /\ mgr = "open"
    /\ mgr' = "closing"
    /\ pools' = [k \in Keys |-> None]
    /\ lru' = <<>>
    /\ closer' = [e \in Reqs |-> IF e \in Tracked THEN "queued" ELSE closer[e]]
    /\ UNCHANGED <<instVars, key, build, pc, ent, expired>>

\* The loop of Manager.Close reaches the next entry of the map it took.
ManagerCloseNext(e) ==
    /\ closer[e] = "queued"
    /\ \A f \in Reqs : closer[f] # "shutdown"
    /\ closer' = [closer EXCEPT ![e] = "shutdown"]
    /\ UNCHANGED <<instVars, pools, lru, key, build, pc, ent, expired, mgr>>

\* The loop of Manager.Close is over.
ManagerCloseReturn ==
    /\ mgr = "closing"
    /\ \A e \in Reqs : closer[e] \notin {"queued", "shutdown"}
    /\ mgr' = "closed"
    /\ UNCHANGED <<instVars, pools, lru, closer, key, build, pc, ent, expired>>

\* Mutant: Pool.Close sends each instance back, as ServeHTTP does.
ClosePoolWorkerReturns(e) ==
    /\ closer[e] \in {"evict", "invalidate", "shutdown"}
    /\ build[e] = "ok"
    /\ idle[e] # {}
    /\ UNCHANGED vars

\* One round of Pool.Close: take an instance from the channel and close it.
ClosePoolWorker(e) ==
    /\ closer[e] \in {"evict", "invalidate", "shutdown"}
    /\ build[e] = "ok"
    /\ \E w \in idle[e] :
          /\ idle' = [idle EXCEPT ![e] = @ \ {w}]
          /\ closed' = [closed EXCEPT ![e] = @ \cup {w}]
    /\ UNCHANGED <<cacheVars, key, build, pc, ent, wk, expired>>

\* Pool.Close has taken p.size instances, or there was no pool to close
\* (a failed build); an eviction's goroutine then calls onEvict.
CloserDone(e) ==
    /\ closer[e] \in {"evict", "invalidate", "shutdown"}
    /\ \/ build[e] = "err"
       \/ build[e] = "ok" /\ closed[e] = Workers
    /\ closer' = [closer EXCEPT ![e] = "done"]
    /\ UNCHANGED <<instVars, pools, lru, key, build, pc, ent, expired, mgr>>

\* Nothing is left to do: every request was answered, every closer is done.
Quiescent ==
    /\ \A r \in Reqs : pc[r] \in Final /\ closer[r] \in {"none", "done"}
    /\ UNCHANGED vars

-----------------------------------------------------------------------------

RequestStep(r) ==
    \/ \E k \in Keys : HandlerForHit(r, k) \/ HandlerForMiss(r, k)
    \/ BuildOk(r) \/ BuildErr(r)
    \/ WaitReady(r) \/ WaitErr(r) \/ WaitCtxDone(r)
    \/ Checkout(r) \/ CheckoutCtxDone(r)
    \/ Finish(r) \/ Expire(r)

CloserStep(e) == ManagerCloseNext(e) \/ ClosePoolWorker(e) \/ CloserDone(e)

Next ==
    \/ \E r \in Reqs : RequestStep(r)
    \/ \E k \in Keys : Invalidate(k)
    \/ ManagerClose \/ ManagerCloseReturn
    \/ \E e \in Reqs : CloserStep(e)
    \/ Quiescent

(***************************************************************************)
(* Fairness.  Goroutines that can run do run, and the deadline every       *)
(* invocation carries fires.  Nothing is assumed of a build, which runs    *)
(* the module's top-level code under no deadline (worker.go:128), nor of   *)
(* worker.serve, which ignores the deadline while it reads the body,       *)
(* writes to the client or calls a method of the guest's Response.         *)
(***************************************************************************)
Fairness ==
    /\ \A r \in Reqs :
          /\ WF_vars(WaitReady(r) \/ WaitErr(r) \/ WaitCtxDone(r))
          /\ WF_vars(Checkout(r) \/ CheckoutCtxDone(r))
          /\ WF_vars(Expire(r))
          /\ WF_vars(CloserStep(r))
    /\ WF_vars(ManagerCloseReturn)

Spec == Init /\ [][Next]_vars

FairSpec == Spec /\ Fairness

-----------------------------------------------------------------------------
(***************************************************************************)
(* Properties.                                                             *)
(***************************************************************************)

TypeOK ==
    /\ pools   \in [Keys -> Reqs \cup {None}]
    /\ lru     \in Seq(Reqs)
    /\ key     \in [Reqs -> Keys \cup {None}]
    /\ build   \in [Reqs -> {"none", "building", "ok", "err"}]
    /\ idle    \in [Reqs -> SUBSET Workers]
    /\ closed  \in [Reqs -> SUBSET Workers]
    /\ closer  \in [Reqs -> {"none", "evict", "invalidate", "queued", "shutdown", "done"}]
    /\ pc      \in [Reqs -> {"start"} \cup InFlight \cup Final]
    /\ ent     \in [Reqs -> Reqs \cup {None}]
    /\ wk      \in [Reqs -> Workers \cup {None}]
    /\ expired \in [Reqs -> BOOLEAN]
    /\ mgr     \in {"open", "closing", "closed"}

\* The recency list holds exactly the tracked entries, each once, and never
\* more than the cap: the map and the list cannot drift apart whatever the
\* order of hits, misses, evictions, invalidations and Close.
CapRespected ==
    MaxPools # 0 =>
        /\ Len(lru) <= MaxPools
        /\ Elems(lru) = Tracked
        /\ Distinct(lru)

\* An instance serves one request at a time, and none that Pool.Close shut
\* down or that is back in the channel.
InstanceExclusive ==
    \A r \in Reqs : pc[r] = "serving" =>
        /\ wk[r] \in Workers
        /\ wk[r] \notin idle[ent[r]] \cup closed[ent[r]]
        /\ \A s \in Reqs : s # r /\ pc[s] = "serving" /\ ent[s] = ent[r] => wk[s] # wk[r]

\* No instance is lost: those of a built pool are in the channel, checked
\* out, or closed.
InstancesAccounted ==
    \A e \in Reqs : build[e] = "ok" => idle[e] \cup Busy(e) \cup closed[e] = Workers

\* A request is only ever served by a pool built for the version it asked for.
ServedByOwnVersion ==
    \A r \in Reqs : ent[r] # None => key[ent[r]] = key[r]

\* Every entry ever built is either still tracked or owned by exactly one
\* closer, never both: no pool leaks and none is closed while HandlerFor can
\* still hand it out.
TrackedXorClosing ==
    \A e \in Reqs : build[e] # "none" =>
        (pools[key[e]] = e <=> closer[e] = "none")

\* What each position of a request says about its entry.
RequestInv ==
    \A r \in Reqs :
        /\ pc[r] = "start" => build[r] = "none"
        /\ pc[r] = "build" <=> build[r] = "building"
        /\ pc[r] \in InFlight <=> ent[r] # None
        /\ pc[r] = "build" => ent[r] = r
        /\ pc[r] \in InFlight => key[r] \in Keys /\ build[ent[r]] # "none"
        /\ pc[r] \in {"handler", "serving"} => build[ent[r]] = "ok"

\* What the state of an entry says about its pool.
EntryInv ==
    \A e \in Reqs :
        /\ build[e] # "none" => key[e] \in Keys
        /\ build[e] = "none" => closer[e] = "none"
        /\ build[e] # "ok" => idle[e] = {} /\ closed[e] = {}
        /\ idle[e] \cap closed[e] = {}
        /\ closed[e] # {} => closer[e] # "none"
        /\ closer[e] = "done" => build[e] = "err" \/ closed[e] = Workers

\* A key maps to an entry made for it.
MapInv ==
    \A k \in Keys : pools[k] # None => build[pools[k]] # "none" /\ key[pools[k]] = k

\* The inductive invariant: all of the above, together.
IInv ==
    /\ TypeOK
    /\ RequestInv
    /\ EntryInv
    /\ MapInv
    /\ CapRespected
    /\ InstanceExclusive
    /\ InstancesAccounted
    /\ ServedByOwnVersion
    /\ TrackedXorClosing

\* A miss never evicts the entry it has just inserted.
FreshEntrySurvives ==
    [][\A r \in Reqs : pc[r] = "start" /\ pc'[r] = "build" => pools'[key'[r]] = r]_vars

\* Graceful drain: closing never takes an instance from a request, and a
\* closed instance never comes back.
GracefulDrain ==
    [][\A e \in Reqs :
          /\ closed[e] \subseteq closed'[e]
          /\ closed'[e] \cap Busy(e) = {}]_vars

\* No request waits for ever on another one: whatever the others hold and
\* however long, one that is never answered stays where it builds a pool or
\* is served itself, and not on a build, an instance or a pool that has been
\* closed meanwhile.
EveryRequestAnswered ==
    \A r \in Reqs :
        pc[r] \in InFlight ~>
            (pc[r] \in Final \/ [](pc[r] = "build") \/ [](pc[r] = "serving"))

\* Code of the function still runs in the pool: its build, or a request.
Held(e) == build[e] = "building" \/ Busy(e) # {}

\* The closer of e waits for such code: that of e, or that of the pool which
\* the loop of Manager.Close has reached before e.
Blocked(e) ==
    \/ Held(e)
    \/ closer[e] = "queued" /\ \E f \in Reqs : closer[f] = "shutdown" /\ Held(f)

\* Every pool taken out of the map is closed in the end, and Manager.Close
\* returns, unless a request that never leaves a pool holds the close up: no
\* closer waits for an instance that is back, nor for another closer.
EveryRemovedPoolCloses ==
    /\ \A e \in Reqs : closer[e] # "none" ~> (closer[e] = "done" \/ []Blocked(e))
    /\ mgr = "closing" ~>
          (mgr = "closed" \/ [](\E e \in Reqs : closer[e] = "shutdown" /\ Held(e)))

\* What the comments on evictAsync and Invalidate promise of a request that
\* already has the pool as its handler: it can still run to completion there,
\* so the pool keeps an instance for it.
HandlerKeepsAnInstance ==
    \A r \in Reqs : pc[r] = "handler" => closed[ent[r]] # Workers
=============================================================================
