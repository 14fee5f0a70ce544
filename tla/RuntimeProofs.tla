---------------------------- MODULE RuntimeProofs -----------------------------
(***************************************************************************)
(* Machine-checked proofs about the two layers of the runtime: PoolManager *)
(* for every number of keys, requests and instances and every LRU cap, and *)
(* EngineWorker, an instance of one of those pools, for any set of         *)
(* requests.                                                               *)
(***************************************************************************)
EXTENDS PoolManager, EngineWorker, SequenceTheorems, TLAPS

-----------------------------------------------------------------------------
(***************************************************************************)
(* The recency list.                                                       *)
(***************************************************************************)

\* Taking an entry off the list keeps a list of the same entries' type.
LEMMA ListRemoveType ==
    ASSUME NEW S, NEW s \in Seq(S), NEW e
    PROVE  ListRemove(s, e) \in Seq(S)
<1>1. CASE \A i \in 1..Len(s) : s[i] # e
  BY <1>1 DEF ListRemove
<1>2. CASE \E i \in 1..Len(s) : s[i] = e
  <2> DEFINE p == CHOOSE i \in 1..Len(s) : s[i] = e
             t == [j \in 1..(Len(s) - 1) |-> s[IF j < p THEN j ELSE j + 1]]
  <2>1. p \in 1..Len(s) /\ s[p] = e
    BY <1>2
  <2>2. ListRemove(s, e) = t
    BY <1>2 DEF ListRemove
  <2> HIDE DEF p
  <2>3. Len(s) \in Nat /\ Len(s) - 1 \in Nat
    BY <2>1
  <2>4. \A j \in 1..(Len(s) - 1) : t[j] \in S
    BY <2>1, <2>3
  <2> QED BY <2>2, <2>3, <2>4
<1> QED BY <1>1, <1>2

\* On a list without repetitions, ListRemove removes exactly that entry.
LEMMA ListRemoveElems ==
    ASSUME NEW S, NEW s \in Seq(S), NEW e, Distinct(s)
    PROVE  /\ Elems(ListRemove(s, e)) = Elems(s) \ {e}
           /\ Distinct(ListRemove(s, e))
           /\ Len(ListRemove(s, e)) <= Len(s)
           /\ e \in Elems(s) => Len(ListRemove(s, e)) = Len(s) - 1
<1>1. CASE \A i \in 1..Len(s) : s[i] # e
  BY <1>1 DEF ListRemove, Elems
<1>2. CASE \E i \in 1..Len(s) : s[i] = e
  <2> DEFINE p == CHOOSE i \in 1..Len(s) : s[i] = e
             t == [j \in 1..(Len(s) - 1) |-> s[IF j < p THEN j ELSE j + 1]]
  <2>1. p \in 1..Len(s) /\ s[p] = e
    BY <1>2
  <2>2. ListRemove(s, e) = t
    BY <1>2 DEF ListRemove
  <2> HIDE DEF p
  <2>3. Len(s) \in Nat /\ Len(s) - 1 \in Nat
    BY <2>1
  <2>4. Len(t) = Len(s) - 1 /\ \A j \in 1..Len(t) : t[j] = s[IF j < p THEN j ELSE j + 1]
    <3>1. t \in Seq(S)
      BY <2>2, ListRemoveType
    <3>2. DOMAIN t = 1..(Len(s) - 1)
      OBVIOUS
    <3>3. Len(t) = Len(s) - 1
      BY <3>1, <3>2, <2>3
    <3> QED BY <3>3
  <2> HIDE DEF t
  <2>5. Distinct(t)
    BY <2>1, <2>3, <2>4 DEF Distinct
  <2>6. ASSUME NEW x \in Elems(t) PROVE x \in Elems(s) \ {e}
    <3>1. PICK j \in 1..Len(t) : t[j] = x
      BY DEF Elems
    <3> DEFINE i == IF j < p THEN j ELSE j + 1
    <3>2. i \in 1..Len(s) /\ s[i] = x /\ i # p
      BY <2>1, <2>3, <2>4, <3>1
    <3> HIDE DEF i
    <3>3. x # e
      BY <2>1, <3>2 DEF Distinct
    <3> QED BY <3>2, <3>3 DEF Elems
  <2>7. ASSUME NEW x \in Elems(s) \ {e} PROVE x \in Elems(t)
    <3>1. PICK i \in 1..Len(s) : s[i] = x
      BY <2>7 DEF Elems
    <3>2. i # p
      BY <2>1, <2>7, <3>1
    <3>3. CASE i < p
      <4>1. i \in 1..Len(t) /\ t[i] = x
        BY <2>1, <2>3, <2>4, <3>1, <3>3
      <4> QED BY <4>1 DEF Elems
    <3>4. CASE i > p
      <4>1. (i - 1) \in 1..Len(t) /\ t[i - 1] = x
        BY <2>1, <2>3, <2>4, <3>1, <3>4
      <4> QED BY <4>1 DEF Elems
    <3> QED BY <2>1, <3>1, <3>2, <3>3, <3>4
  <2> QED BY <2>2, <2>3, <2>4, <2>5, <2>6, <2>7
<1> QED BY <1>1, <1>2

\* Pushing an entry on the front of a list that does not hold it.
LEMMA PushFrontElems ==
    ASSUME NEW S, NEW t \in Seq(S), NEW e \in S
    PROVE  /\ <<e>> \o t \in Seq(S)
           /\ Len(<<e>> \o t) = Len(t) + 1
           /\ (<<e>> \o t)[1] = e
           /\ Elems(<<e>> \o t) = Elems(t) \cup {e}
           /\ Distinct(t) /\ e \notin Elems(t) => Distinct(<<e>> \o t)
<1> DEFINE u == <<e>> \o t
<1>1. u \in Seq(S) /\ Len(u) = Len(t) + 1 /\ u[1] = e /\ Len(t) \in Nat
  OBVIOUS
<1>2. \A i \in 1..Len(t) : u[i + 1] = t[i]
  OBVIOUS
<1>3. \A i \in 2..Len(u) : u[i] = t[i - 1] /\ (i - 1) \in 1..Len(t)
  OBVIOUS
<1> HIDE DEF u
<1>4. Elems(u) = Elems(t) \cup {e}
  <2>1. ASSUME NEW x \in Elems(u) PROVE x \in Elems(t) \cup {e}
    BY <1>1, <1>3 DEF Elems
  <2>2. ASSUME NEW x \in Elems(t) PROVE x \in Elems(u)
    <3>1. PICK i \in 1..Len(t) : t[i] = x
      BY DEF Elems
    <3>2. (i + 1) \in 1..Len(u) /\ u[i + 1] = x
      BY <1>1, <1>2, <3>1
    <3> QED BY <3>2 DEF Elems
  <2>3. e \in Elems(u)
    BY <1>1 DEF Elems
  <2> QED BY <2>1, <2>2, <2>3
<1>5. ASSUME Distinct(t), e \notin Elems(t) PROVE Distinct(u)
  <2> SUFFICES ASSUME NEW i \in 1..Len(u), NEW j \in 1..Len(u), u[i] = u[j]
               PROVE  i = j
    BY DEF Distinct
  <2>1. \A m \in 2..Len(u) : u[m] # e
    BY <1>3, <1>5 DEF Elems
  <2>2. CASE i = 1 \/ j = 1
    BY <1>1, <2>1, <2>2
  <2>3. CASE i # 1 /\ j # 1
    <3>1. i \in 2..Len(u) /\ j \in 2..Len(u)
      BY <1>1, <2>3
    <3>2. t[i - 1] = t[j - 1] /\ (i - 1) \in 1..Len(t) /\ (j - 1) \in 1..Len(t)
      BY <1>3, <3>1
    <3>3. i - 1 = j - 1
      BY <1>5, <3>2 DEF Distinct
    <3> QED BY <3>1, <3>3
  <2> QED BY <2>2, <2>3
<1> QED BY <1>1, <1>4, <1>5 DEF u

\* Dropping the back of a list without repetitions.
LEMMA PopBackElems ==
    ASSUME NEW S, NEW s \in Seq(S), s # <<>>
    PROVE  /\ SubSeq(s, 1, Len(s) - 1) \in Seq(S)
           /\ Len(SubSeq(s, 1, Len(s) - 1)) = Len(s) - 1
           /\ Victim(s) \in Elems(s)
           /\ Distinct(s) => /\ Elems(SubSeq(s, 1, Len(s) - 1)) = Elems(s) \ {Victim(s)}
                             /\ Distinct(SubSeq(s, 1, Len(s) - 1))
<1> DEFINE n == Len(s)
           u == SubSeq(s, 1, n - 1)
<1>1. n \in Nat /\ n >= 1
  OBVIOUS
<1>2. u \in Seq(S) /\ Len(u) = n - 1 /\ \A i \in 1..(n - 1) : u[i] = s[i]
  <2>1. n - 1 \in Int /\ \A i \in 1..(n - 1) : s[i] \in S
    BY <1>1
  <2>2. /\ u \in Seq(S)
        /\ Len(u) = IF 1 <= n - 1 THEN n - 1 - 1 + 1 ELSE 0
        /\ \A i \in 1..(n - 1 - 1 + 1) : u[i] = s[1 + i - 1]
    BY <2>1, SubSeqProperties
  <2> HIDE DEF u, n
  <2>3. n - 1 - 1 + 1 = n - 1 /\ \A i \in 1..(n - 1) : 1 + i - 1 = i
    BY <1>1
  <2> QED BY <1>1, <2>2, <2>3
<1>3. Victim(s) \in Elems(s)
  BY <1>1 DEF Victim, Elems
<1> HIDE DEF u, n
<1>4. ASSUME Distinct(s) PROVE Distinct(u) /\ Elems(u) = Elems(s) \ {Victim(s)}
  <2>1. Distinct(u)
    BY <1>1, <1>2, <1>4 DEF Distinct, n
  <2>2. Elems(u) \subseteq Elems(s) \ {Victim(s)}
    BY <1>1, <1>2, <1>4 DEF Distinct, Elems, Victim, n
  <2>3. Elems(s) \ {Victim(s)} \subseteq Elems(u)
    BY <1>1, <1>2 DEF Elems, Victim, n
  <2> QED BY <2>1, <2>2, <2>3
<1> QED BY <1>2, <1>3, <1>4 DEF n, u

\* touchLocked: the entry is on the list once, in front.
LEMMA TouchLockedElems ==
    ASSUME NEW S, NEW s \in Seq(S), NEW e \in S
    PROVE  /\ TouchLocked(s, e) \in Seq(S)
           /\ MaxPools # 0 /\ Distinct(s) =>
                /\ Elems(TouchLocked(s, e)) = Elems(s) \cup {e}
                /\ Distinct(TouchLocked(s, e))
                /\ TouchLocked(s, e)[1] = e
                /\ Len(TouchLocked(s, e)) = IF e \in Elems(s) THEN Len(s) ELSE Len(s) + 1
<1>1. ListRemove(s, e) \in Seq(S)
  BY ListRemoveType
<1>2. e \notin Elems(s) => ListRemove(s, e) = s
  BY DEF ListRemove, Elems
<1>3. CASE MaxPools = 0
  BY <1>3 DEF TouchLocked
<1>4. CASE MaxPools # 0
  <2> DEFINE t == ListRemove(s, e)
  <2>1. TouchLocked(s, e) = <<e>> \o t
    BY <1>4 DEF TouchLocked
  <2>2. /\ <<e>> \o t \in Seq(S)
        /\ Len(<<e>> \o t) = Len(t) + 1
        /\ (<<e>> \o t)[1] = e
        /\ Elems(<<e>> \o t) = Elems(t) \cup {e}
        /\ Distinct(t) /\ e \notin Elems(t) => Distinct(<<e>> \o t)
    BY <1>1, PushFrontElems
  <2>3. ASSUME Distinct(s)
        PROVE  /\ Elems(t) = Elems(s) \ {e}
               /\ Distinct(t)
               /\ e \in Elems(s) => Len(t) = Len(s) - 1
    BY <2>3, ListRemoveElems
  <2>4. Len(s) \in Nat
    OBVIOUS
  <2> HIDE DEF t
  <2> DEFINE u == <<e>> \o t
  <2> HIDE DEF u
  <2>5. t = ListRemove(s, e) /\ u = <<e>> \o t
    BY DEF t, u
  <2> QED BY <1>2, <2>1, <2>2, <2>3, <2>4, <2>5
<1> QED BY <1>3, <1>4

-----------------------------------------------------------------------------
(***************************************************************************)
(* Each action preserves the inductive invariant.                          *)
(***************************************************************************)

\* A warmed pool is published: its instances are all in the channel, none is held.
LEMMA BuildOkInv ==
    ASSUME NEW r \in Reqs, IInv, BuildOk(r)
    PROVE  IInv'
<1> USE NoneAssumption DEF IInv, BuildOk, cacheVars, instVars, InFlight, Final
<1>1. TypeOK'
  BY DEF TypeOK, RequestInv
<1>2. RequestInv' /\ EntryInv'
  BY DEF RequestInv, EntryInv, TypeOK
<1>3. MapInv' /\ CapRespected' /\ ServedByOwnVersion' /\ TrackedXorClosing'
  BY DEF MapInv, CapRespected, Tracked, ServedByOwnVersion, TrackedXorClosing, RequestInv, TypeOK
<1>4. InstanceExclusive' /\ InstancesAccounted'
  BY DEF InstanceExclusive, InstancesAccounted, Busy, TypeOK, RequestInv, EntryInv
<1> QED BY <1>1, <1>2, <1>3, <1>4

\* A failed build leaves an entry with no instance at all.
LEMMA BuildErrInv ==
    ASSUME NEW r \in Reqs, IInv, BuildErr(r)
    PROVE  IInv'
<1> USE NoneAssumption DEF IInv, BuildErr, cacheVars, instVars, InFlight, Final
<1>1. TypeOK'
  BY DEF TypeOK, RequestInv
<1>2. RequestInv' /\ EntryInv'
  BY DEF RequestInv, EntryInv, TypeOK
<1>3. MapInv' /\ CapRespected' /\ ServedByOwnVersion' /\ TrackedXorClosing'
  BY DEF MapInv, CapRespected, Tracked, ServedByOwnVersion, TrackedXorClosing, RequestInv, TypeOK
<1>4. InstanceExclusive' /\ InstancesAccounted'
  BY DEF InstanceExclusive, InstancesAccounted, Busy, TypeOK, RequestInv, EntryInv
<1> QED BY <1>1, <1>2, <1>3, <1>4

\* Leaving the wait with a built pool.
LEMMA WaitReadyInv ==
    ASSUME NEW r \in Reqs, IInv, WaitReady(r)
    PROVE  IInv'
<1> USE NoneAssumption DEF IInv, WaitReady, cacheVars, instVars, InFlight, Final
<1>1. TypeOK'
  BY DEF TypeOK, RequestInv
<1>2. RequestInv' /\ EntryInv'
  BY DEF RequestInv, EntryInv, TypeOK
<1>3. MapInv' /\ CapRespected' /\ ServedByOwnVersion' /\ TrackedXorClosing'
  BY DEF MapInv, CapRespected, Tracked, ServedByOwnVersion, TrackedXorClosing, RequestInv, TypeOK
<1>4. InstanceExclusive' /\ InstancesAccounted'
  BY DEF InstanceExclusive, InstancesAccounted, Busy, TypeOK, RequestInv, EntryInv
<1> QED BY <1>1, <1>2, <1>3, <1>4

\* Leaving the wait with the entry's error.
LEMMA WaitErrInv ==
    ASSUME NEW r \in Reqs, IInv, WaitErr(r)
    PROVE  IInv'
<1> USE NoneAssumption DEF IInv, WaitErr, Answer, cacheVars, instVars, InFlight, Final
<1>1. TypeOK'
  BY DEF TypeOK, RequestInv
<1>2. RequestInv' /\ EntryInv'
  BY DEF RequestInv, EntryInv, TypeOK
<1>3. MapInv' /\ CapRespected' /\ ServedByOwnVersion' /\ TrackedXorClosing'
  BY DEF MapInv, CapRespected, Tracked, ServedByOwnVersion, TrackedXorClosing, RequestInv, TypeOK
<1>4. InstanceExclusive' /\ InstancesAccounted'
  BY DEF InstanceExclusive, InstancesAccounted, Busy, TypeOK, RequestInv, EntryInv
<1> QED BY <1>1, <1>2, <1>3, <1>4

\* Leaving the wait because the context is done.
LEMMA WaitCtxDoneInv ==
    ASSUME NEW r \in Reqs, IInv, WaitCtxDone(r)
    PROVE  IInv'
<1> USE NoneAssumption DEF IInv, WaitCtxDone, Answer, cacheVars, instVars, InFlight, Final
<1>1. TypeOK'
  BY DEF TypeOK, RequestInv
<1>2. RequestInv' /\ EntryInv'
  BY DEF RequestInv, EntryInv, TypeOK
<1>3. MapInv' /\ CapRespected' /\ ServedByOwnVersion' /\ TrackedXorClosing'
  BY DEF MapInv, CapRespected, Tracked, ServedByOwnVersion, TrackedXorClosing, RequestInv, TypeOK
<1>4. InstanceExclusive' /\ InstancesAccounted'
  BY DEF InstanceExclusive, InstancesAccounted, Busy, TypeOK, RequestInv, EntryInv
<1> QED BY <1>1, <1>2, <1>3, <1>4

\* Taking an instance: it leaves the channel as the request starts to hold it.
LEMMA CheckoutInv ==
    ASSUME NEW r \in Reqs, IInv, Checkout(r)
    PROVE  IInv'
<1> USE NoneAssumption DEF IInv, Checkout, cacheVars, instVars, InFlight, Final
<1>1. TypeOK'
  BY DEF TypeOK, RequestInv
<1>2. RequestInv' /\ EntryInv'
  BY DEF RequestInv, EntryInv, TypeOK
<1>3. MapInv' /\ CapRespected' /\ ServedByOwnVersion' /\ TrackedXorClosing'
  BY DEF MapInv, CapRespected, Tracked, ServedByOwnVersion, TrackedXorClosing, RequestInv, TypeOK
<1>4. InstanceExclusive' /\ InstancesAccounted'
  BY DEF InstanceExclusive, InstancesAccounted, Busy, TypeOK, RequestInv, EntryInv
<1> QED BY <1>1, <1>2, <1>3, <1>4

\* Giving up on an instance.
LEMMA CheckoutCtxDoneInv ==
    ASSUME NEW r \in Reqs, IInv, CheckoutCtxDone(r)
    PROVE  IInv'
<1> USE NoneAssumption DEF IInv, CheckoutCtxDone, Answer, cacheVars, instVars, InFlight, Final
<1>1. TypeOK'
  BY DEF TypeOK, RequestInv
<1>2. RequestInv' /\ EntryInv'
  BY DEF RequestInv, EntryInv, TypeOK
<1>3. MapInv' /\ CapRespected' /\ ServedByOwnVersion' /\ TrackedXorClosing'
  BY DEF MapInv, CapRespected, Tracked, ServedByOwnVersion, TrackedXorClosing, RequestInv, TypeOK
<1>4. InstanceExclusive' /\ InstancesAccounted'
  BY DEF InstanceExclusive, InstancesAccounted, Busy, TypeOK, RequestInv, EntryInv
<1> QED BY <1>1, <1>2, <1>3, <1>4

\* Giving the instance back: no one else can hold it or have closed it.
LEMMA FinishInv ==
    ASSUME NEW r \in Reqs, IInv, Finish(r)
    PROVE  IInv'
<1> USE NoneAssumption DEF IInv, Finish, Answer, cacheVars, instVars, InFlight, Final
<1>1. TypeOK'
  BY DEF TypeOK, RequestInv, InstanceExclusive
<1>2. RequestInv' /\ EntryInv'
  BY DEF RequestInv, EntryInv, TypeOK, InstanceExclusive
<1>3. MapInv' /\ CapRespected' /\ ServedByOwnVersion' /\ TrackedXorClosing'
  BY DEF MapInv, CapRespected, Tracked, ServedByOwnVersion, TrackedXorClosing, RequestInv, TypeOK
<1>4. InstanceExclusive' /\ InstancesAccounted'
  BY DEF InstanceExclusive, InstancesAccounted, Busy, TypeOK, RequestInv, EntryInv
<1> QED BY <1>1, <1>2, <1>3, <1>4

\* A context that ends changes nothing the invariant is about.
LEMMA ExpireInv ==
    ASSUME NEW r \in Reqs, IInv, Expire(r)
    PROVE  IInv'
<1> USE NoneAssumption DEF IInv, Expire, cacheVars, instVars, InFlight, Final
<1>1. TypeOK'
  BY DEF TypeOK, RequestInv
<1>2. RequestInv' /\ EntryInv'
  BY DEF RequestInv, EntryInv, TypeOK
<1>3. MapInv' /\ CapRespected' /\ ServedByOwnVersion' /\ TrackedXorClosing'
  BY DEF MapInv, CapRespected, Tracked, ServedByOwnVersion, TrackedXorClosing, RequestInv, TypeOK
<1>4. InstanceExclusive' /\ InstancesAccounted'
  BY DEF InstanceExclusive, InstancesAccounted, Busy, TypeOK, RequestInv, EntryInv
<1> QED BY <1>1, <1>2, <1>3, <1>4

\* Manager.Close goes on to an entry that is already out of the map.
LEMMA ManagerCloseNextInv ==
    ASSUME NEW e \in Reqs, IInv, ManagerCloseNext(e)
    PROVE  IInv'
<1> USE NoneAssumption DEF IInv, ManagerCloseNext, cacheVars, instVars, InFlight, Final
<1>1. TypeOK'
  BY DEF TypeOK, RequestInv
<1>2. RequestInv' /\ EntryInv'
  BY DEF RequestInv, EntryInv, TypeOK
<1>3. MapInv' /\ CapRespected' /\ ServedByOwnVersion' /\ TrackedXorClosing'
  BY DEF MapInv, CapRespected, Tracked, ServedByOwnVersion, TrackedXorClosing, RequestInv, TypeOK
<1>4. InstanceExclusive' /\ InstancesAccounted'
  BY DEF InstanceExclusive, InstancesAccounted, Busy, TypeOK, RequestInv, EntryInv
<1> QED BY <1>1, <1>2, <1>3, <1>4

\* Closing an instance that was in the channel.
LEMMA ClosePoolWorkerInv ==
    ASSUME NEW e \in Reqs, IInv, ClosePoolWorker(e)
    PROVE  IInv'
<1> USE NoneAssumption DEF IInv, ClosePoolWorker, cacheVars, instVars, InFlight, Final
<1>1. TypeOK'
  BY DEF TypeOK, RequestInv
<1>2. RequestInv' /\ EntryInv'
  BY DEF RequestInv, EntryInv, TypeOK
<1>3. MapInv' /\ CapRespected' /\ ServedByOwnVersion' /\ TrackedXorClosing'
  BY DEF MapInv, CapRespected, Tracked, ServedByOwnVersion, TrackedXorClosing, RequestInv, TypeOK
<1>4. InstanceExclusive' /\ InstancesAccounted'
  BY DEF InstanceExclusive, InstancesAccounted, Busy, TypeOK, RequestInv, EntryInv
<1> QED BY <1>1, <1>2, <1>3, <1>4

\* A closer is done once its pool is gone or never existed.
LEMMA CloserDoneInv ==
    ASSUME NEW e \in Reqs, IInv, CloserDone(e)
    PROVE  IInv'
<1> USE NoneAssumption DEF IInv, CloserDone, cacheVars, instVars, InFlight, Final
<1>1. TypeOK'
  BY DEF TypeOK, RequestInv
<1>2. RequestInv' /\ EntryInv'
  BY DEF RequestInv, EntryInv, TypeOK
<1>3. MapInv' /\ CapRespected' /\ ServedByOwnVersion' /\ TrackedXorClosing'
  BY DEF MapInv, CapRespected, Tracked, ServedByOwnVersion, TrackedXorClosing, RequestInv, TypeOK
<1>4. InstanceExclusive' /\ InstancesAccounted'
  BY DEF InstanceExclusive, InstancesAccounted, Busy, TypeOK, RequestInv, EntryInv
<1> QED BY <1>1, <1>2, <1>3, <1>4

\* Manager.Close returns.
LEMMA ManagerCloseReturnInv ==
    ASSUME IInv, ManagerCloseReturn
    PROVE  IInv'
<1> USE NoneAssumption DEF IInv, ManagerCloseReturn, cacheVars, instVars, InFlight, Final
<1>1. TypeOK'
  BY DEF TypeOK, RequestInv
<1>2. RequestInv' /\ EntryInv'
  BY DEF RequestInv, EntryInv, TypeOK
<1>3. MapInv' /\ CapRespected' /\ ServedByOwnVersion' /\ TrackedXorClosing'
  BY DEF MapInv, CapRespected, Tracked, ServedByOwnVersion, TrackedXorClosing, RequestInv, TypeOK
<1>4. InstanceExclusive' /\ InstancesAccounted'
  BY DEF InstanceExclusive, InstancesAccounted, Busy, TypeOK, RequestInv, EntryInv
<1> QED BY <1>1, <1>2, <1>3, <1>4

\* A hit only moves a tracked entry to the front.
LEMMA HandlerForHitInv ==
    ASSUME NEW r \in Reqs, NEW k \in Keys, IInv, HandlerForHit(r, k)
    PROVE  IInv'
<1> USE NoneAssumption DEF IInv, HandlerForHit, InFlight, Final
<1>1. pools[k] \in Reqs /\ pools[k] \in Tracked
  BY DEF TypeOK, Tracked
<1>2. /\ lru' \in Seq(Reqs)
      /\ MaxPools # 0 /\ Distinct(lru) =>
            /\ Elems(lru') = Elems(lru) \cup {pools[k]}
            /\ Distinct(lru')
            /\ Len(lru') = IF pools[k] \in Elems(lru) THEN Len(lru) ELSE Len(lru) + 1
  BY <1>1, TouchLockedElems DEF TypeOK
<1>3. TypeOK'
  BY <1>1, <1>2 DEF TypeOK
<1>4. RequestInv' /\ EntryInv'
  BY <1>1 DEF RequestInv, EntryInv, TypeOK, MapInv
<1>5. CapRespected'
  BY <1>1, <1>2 DEF CapRespected, Tracked
<1>6. MapInv' /\ ServedByOwnVersion' /\ TrackedXorClosing'
  BY <1>1 DEF MapInv, ServedByOwnVersion, TrackedXorClosing, RequestInv, TypeOK
<1>7. InstanceExclusive' /\ InstancesAccounted'
  BY DEF InstanceExclusive, InstancesAccounted, Busy, TypeOK, RequestInv
<1> QED BY <1>3, <1>4, <1>5, <1>6, <1>7

\* Invalidate moves one entry from the map and the list to its closer.
LEMMA InvalidateInv ==
    ASSUME NEW k \in Keys, IInv, Invalidate(k)
    PROVE  IInv'
<1> USE NoneAssumption DEF IInv, Invalidate, instVars
<1>1. pools[k] \in Reqs /\ pools[k] \in Tracked
  BY DEF TypeOK, Tracked
<1>2. /\ lru' \in Seq(Reqs)
      /\ Distinct(lru) => /\ Elems(lru') = Elems(lru) \ {pools[k]}
                          /\ Distinct(lru')
                          /\ Len(lru') <= Len(lru)
  BY ListRemoveType, ListRemoveElems DEF TypeOK
<1>3. TypeOK'
  BY <1>1, <1>2 DEF TypeOK
<1>4. RequestInv' /\ EntryInv'
  BY <1>1 DEF RequestInv, EntryInv, TypeOK, MapInv, TrackedXorClosing
<1>5. Tracked' = Tracked \ {pools[k]}
  BY <1>1 DEF Tracked, MapInv, TypeOK
<1>6. CapRespected'
  <2>1. SUFFICES ASSUME MaxPools # 0
                 PROVE  Len(lru') <= MaxPools /\ Elems(lru') = Tracked' /\ Distinct(lru')
    BY DEF CapRespected
  <2>2. Len(lru) \in Nat /\ Len(lru') \in Nat
    BY <1>2 DEF TypeOK
  <2> QED BY <1>2, <1>5, <2>1, <2>2, MaxPoolsAssumption DEF CapRespected
<1>7. MapInv' /\ ServedByOwnVersion' /\ TrackedXorClosing'
  BY <1>1 DEF MapInv, ServedByOwnVersion, TrackedXorClosing, EntryInv, TypeOK
<1>8. InstanceExclusive' /\ InstancesAccounted'
  BY DEF InstanceExclusive, InstancesAccounted, Busy
<1> QED BY <1>3, <1>4, <1>6, <1>7, <1>8

\* Manager.Close moves every tracked entry to its own list at once.
LEMMA ManagerCloseInv ==
    ASSUME IInv, ManagerClose
    PROVE  IInv'
<1> USE NoneAssumption DEF IInv, ManagerClose, instVars
<1>1. TypeOK'
  BY DEF TypeOK
<1>2. \A e \in Reqs : build[e] # "none" => (e \in Tracked <=> closer[e] = "none")
  BY DEF TrackedXorClosing, Tracked, MapInv, EntryInv, TypeOK
<1>3. \A e \in Tracked : e \in Reqs /\ build[e] # "none"
  BY DEF Tracked, MapInv, TypeOK
<1>4. RequestInv' /\ EntryInv'
  BY <1>2, <1>3 DEF RequestInv, EntryInv, TypeOK
<1>5. MapInv' /\ ServedByOwnVersion'
  BY DEF MapInv, ServedByOwnVersion
<1>6. CapRespected'
  <2>1. Len(lru') = 0 /\ Elems(lru') = {} /\ Distinct(lru')
    BY DEF Elems, Distinct
  <2>2. Tracked' = {}
    BY DEF Tracked
  <2> QED BY <2>1, <2>2, MaxPoolsAssumption DEF CapRespected
<1>7. TrackedXorClosing'
  BY <1>2 DEF TrackedXorClosing, EntryInv, TypeOK
<1>8. InstanceExclusive' /\ InstancesAccounted'
  BY DEF InstanceExclusive, InstancesAccounted, Busy
<1> QED BY <1>1, <1>4, <1>5, <1>6, <1>7, <1>8

\* What a miss does to the map and the list: the new entry comes in, and at
\* the cap the least recently used one, never the new one, goes out.
LEMMA HandlerForMissCache ==
    ASSUME NEW r \in Reqs, NEW k \in Keys, IInv, HandlerForMiss(r, k)
    PROVE  \E out \in SUBSET Tracked :
              /\ lru' \in Seq(Reqs)
              /\ MaxPools # 0 => /\ Len(lru') <= MaxPools
                                 /\ Elems(lru') = (Tracked \ out) \cup {r}
                                 /\ Distinct(lru')
              /\ pools' = [j \in Keys |-> IF j = k THEN r
                                          ELSE IF pools[j] \in out THEN None ELSE pools[j]]
              /\ closer' = [e \in Reqs |-> IF e \in out THEN "evict" ELSE closer[e]]
<1> USE NoneAssumption DEF IInv, HandlerForMiss
<1> DEFINE touched == TouchLocked(lru, r)
           v == Victim(touched)
<1>1. r \notin Tracked /\ Tracked \subseteq Reqs
  BY DEF RequestInv, MapInv, Tracked, TypeOK
<1>2. /\ touched \in Seq(Reqs)
      /\ MaxPools # 0 => /\ Elems(touched) = Tracked \cup {r}
                         /\ Distinct(touched)
                         /\ touched[1] = r
                         /\ Len(touched) = Len(lru) + 1
                         /\ Len(lru) <= MaxPools
  <2>1. lru \in Seq(Reqs)
    BY DEF TypeOK
  <2>2. MaxPools # 0 => Len(lru) <= MaxPools /\ Elems(lru) = Tracked /\ Distinct(lru)
    BY DEF CapRespected
  <2>3. /\ touched \in Seq(Reqs)
        /\ MaxPools # 0 /\ Distinct(lru) =>
              /\ Elems(touched) = Elems(lru) \cup {r}
              /\ Distinct(touched)
              /\ touched[1] = r
              /\ Len(touched) = IF r \in Elems(lru) THEN Len(lru) ELSE Len(lru) + 1
    BY <2>1, TouchLockedElems
  <2> HIDE DEF touched
  <2> QED BY <1>1, <2>2, <2>3
<1>3. Len(touched) \in Nat /\ Len(lru) \in Nat
  BY <1>2 DEF TypeOK
<1>4. CASE ~OverCap(touched)
  <2>1. lru' = touched /\ pools' = [pools EXCEPT ![k] = r] /\ closer' = closer
    BY <1>4
  <2>2. MaxPools # 0 => Len(touched) <= MaxPools
    BY <1>3, <1>4, MaxPoolsAssumption DEF OverCap
  <2> HIDE DEF touched
  <2>3. pools' = [j \in Keys |-> IF j = k THEN r
                                 ELSE IF pools[j] \in {} THEN None ELSE pools[j]]
    BY <2>1 DEF TypeOK
  <2>4. closer' = [e \in Reqs |-> IF e \in {} THEN "evict" ELSE closer[e]]
    BY <2>1 DEF TypeOK
  <2> WITNESS {} \in SUBSET Tracked
  <2> QED BY <1>2, <2>1, <2>2, <2>3, <2>4
<1>5. CASE OverCap(touched)
  <2>1. /\ lru' = SubSeq(touched, 1, Len(touched) - 1)
        /\ pools' = [[pools EXCEPT ![k] = r] EXCEPT ![key'[v]] = None]
        /\ closer' = [closer EXCEPT ![v] = "evict"]
        /\ key' = [key EXCEPT ![r] = k]
    BY <1>5
  <2>2. MaxPools # 0 /\ Len(touched) > MaxPools
    BY <1>5 DEF OverCap
  <2>3. Len(touched) >= 2 /\ touched # <<>>
    BY <1>2, <1>3, <2>2, MaxPoolsAssumption
  <2>4. v # r
    BY <1>2, <1>3, <2>2, <2>3 DEF Distinct, Victim
  <2>5. /\ lru' \in Seq(Reqs)
        /\ Len(lru') = Len(touched) - 1
        /\ v \in Elems(touched)
        /\ Elems(lru') = Elems(touched) \ {v}
        /\ Distinct(lru')
    BY <1>2, <2>1, <2>2, <2>3, PopBackElems
  <2> HIDE DEF touched, v
  <2>6. v \in Tracked
    BY <1>2, <2>2, <2>4, <2>5
  <2>7. PICK kv \in Keys : pools[kv] = v
    BY <2>6 DEF Tracked
  <2>8. key[v] = kv /\ v \in Reqs /\ kv # k /\ \A j \in Keys : pools[j] = v => j = kv
    BY <1>1, <2>6, <2>7 DEF MapInv, Tracked
  <2>9. key'[v] = kv
    BY <2>1, <2>4, <2>8 DEF TypeOK
  <2>10. pools' = [j \in Keys |-> IF j = k THEN r
                                  ELSE IF pools[j] \in {v} THEN None ELSE pools[j]]
    BY <2>1, <2>7, <2>8, <2>9 DEF TypeOK
  <2>11. closer' = [e \in Reqs |-> IF e \in {v} THEN "evict" ELSE closer[e]]
    BY <2>1, <2>8 DEF TypeOK
  <2>12. Len(lru') <= MaxPools /\ Elems(lru') = (Tracked \ {v}) \cup {r}
    BY <1>2, <1>3, <2>2, <2>4, <2>5
  <2>13. {v} \in SUBSET Tracked
    BY <2>6
  <2> WITNESS {v} \in SUBSET Tracked
  <2> QED BY <2>5, <2>10, <2>11, <2>12
<1> QED BY <1>4, <1>5

\* A miss inserts a new entry and may evict another one.
LEMMA HandlerForMissInv ==
    ASSUME NEW r \in Reqs, NEW k \in Keys, IInv, HandlerForMiss(r, k)
    PROVE  IInv' /\ pools'[k] = r
<1> USE NoneAssumption DEF IInv
<1>1. PICK out \in SUBSET Tracked :
         /\ lru' \in Seq(Reqs)
         /\ MaxPools # 0 => /\ Len(lru') <= MaxPools
                            /\ Elems(lru') = (Tracked \ out) \cup {r}
                            /\ Distinct(lru')
         /\ pools' = [j \in Keys |-> IF j = k THEN r
                                     ELSE IF pools[j] \in out THEN None ELSE pools[j]]
         /\ closer' = [e \in Reqs |-> IF e \in out THEN "evict" ELSE closer[e]]
  BY HandlerForMissCache
<1>2. /\ pc[r] = "start" /\ pools[k] = None
      /\ key' = [key EXCEPT ![r] = k]
      /\ ent' = [ent EXCEPT ![r] = r]
      /\ build' = [build EXCEPT ![r] = "building"]
      /\ pc' = [pc EXCEPT ![r] = "build"]
      /\ UNCHANGED <<idle, closed, wk, expired, mgr>>
  BY DEF HandlerForMiss
<1>3. r \notin Tracked /\ Tracked \subseteq Reqs /\ build[r] = "none"
  BY <1>2 DEF RequestInv, MapInv, Tracked, TypeOK
<1>4. \A s \in Reqs : ent[s] # r
  BY <1>2, <1>3 DEF RequestInv, TypeOK
<1>5. TypeOK'
  BY <1>1, <1>2, <1>3 DEF TypeOK, InFlight
<1>6. RequestInv'
  BY <1>2, <1>3, <1>4 DEF RequestInv, TypeOK, InFlight
<1>7. \A e \in Tracked : build[e] # "none"
  BY DEF Tracked, MapInv
<1>8. EntryInv'
  BY <1>1, <1>2, <1>3, <1>7 DEF EntryInv, TypeOK, TrackedXorClosing, MapInv, Tracked
<1>9. Tracked' = (Tracked \ out) \cup {r}
  BY <1>1, <1>2, <1>3 DEF Tracked, TypeOK
<1>10. CapRespected'
  BY <1>1, <1>9 DEF CapRespected
<1>11. MapInv'
  BY <1>1, <1>2, <1>3 DEF MapInv, TypeOK, Tracked
<1>12. ServedByOwnVersion'
  BY <1>2, <1>4 DEF ServedByOwnVersion, TypeOK
<1>13. TrackedXorClosing'
  BY <1>1, <1>2, <1>3 DEF TrackedXorClosing, TypeOK, MapInv, EntryInv, Tracked
<1>14. InstanceExclusive' /\ InstancesAccounted'
  BY <1>2, <1>3, <1>4 DEF InstanceExclusive, InstancesAccounted, Busy, TypeOK, RequestInv
<1> QED BY <1>1, <1>5, <1>6, <1>8, <1>10, <1>11, <1>12, <1>13, <1>14

-----------------------------------------------------------------------------
(***************************************************************************)
(* The specification.                                                      *)
(***************************************************************************)

\* The empty Manager satisfies the invariant.
LEMMA InitInv == Init => IInv
<1> SUFFICES ASSUME Init PROVE IInv
  OBVIOUS
<1> USE NoneAssumption DEF Init
<1>1. TypeOK /\ RequestInv /\ EntryInv
  BY DEF TypeOK, RequestInv, EntryInv, InFlight
<1>2. MapInv /\ ServedByOwnVersion /\ TrackedXorClosing
  BY DEF MapInv, ServedByOwnVersion, TrackedXorClosing
<1>3. CapRespected
  <2>1. Len(lru) = 0 /\ Elems(lru) = {} /\ Distinct(lru)
    BY DEF Elems, Distinct
  <2>2. Tracked = {}
    BY DEF Tracked
  <2> QED BY <2>1, <2>2, MaxPoolsAssumption DEF CapRespected
<1>4. InstanceExclusive /\ InstancesAccounted
  BY DEF InstanceExclusive, InstancesAccounted
<1> QED BY <1>1, <1>2, <1>3, <1>4 DEF IInv

\* A step that changes nothing preserves the invariant.
LEMMA StutterInv == ASSUME IInv, UNCHANGED vars PROVE IInv'
<1> USE DEF IInv, vars
<1>1. TypeOK' /\ RequestInv' /\ EntryInv' /\ MapInv'
  BY DEF TypeOK, RequestInv, EntryInv, MapInv
<1>2. CapRespected' /\ ServedByOwnVersion' /\ TrackedXorClosing'
  BY DEF CapRespected, Tracked, ServedByOwnVersion, TrackedXorClosing
<1>3. InstanceExclusive' /\ InstancesAccounted'
  BY DEF InstanceExclusive, InstancesAccounted, Busy
<1> QED BY <1>1, <1>2, <1>3

\* Every step preserves the invariant.
LEMMA NextInv == IInv /\ [Next]_vars => IInv'
<1> SUFFICES ASSUME IInv, [Next]_vars PROVE IInv'
  OBVIOUS
<1>1. ASSUME NEW r \in Reqs, RequestStep(r) PROVE IInv'
  BY <1>1, HandlerForHitInv, HandlerForMissInv, BuildOkInv, BuildErrInv, WaitReadyInv,
     WaitErrInv, WaitCtxDoneInv, CheckoutInv, CheckoutCtxDoneInv, FinishInv, ExpireInv
     DEF RequestStep
<1>2. ASSUME NEW k \in Keys, Invalidate(k) PROVE IInv'
  BY <1>2, InvalidateInv
<1>3. CASE ManagerClose \/ ManagerCloseReturn
  BY <1>3, ManagerCloseInv, ManagerCloseReturnInv
<1>4. ASSUME NEW e \in Reqs, CloserStep(e) PROVE IInv'
  BY <1>4, ManagerCloseNextInv, ClosePoolWorkerInv, CloserDoneInv DEF CloserStep
<1>5. CASE Quiescent \/ UNCHANGED vars
  BY <1>5, StutterInv DEF Quiescent
<1> QED BY <1>1, <1>2, <1>3, <1>4, <1>5 DEF Next

\* The inductive invariant holds in every reachable state of the Manager.
THEOREM InductiveInvariant == Spec => []IInv
  BY InitInv, NextInv, PTL DEF Spec

\* Every variable of Manager and its pools keeps its type.
THEOREM TypeCorrect == Spec => []TypeOK
<1>1. IInv => TypeOK
  BY DEF IInv
<1> QED BY <1>1, InductiveInvariant, PTL

\* The map and the recency list agree and stay within WithMaxPools, whatever
\* the order of hits, misses, evictions, Invalidate and Close.
THEOREM CapHolds == Spec => []CapRespected
<1>1. IInv => CapRespected
  BY DEF IInv
<1> QED BY <1>1, InductiveInvariant, PTL

\* No entry is both handed out and being closed, and none is lost by both.
THEOREM NoPoolLeaks == Spec => []TrackedXorClosing
<1>1. IInv => TrackedXorClosing
  BY DEF IInv
<1> QED BY <1>1, InductiveInvariant, PTL

\* An engine instance never serves two requests at once, nor one after its
\* close.
THEOREM InstancesNeverShared == Spec => []InstanceExclusive
<1>1. IInv => InstanceExclusive
  BY DEF IInv
<1> QED BY <1>1, InductiveInvariant, PTL

\* No instance of a built pool is ever lost.
THEOREM InstancesNeverLost == Spec => []InstancesAccounted
<1>1. IInv => InstancesAccounted
  BY DEF IInv
<1> QED BY <1>1, InductiveInvariant, PTL

\* A cache miss never evicts the pool it is about to build.
THEOREM MissKeepsItsEntry == Spec => FreshEntrySurvives
<1> DEFINE A == \A r \in Reqs : pc[r] = "start" /\ pc'[r] = "build" => pools'[key'[r]] = r
<1>1. IInv /\ [Next]_vars => [A]_vars
  <2> SUFFICES ASSUME IInv, Next, NEW r \in Reqs, pc[r] = "start", pc'[r] = "build"
               PROVE  pools'[key'[r]] = r
    OBVIOUS
  <2>1. PICK k \in Keys : HandlerForMiss(r, k)
    <3> USE DEF TypeOK, IInv
    <3>1. ASSUME NEW q \in Reqs, RequestStep(q) PROVE q = r /\ \E k \in Keys : HandlerForMiss(r, k)
      BY <3>1 DEF RequestStep, HandlerForHit, HandlerForMiss, BuildOk, BuildErr, WaitReady,
         WaitErr, WaitCtxDone, Checkout, CheckoutCtxDone, Finish, Expire, Answer, InFlight
    <3>2. ~ \E k \in Keys : Invalidate(k)
      BY DEF Invalidate
    <3>3. ~(ManagerClose \/ ManagerCloseReturn \/ Quiescent)
      BY DEF ManagerClose, ManagerCloseReturn, Quiescent, vars
    <3>4. ~ \E e \in Reqs : CloserStep(e)
      BY DEF CloserStep, ManagerCloseNext, ClosePoolWorker, CloserDone
    <3> QED BY <3>1, <3>2, <3>3, <3>4 DEF Next
  <2>2. pools'[k] = r
    BY <2>1, HandlerForMissInv
  <2>3. key'[r] = k
    BY <2>1 DEF HandlerForMiss, IInv, TypeOK
  <2> QED BY <2>2, <2>3
<1>2. Spec => [][A]_vars
  BY <1>1, InductiveInvariant, PTL DEF Spec
<1> QED BY <1>2 DEF FreshEntrySurvives

\* Closing a pool is graceful: it never takes an instance that a request
\* holds, and what it closed stays closed.
THEOREM CloseIsGraceful == Spec => GracefulDrain
<1> DEFINE A == \A e \in Reqs :
                   /\ closed[e] \subseteq closed'[e]
                   /\ closed'[e] \cap Busy(e) = {}
<1>1. IInv /\ [Next]_vars => [A]_vars
  <2> SUFFICES ASSUME IInv, Next, NEW e \in Reqs
               PROVE  closed[e] \subseteq closed'[e] /\ closed'[e] \cap Busy(e) = {}
    OBVIOUS
  <2>1. closed[e] \cap Busy(e) = {} /\ idle[e] \cap Busy(e) = {}
    BY DEF IInv, InstanceExclusive, Busy
  <2>2. closed'[e] \subseteq closed[e] \cup idle[e] /\ closed[e] \subseteq closed'[e]
    <3> USE DEF IInv, TypeOK, instVars
    <3>1. ASSUME NEW r \in Reqs, RequestStep(r) PROVE closed' = closed
      BY <3>1 DEF RequestStep, HandlerForHit, HandlerForMiss, BuildOk, BuildErr, WaitReady,
         WaitErr, WaitCtxDone, Checkout, CheckoutCtxDone, Finish, Expire
    <3>2. ASSUME NEW k \in Keys, Invalidate(k) PROVE closed' = closed
      BY <3>2 DEF Invalidate
    <3>3. CASE ManagerClose \/ ManagerCloseReturn \/ Quiescent
      BY <3>3 DEF ManagerClose, ManagerCloseReturn, Quiescent, vars
    <3>4. ASSUME NEW f \in Reqs, CloserStep(f)
          PROVE  closed'[e] \subseteq closed[e] \cup idle[e] /\ closed[e] \subseteq closed'[e]
      <4>1. CASE ManagerCloseNext(f) \/ CloserDone(f)
        BY <4>1 DEF ManagerCloseNext, CloserDone
      <4>2. CASE ClosePoolWorker(f)
        BY <4>2 DEF ClosePoolWorker
      <4> QED BY <3>4, <4>1, <4>2 DEF CloserStep
    <3> QED BY <3>1, <3>2, <3>3, <3>4 DEF Next
  <2> QED BY <2>1, <2>2
<1>2. Spec => [][A]_vars
  BY <1>1, InductiveInvariant, PTL DEF Spec
<1> QED BY <1>2 DEF GracefulDrain

-----------------------------------------------------------------------------
(***************************************************************************)
(* The instance.                                                           *)
(***************************************************************************)

\* A fresh instance satisfies the invariant.
LEMMA InitInvariant == WorkerInit => WorkerInv
<1> SUFFICES ASSUME WorkerInit PROVE WorkerInv
  OBVIOUS
<1> USE NullAssumption DEF WorkerInit
<1>1. WorkerTypeOK
  BY DEF WorkerTypeOK, Phases
<1>2. GenInv
  BY DEF GenInv
<1>3. PumpInv
  BY DEF PumpInv
<1>4. StreamsNeverMix /\ CleanEndIsWhole /\ NothingLeftBehind
  BY DEF StreamsNeverMix, CleanEndIsWhole, NothingLeftBehind
<1> QED BY <1>1, <1>2, <1>3, <1>4 DEF WorkerInv

\* Leaving serve: the request that ends gets its answer, which is clean only
\* if it has no pump or its pump is over and lost nothing.
LEMMA ReturnKeepsInvariant ==
    ASSUME WorkerInv, cur # Null, NEW a \in Reply, Return(a),
           UNCHANGED <<guestVars, streamVars>>, phase # "write",
           a.as = "complete" /\ pump[cur] # "none" => pump[cur] = "over" /\ cur \notin lost
    PROVE  WorkerInv'
<1> USE NullAssumption
<1>1. cur \in Requests /\ a # Null
  BY DEF WorkerInv, WorkerTypeOK
<1>2. answer' = [answer EXCEPT ![cur] = a] /\ answer \in [Requests -> Reply \cup {Null}]
  BY DEF Return, WorkerInv, WorkerTypeOK
<1>3. WorkerTypeOK'
  <2>1. answer' \in [Requests -> Reply \cup {Null}]
    BY <1>1, <1>2
  <2>2. cur' = Null /\ phase' = "idle" /\ ctxDone' = FALSE /\ ops' = {} /\ sink' = Null
    BY DEF Return
  <2>3. UNCHANGED <<result, wait, pump, gen, streamGen, written, lost>>
    BY DEF guestVars, streamVars
  <2> QED BY <2>1, <2>2, <2>3 DEF WorkerInv, WorkerTypeOK, Phases
<1>4. GenInv'
  BY DEF WorkerInv, GenInv, Return, guestVars, streamVars
<1>5. PumpInv'
  BY <1>1, <1>2 DEF WorkerInv, WorkerTypeOK, GenInv, PumpInv, Return,
       guestVars, streamVars
<1>6. StreamsNeverMix' /\ NothingLeftBehind'
  BY DEF WorkerInv, StreamsNeverMix, NothingLeftBehind, Return,
       guestVars, streamVars
<1>7. CleanEndIsWhole'
  BY <1>1, <1>2 DEF WorkerInv, WorkerTypeOK, PumpInv, CleanEndIsWhole,
       Return, guestVars, streamVars
<1> QED BY <1>3, <1>4, <1>5, <1>6, <1>7 DEF WorkerInv

\* The invariant only speaks of these variables, so a step that leaves them
\* alone, and keeps the types, keeps it.
LEMMA GuestStepKeepsInvariant ==
    ASSUME WorkerInv, WorkerTypeOK',
           UNCHANGED <<cur, phase, streamVars, sink, answer>>,
           phase \in {"idle", "body"} => ops' = {},
           phase = "reply" => result' # Null
    PROVE  WorkerInv'
<1> USE DEF streamVars
<1>1. GenInv' /\ PumpInv'
  BY DEF WorkerInv, GenInv, PumpInv
<1>2. StreamsNeverMix' /\ CleanEndIsWhole' /\ NothingLeftBehind'
  BY DEF WorkerInv, StreamsNeverMix, CleanEndIsWhole, NothingLeftBehind
<1> QED BY <1>1, <1>2 DEF WorkerInv

\* A pump that is over, with or without failing, and the sink it may flag.
LEMMA PumpOverKeepsInvariant ==
    ASSUME WorkerInv, NEW r \in Requests,
           \/ LoopRuns /\ pump[r] = "reading" /\ phase' = phase
           \/ phase = "write" /\ pump[r] = "writing" /\ phase' = "stream",
           pump' = [pump EXCEPT ![r] = "over"],
           NEW f \in BOOLEAN,
           sink' = IF Accepts(r) THEN [sink EXCEPT !.done = TRUE, !.failed = f] ELSE sink,
           lost' = lost \/ (f /\ lost' = lost \cup {r}),
           UNCHANGED <<cur, ctxDone, guestVars, ops, gen, streamGen, written, answer>>
    PROVE  WorkerInv'
<1> USE NullAssumption
<1>0. /\ pump \in [Requests -> {"none", "reading", "writing", "over"}] /\ sink \in Sink \cup {Null}
      /\ gen \in [Requests -> Nat] /\ streamGen \in Nat /\ lost \subseteq Requests
      /\ answer \in [Requests -> Reply \cup {Null}]
  BY DEF WorkerInv, WorkerTypeOK
<1>1. Accepts(r) => sink \in Sink /\ r = cur /\ sink.rw = cur
                    /\ sink' \in Sink /\ sink'.done /\ sink'.rw = sink.rw /\ sink'.failed = f
  BY <1>0 DEF Accepts, Sink, WorkerInv, GenInv
<1>2. ~Accepts(r) => r # cur /\ sink' = sink
  BY <1>0 DEF Accepts, WorkerInv, GenInv, LoopRuns, PumpInv
<1>3. WorkerTypeOK'
  BY <1>0, <1>1, <1>2 DEF WorkerInv, WorkerTypeOK, guestVars, Phases, LoopRuns
<1>4. GenInv'
  BY <1>0, <1>1, <1>2 DEF WorkerInv, GenInv
<1>5. PumpInv'
  BY <1>0, <1>1, <1>2 DEF WorkerInv, PumpInv, GenInv, LoopRuns
<1>6. StreamsNeverMix' /\ NothingLeftBehind'
  BY DEF WorkerInv, StreamsNeverMix, NothingLeftBehind, LoopRuns
<1>7. CleanEndIsWhole'
  BY <1>0, <1>5 DEF WorkerInv, CleanEndIsWhole, PumpInv
<1> QED BY <1>3, <1>4, <1>5, <1>6, <1>7 DEF WorkerInv

\* Every step of serve before the handler runs, and of the guest's code.
LEMMA ServeStepsKeepInvariant ==
    ASSUME WorkerInv,
           \/ \E r \in Requests : Serve(r)
           \/ ContextEnds
           \/ Run
           \/ \E r \in Requests : Execute(r)
    PROVE  WorkerInv'
<1> USE NullAssumption
<1>1. ASSUME NEW r \in Requests, Serve(r) PROVE WorkerInv'
  <2>1. pump[r] = "none" /\ sink = Null /\ cur = Null
    BY <1>1 DEF Serve, WorkerInv, WorkerTypeOK, GenInv, PumpInv
  <2>2. /\ WorkerTypeOK' /\ StreamsNeverMix'
        /\ CleanEndIsWhole' /\ NothingLeftBehind'
    BY <1>1 DEF Serve, WorkerInv, WorkerTypeOK, StreamsNeverMix,
         CleanEndIsWhole, NothingLeftBehind, guestVars, streamVars, Phases
  <2>3. GenInv'
    BY <1>1, <2>1 DEF Serve, WorkerInv, GenInv, streamVars
  <2>4. PumpInv'
    BY <1>1, <2>1 DEF Serve, WorkerInv, PumpInv, streamVars
  <2> QED BY <2>2, <2>3, <2>4 DEF WorkerInv
<1>2. ASSUME ContextEnds PROVE WorkerInv'
  <2>1. WorkerTypeOK'
    BY <1>2 DEF ContextEnds, WorkerInv, WorkerTypeOK, guestVars, streamVars
  <2> QED BY <1>2, <2>1, GuestStepKeepsInvariant DEF ContextEnds, WorkerInv,
       NothingLeftBehind, PumpInv, guestVars
<1>3. ASSUME Run PROVE WorkerInv'
  <2>1. /\ WorkerTypeOK' /\ StreamsNeverMix'
        /\ CleanEndIsWhole' /\ NothingLeftBehind'
    BY <1>3 DEF Run, WorkerInv, WorkerTypeOK, StreamsNeverMix,
         CleanEndIsWhole, NothingLeftBehind, streamVars, Phases
  <2>2. GenInv' /\ PumpInv'
    BY <1>3 DEF Run, WorkerInv, GenInv, PumpInv, streamVars
  <2> QED BY <2>1, <2>2 DEF WorkerInv
<1>4. ASSUME NEW r \in Requests, Execute(r) PROVE WorkerInv'
  <2>1. WorkerTypeOK'
    <3>1. PICK woken \in SUBSET {s \in Requests \ {r} : wait[s] = "shared"},
               next \in {"op", "shared", "over"} :
             /\ wait' = [s \in Requests |-> IF s = r THEN next
                                      ELSE IF s \in woken THEN "ready" ELSE wait[s]]
             /\ ops' = IF next = "op" THEN ops \cup {r} ELSE ops \ {r}
             /\ IF next = "over"
                THEN \E k \in {"buffered", "stream", "error"} : result' = [by |-> r, kind |-> k]
                ELSE UNCHANGED result
      BY <1>4 DEF Execute
    <3>2. wait' \in [Requests -> {"none", "ready", "op", "shared", "over"}]
          /\ ops' \subseteq Requests
      BY <3>1 DEF WorkerInv, WorkerTypeOK
    <3>3. result' \in Result \cup {Null}
      BY <3>1 DEF WorkerInv, WorkerTypeOK, Result
    <3> QED BY <1>4, <3>2, <3>3 DEF Execute, WorkerInv, WorkerTypeOK, streamVars
  <2>2. phase \notin {"idle", "body", "reply"}
    BY <1>4 DEF Execute, LoopRuns
  <2> QED BY <1>4, <2>1, <2>2, GuestStepKeepsInvariant DEF Execute
<1> QED BY <1>1, <1>2, <1>3, <1>4

\* Every way out of serve and serveStreamingBody.
LEMMA ReturnsKeepInvariant ==
    ASSUME WorkerInv,
           \/ RequestFails \/ RunGivesUp \/ Settle \/ Respond
           \/ StreamDone \/ StreamAbort
    PROVE  WorkerInv'
<1> USE NullAssumption
<1>1. Failed \in Reply /\ Failed.as # "complete"
  BY DEF Failed, Reply
<1>2. phase # "idle" => cur # Null
  BY DEF WorkerInv, GenInv
<1>3. ASSUME RequestFails \/ RunGivesUp PROVE WorkerInv'
  BY <1>1, <1>2, <1>3, ReturnKeepsInvariant DEF RequestFails, RunGivesUp
<1>7. ASSUME Settle PROVE WorkerInv'
  <2>1. CASE Return(Failed)
    BY <1>1, <1>2, <1>7, <2>1, ReturnKeepsInvariant DEF Settle
  <2>2. CASE phase' = "reply" /\ UNCHANGED <<cur, ctxDone, ops, sink, answer>>
    <3>1. /\ UNCHANGED <<cur, ctxDone, ops, sink, answer, guestVars, streamVars>>
          /\ phase = "run" /\ result # Null /\ phase' = "reply"
      BY <1>7, <2>2 DEF Settle
    <3>2. WorkerTypeOK'
      BY <3>1 DEF WorkerInv, WorkerTypeOK, guestVars, streamVars, Phases
    <3>3. GenInv' /\ PumpInv'
      BY <3>1 DEF WorkerInv, GenInv, PumpInv, guestVars, streamVars
    <3>4. StreamsNeverMix' /\ CleanEndIsWhole' /\ NothingLeftBehind'
      BY <3>1 DEF WorkerInv, StreamsNeverMix, CleanEndIsWhole, NothingLeftBehind, streamVars
    <3> QED BY <3>2, <3>3, <3>4 DEF WorkerInv
  <2> QED BY <1>7, <2>1, <2>2 DEF Settle
<1>4. ASSUME Respond PROVE WorkerInv'
  <2> DEFINE a == [by |-> result.by, as |-> "complete"]
  <2>1. phase = "reply" /\ result # Null /\ cur # Null /\ pump[cur] = "none"
        /\ UNCHANGED <<guestVars, streamVars>>
    BY <1>2, <1>4 DEF Respond, WorkerInv, PumpInv
  <2>2. a \in Reply
    BY <2>1 DEF WorkerInv, WorkerTypeOK, Result, Reply
  <2>3. Return(a) \/ Return(Failed)
    BY <1>4 DEF Respond
  <2> QED BY <1>1, <2>1, <2>2, <2>3, ReturnKeepsInvariant
<1>5. ASSUME StreamDone PROVE WorkerInv'
  <2> DEFINE a == [by |-> sink.by, as |-> "complete"]
  <2>1. cur # Null /\ sink # Null /\ phase # "write" /\ Return(a)
        /\ UNCHANGED <<guestVars, streamVars>>
    BY <1>2, <1>5 DEF StreamDone, WorkerInv, GenInv
  <2>2. a \in Reply
    BY <2>1 DEF WorkerInv, WorkerTypeOK, Sink, Reply
  <2>3. pump[cur] = "over" /\ cur \notin lost
    BY <1>5, <2>1 DEF StreamDone, WorkerInv, PumpInv
  <2> QED BY <2>1, <2>2, <2>3, ReturnKeepsInvariant
<1>6. ASSUME StreamAbort PROVE WorkerInv'
  <2> DEFINE a == [by |-> sink.by, as |-> "aborted"]
  <2>1. cur # Null /\ sink # Null /\ phase # "write" /\ Return(a)
        /\ UNCHANGED <<guestVars, streamVars>>
    BY <1>2, <1>6 DEF StreamAbort, WorkerInv, GenInv
  <2>2. a \in Reply /\ a.as # "complete"
    BY <2>1 DEF WorkerInv, WorkerTypeOK, Sink, Reply
  <2> QED BY <2>1, <2>2, ReturnKeepsInvariant
<1> QED BY <1>3, <1>4, <1>5, <1>6, <1>7

\* A new stream gets a generation no pump has.
LEMMA StreamStartKeepsInvariant ==
    ASSUME WorkerInv, StreamStart
    PROVE  WorkerInv'
<1> USE NullAssumption
<1>1. /\ cur \in Requests /\ phase = "reply" /\ sink = Null /\ result # Null /\ pump[cur] = "none" /\ cur \notin lost
      /\ answer[cur] = Null
  BY DEF StreamStart, WorkerInv, WorkerTypeOK, GenInv, PumpInv
<1>2. sink' \in Sink /\ sink'.rw = cur /\ ~sink'.done /\ ~sink'.failed
  BY <1>1 DEF StreamStart, WorkerInv, WorkerTypeOK, Sink, Result
<1>3. WorkerTypeOK'
  BY <1>1, <1>2 DEF StreamStart, WorkerInv, WorkerTypeOK, guestVars, Phases
<1>4. GenInv'
  <2>1. /\ gen \in [Requests -> Nat] /\ streamGen \in Nat
        /\ pump \in [Requests -> {"none", "reading", "writing", "over"}]
    BY DEF WorkerInv, WorkerTypeOK
  <2>2. /\ gen' = [gen EXCEPT ![cur] = streamGen + 1] /\ streamGen' = streamGen + 1
        /\ pump' = [pump EXCEPT ![cur] = "reading"] /\ phase' = "stream" /\ cur' = cur
    BY DEF StreamStart
  <2>3. \A r \in Requests : gen[r] < streamGen + 1 /\ (pump[r] = "none" <=> gen[r] = 0)
    <3> SUFFICES ASSUME NEW r \in Requests
                 PROVE  gen[r] < streamGen + 1 /\ (pump[r] = "none" <=> gen[r] = 0)
      OBVIOUS
    <3>1. gen[r] <= streamGen
      BY DEF WorkerInv, GenInv
    <3>2. pump[r] = "none" <=> gen[r] = 0
      BY DEF WorkerInv, GenInv
    <3>3. gen[r] \in Nat
      BY <2>1
    <3>4. gen[r] < streamGen + 1
      BY <2>1, <3>1, <3>3
    <3> QED BY <3>2, <3>4
  <2>4. \A r \in Requests : gen'[r] <= streamGen' /\ (pump'[r] = "none" <=> gen'[r] = 0)
    BY <1>1, <2>1, <2>2, <2>3
  <2>5. \A r, s \in Requests : gen'[r] = gen'[s] /\ gen'[r] # 0 => r = s
    BY <1>1, <2>1, <2>2, <2>3 DEF WorkerInv, GenInv
  <2>6. sink' # Null /\ cur' # Null /\ sink'.rw = cur' /\ gen'[cur'] = streamGen'
    BY <1>1, <1>2, <2>1, <2>2
  <2> QED BY <2>2, <2>4, <2>5, <2>6 DEF GenInv
<1>5. PumpInv'
  <2>1. pump \in [Requests -> {"none", "reading", "writing", "over"}]
    BY DEF WorkerInv, WorkerTypeOK
  <2> QED BY <1>1, <1>2, <2>1 DEF StreamStart, WorkerInv, PumpInv
<1>6. StreamsNeverMix' /\ NothingLeftBehind'
  BY DEF StreamStart, WorkerInv, StreamsNeverMix, NothingLeftBehind
<1>7. CleanEndIsWhole'
  BY <1>1 DEF StreamStart, WorkerInv, WorkerTypeOK, CleanEndIsWhole
<1> QED BY <1>3, <1>4, <1>5, <1>6, <1>7 DEF WorkerInv

\* A pump's step: a write reaches the sink only from the sink's own pump.
LEMMA PumpStepsKeepInvariant ==
    ASSUME WorkerInv, NEW r \in Requests,
           \/ PumpChunk(r) \/ PumpEof(r) \/ PumpError(r)
           \/ WriteDone(r) \/ WriteFails(r)
    PROVE  WorkerInv'
<1> USE NullAssumption
<1>1. CASE PumpEof(r)
  <2>1. Accepts(r) => sink \in Sink /\ ~sink.failed
    BY <1>1 DEF PumpEof, Accepts, WorkerInv, WorkerTypeOK, GenInv,
         PumpInv
  <2>2. Accepts(r) =>
          [sink EXCEPT !.done = TRUE] = [sink EXCEPT !.done = TRUE, !.failed = FALSE]
    BY <2>1 DEF Sink
  <2>3. sink' = IF Accepts(r) THEN [sink EXCEPT !.done = TRUE, !.failed = FALSE] ELSE sink
    BY <1>1, <2>2 DEF PumpEof
  <2> QED BY <1>1, <2>3, PumpOverKeepsInvariant DEF PumpEof
<1>2. CASE PumpError(r)
  BY <1>2, PumpOverKeepsInvariant DEF PumpError, PumpThrows
<1>3. CASE PumpChunk(r) /\ ~Accepts(r)
  <2>1. /\ UNCHANGED <<cur, phase, ctxDone, guestVars, ops, gen, streamGen, written, answer>>
        /\ LoopRuns /\ pump[r] = "reading" /\ lost' = lost \cup {r} /\ PumpThrows(r)
    BY <1>3 DEF PumpChunk
  <2> QED BY <2>1, PumpOverKeepsInvariant DEF PumpThrows
<1>4. CASE WriteFails(r)
  <2>1. /\ UNCHANGED <<cur, ctxDone, guestVars, ops, gen, streamGen, written, answer>>
        /\ phase = "write" /\ pump[r] = "writing" /\ phase' = "stream"
        /\ lost' = lost \cup {r} /\ PumpThrows(r)
    BY <1>4 DEF WriteFails
  <2> QED BY <2>1, PumpOverKeepsInvariant DEF PumpThrows
<1>5. CASE PumpChunk(r) /\ Accepts(r)
  <2>1. /\ UNCHANGED <<cur, ctxDone, guestVars, ops, gen, streamGen, sink, lost, written,
                       answer>>
        /\ LoopRuns /\ pump[r] = "reading" /\ pump' = [pump EXCEPT ![r] = "writing"]
        /\ phase' = "write" /\ sink # Null /\ gen[r] = streamGen
    BY <1>5 DEF PumpChunk, Accepts
  <2>2. r = cur /\ phase = "stream"
    BY <2>1 DEF LoopRuns, WorkerInv, WorkerTypeOK, GenInv, PumpInv
  <2>3. WorkerTypeOK'
    BY <2>1 DEF WorkerInv, WorkerTypeOK, guestVars, Phases
  <2>4. GenInv'
    BY <2>1, <2>2 DEF WorkerInv, WorkerTypeOK, GenInv
  <2>5. PumpInv'
    BY <2>1, <2>2 DEF WorkerInv, WorkerTypeOK, GenInv, PumpInv
  <2>6. StreamsNeverMix' /\ NothingLeftBehind'
    BY <2>1, <2>2 DEF WorkerInv, StreamsNeverMix, NothingLeftBehind
  <2>7. CleanEndIsWhole'
    BY <2>1, <2>2 DEF WorkerInv, WorkerTypeOK, CleanEndIsWhole
  <2> QED BY <2>3, <2>4, <2>5, <2>6, <2>7 DEF WorkerInv
<1>6. CASE WriteDone(r)
  <2>1. /\ UNCHANGED <<cur, ctxDone, guestVars, ops, gen, streamGen, sink, lost, answer>>
        /\ phase = "write" /\ pump[r] = "writing" /\ phase' = "stream"
        /\ pump' = [pump EXCEPT ![r] = "reading"]
        /\ written' = [written EXCEPT ![sink.rw] = @ \cup {r}]
    BY <1>6 DEF WriteDone
  <2>2. r = cur /\ sink # Null /\ sink.rw = r /\ r \notin lost /\ answer[r] = Null
    BY <2>1 DEF WorkerInv, WorkerTypeOK, GenInv, PumpInv
  <2>3. written' \in [Requests -> SUBSET Requests] /\ \A s \in Requests : written'[s] \subseteq {s}
    BY <2>1, <2>2 DEF WorkerInv, WorkerTypeOK, StreamsNeverMix
  <2>4. WorkerTypeOK' /\ StreamsNeverMix'
    BY <2>1, <2>3 DEF WorkerInv, WorkerTypeOK, StreamsNeverMix, guestVars, Phases
  <2>5. GenInv'
    BY <2>1, <2>2 DEF WorkerInv, WorkerTypeOK, GenInv
  <2>6. PumpInv'
    BY <2>1, <2>2 DEF WorkerInv, WorkerTypeOK, GenInv, PumpInv
  <2>7. CleanEndIsWhole' /\ NothingLeftBehind'
    BY <2>1, <2>2 DEF WorkerInv, WorkerTypeOK, CleanEndIsWhole, NothingLeftBehind
  <2> QED BY <2>4, <2>5, <2>6, <2>7 DEF WorkerInv
<1> QED BY <1>1, <1>2, <1>3, <1>4, <1>5, <1>6

\* Every step keeps the invariant.
LEMMA NextInvariant == WorkerInv /\ [WorkerNext]_workerVars => WorkerInv'
<1> SUFFICES ASSUME WorkerInv, [WorkerNext]_workerVars PROVE WorkerInv'
  OBVIOUS
<1>1. CASE UNCHANGED workerVars
  BY <1>1 DEF workerVars, WorkerInv, WorkerTypeOK, GenInv, PumpInv,
       StreamsNeverMix, CleanEndIsWhole, NothingLeftBehind
<1>2. CASE WorkerNext
  BY <1>1, <1>2, ServeStepsKeepInvariant, ReturnsKeepInvariant, StreamStartKeepsInvariant,
     PumpStepsKeepInvariant DEF WorkerNext, WorkerQuiescent
<1> QED BY <1>1, <1>2

\* The inductive invariant holds in every reachable state of the instance.
THEOREM WorkerInductiveInvariant == WorkerSpec => []WorkerInv
  BY InitInvariant, NextInvariant, PTL DEF WorkerSpec

\* Every variable of the instance keeps its type.
THEOREM WorkerTypeCorrect == WorkerSpec => []WorkerTypeOK
<1>1. WorkerInv => WorkerTypeOK
  BY DEF WorkerInv
<1> QED BY <1>1, WorkerInductiveInvariant, PTL

\* A pump left over by an earlier request never writes into a later response.
THEOREM StreamsStaySeparate == WorkerSpec => []StreamsNeverMix
<1>1. WorkerInv => StreamsNeverMix
  BY DEF WorkerInv
<1> QED BY <1>1, WorkerInductiveInvariant, PTL

\* A streamed response whose pump lost a chunk never ends cleanly.
THEOREM TruncationIsVisible == WorkerSpec => []CleanEndIsWhole
<1>1. WorkerInv => CleanEndIsWhole
  BY DEF WorkerInv
<1> QED BY <1>1, WorkerInductiveInvariant, PTL

\* Whichever way a request ends, the loop and the sink are clean for the next.
THEOREM InstanceIsReset == WorkerSpec => []NothingLeftBehind
<1>1. WorkerInv => NothingLeftBehind
  BY DEF WorkerInv
<1> QED BY <1>1, WorkerInductiveInvariant, PTL
=============================================================================
