-------------------------- MODULE OrgSettingsProofs --------------------------
(***************************************************************************)
(* Machine-checked proofs about OrgSettings, for any sets of callers,      *)
(* users, hosts and policies and any bound on the generations.             *)
(***************************************************************************)
EXTENDS OrgSettings, TLAPS

(***************************************************************************)
(* The inductive invariant, in parts.                                      *)
(***************************************************************************)

\* An owner whose functions a resolver may meet: the workspaces that were
\* created, also those deleted since, and the user.
Known(o) == o = User \/ (o \in Creates /\ pc[o] = "created")

\* Where each kind of call may be.
PlaceInv ==
    /\ \A a \in OrgPatches : pc[a] \in {"idle", "guard", "write"}
    /\ \A b \in WsPatches : pc[b] \in {"idle", "write"}
    /\ \A c \in Creates : pc[c] \in {"idle", "insert", "created"}
    /\ \A x \in WsDeletes : pc[x] \in {"idle", "members", "row"}
    /\ \A m \in MemberEdits : pc[m] \in {"idle", "write"}
    /\ \A d \in Deploys : pc[d] \in {"idle", "resolve", "create"}
    /\ \A r \in Resolvers : pc[r] \in {"idle", "done"} \cup Resolving

\* What a call has read before it uses it.
LocalInv ==
    /\ \A a \in OrgPatches : pc[a] # "idle" =>
          loc[a].new \in OrgRow /\ loc[a].new.gen = loc[a].old.gen + 1
    /\ \A b \in WsPatches : pc[b] = "write" =>
          /\ Known(loc[b].w) /\ loc[b].w # User
          /\ loc[b].new \in WsRow /\ loc[b].new.gen = loc[b].old.gen + 1
    /\ \A x \in WsDeletes : pc[x] # "idle" => loc[x].w \in Creates
    /\ \A m \in MemberEdits : pc[m] = "write" =>
          /\ loc[m].w \in Creates /\ loc[m].u \in Users
          /\ loc[m].to \in {"admin", "member", None}
    /\ \A d \in Deploys : pc[d] = "create" => Known(loc[d].w) /\ loc[d].w # User
    /\ \A r \in Resolvers : pc[r] \in Resolving =>
          /\ Known(loc[r].owner)
          /\ pc[r] = "ws" => loc[r].owner # User
          /\ loc[r].gens[1] \in 1..MaxGen /\ loc[r].gens[2] \in 0..MaxGen
          /\ loc[r].levels \subseteq Settings

\* Only workspaces that were created have a row or own a function.
KnownInv ==
    /\ \A w \in Creates : ws[w] # None => Known(w)
    /\ \A w \in owned : Known(w)

\* A resolver may go by all policies under the generations it has read, and
\* by those under the workspace's generation, which it may still read.
SeenInv ==
    \A r \in Resolvers : pc[r] \in Resolving =>
        LET o == loc[r].owner IN
        /\ orgPast.under[loc[r].gens[1]] \subseteq seen[r].org
        /\ o # User =>
              /\ ws[o] # None => wsPast[o].under[ws[o].gen] \subseteq seen[r].ws
              /\ pc[r] # "ws" => wsPast[o].under[loc[r].gens[2]] \subseteq seen[r].ws

IInv ==
    /\ TypeOK
    /\ PlaceInv
    /\ LocalInv
    /\ KnownInv
    /\ SeenInv
    /\ MembersHaveWorkspace


-----------------------------------------------------------------------------
(***************************************************************************)
(* Lemmas about the policies and the rows.                                 *)
(***************************************************************************)

\* Every policy in the system is a FetchPolicy.
LEMMA SettingsArePolicies ==
    Settings \subseteq FetchPolicy /\ {DenyAll, AllowAll} \subseteq FetchPolicy
BY PoliciesAssumption DEF Settings, FetchPolicy, DenyAll, AllowAll

\* The narrowest level exists, and its mode is the least.
LEMMA NarrowestExists ==
    ASSUME NEW levels \in SUBSET FetchPolicy, levels # {}
    PROVE  \E l \in levels : \A k \in levels : Rank(l.mode) <= Rank(k.mode)
<1>1. CASE \E l \in levels : l.mode = "deny"
  BY <1>1 DEF FetchPolicy, Rank
<1>2. CASE (\A l \in levels : l.mode # "deny") /\ \E l \in levels : l.mode = "allowlist"
  BY <1>2 DEF FetchPolicy, Rank
<1>3. CASE \A l \in levels : l.mode \notin {"deny", "allowlist"}
  BY <1>3 DEF FetchPolicy, Rank
<1> QED BY <1>1, <1>2, <1>3

\* policy.Effective decides a host as all levels together do: none of them is
\* widened and none is forgotten.
LEMMA EffectiveIsExact ==
    ASSUME NEW levels \in SUBSET FetchPolicy, levels # {}, NEW h
    PROVE  Decision(Effective(levels), h) <=> \A p \in levels : Permits(p, h)
<1> DEFINE n == CHOOSE l \in levels : \A k \in levels : Rank(l.mode) <= Rank(k.mode)
<1>1. n \in levels /\ \A k \in levels : Rank(n.mode) <= Rank(k.mode)
  BY NarrowestExists
<1>2. Effective(levels) =
        [mode |-> n.mode,
         levels |-> IF n.mode = "allowlist" THEN {l \in levels : l.mode = "allowlist"} ELSE {}]
  BY DEF Effective
<1> HIDE DEF n
<1>3. \A p \in levels : p.mode \in {"deny", "allowlist", "allow-all"}
  BY DEF FetchPolicy
<1>4. CASE n.mode = "deny"
  BY <1>1, <1>2, <1>4 DEF Decision, Permits
<1>5. CASE n.mode = "allow-all"
  <2>1. \A p \in levels : p.mode = "allow-all"
    BY <1>1, <1>3, <1>5 DEF Rank
  <2> QED BY <1>2, <1>5, <2>1 DEF Decision, Permits
<1>6. CASE n.mode = "allowlist"
  <2>1. \A p \in levels : p.mode \in {"allowlist", "allow-all"}
    BY <1>1, <1>3, <1>6 DEF Rank
  <2> QED BY <1>2, <1>6, <2>1 DEF Decision, Permits
<1> QED BY <1>1, <1>3, <1>4, <1>5, <1>6

\* It is an EffectivePolicy.
LEMMA EffectiveTyped ==
    ASSUME NEW levels \in SUBSET Settings
    PROVE  Effective(levels) \in EffectivePolicy
<1>1. CASE levels = {}
  BY <1>1 DEF Effective, EffectivePolicy
<1>2. CASE levels # {}
  <2> DEFINE n == CHOOSE l \in levels : \A k \in levels : Rank(l.mode) <= Rank(k.mode)
  <2>1. n \in levels
    BY <1>2, NarrowestExists, SettingsArePolicies
  <2>2. Effective(levels) =
          [mode |-> n.mode,
           levels |-> IF n.mode = "allowlist" THEN {l \in levels : l.mode = "allowlist"} ELSE {}]
    BY <1>2 DEF Effective
  <2> HIDE DEF n
  <2>3. n.mode \in {"deny", "allowlist", "allow-all"}
    BY <2>1, SettingsArePolicies DEF FetchPolicy
  <2> QED BY <2>2, <2>3 DEF EffectivePolicy
<1> QED BY <1>1, <1>2

\* Denying everything permits nothing.
LEMMA FailsClosed ==
    ASSUME NEW h
    PROVE  Effective({DenyAll}) \in EffectivePolicy /\ ~Decision(Effective({DenyAll}), h)
<1>1. {DenyAll} \in SUBSET FetchPolicy /\ {DenyAll} \in SUBSET Settings
  BY SettingsArePolicies DEF Settings
<1>2. ~Permits(DenyAll, h)
  BY DEF Permits, DenyAll
<1> QED BY <1>1, <1>2, EffectiveIsExact, EffectiveTyped

\* A row of the workspaces table is not None.
LEMMA WsRowIsARow == \A row \in WsRow : row # None
BY NoneNotARow, MaxGenAssumption, SettingsArePolicies, PoliciesAssumption DEF WsRow

\* What a row has held, once another is stored over it.
LEMMA RememberTyped ==
    ASSUME NEW past \in Past, NEW lost \in BOOLEAN, NEW row,
           row.gen \in 0..MaxGen, row.fetch \in Settings
    PROVE  Remember(past, lost, row) \in Past
BY DEF Past, Remember

LEMMA RememberHolds ==
    ASSUME NEW past \in Past, NEW lost \in BOOLEAN, NEW row, row.gen \in 0..MaxGen, NEW new,
           new = Remember(past, lost, row)
    PROVE  /\ new.lost <=> past.lost \/ lost
           /\ row.fetch \in new.under[row.gen]
           /\ ~new.lost => new.under[row.gen] = {row.fetch}
           /\ new.lost => past.under[row.gen] \subseteq new.under[row.gen]
           /\ \A g \in 0..MaxGen \ {row.gen} : new.under[g] = past.under[g]
BY DEF Past, Remember

\* A call that is over is where it may be, and the others are where they were.
LEMMA OverKeeps ==
    ASSUME IInv, NEW c \in Calls, NEW to \in {"idle", "done"}, NEW l, Step(c, to, l),
           to = "done" => c \in Resolvers, pc[c] # "created"
    PROVE  PlaceInv' /\ LocalInv'
<1>1. pc'[c] = to /\ \A d \in Calls \ {c} : pc'[d] = pc[d] /\ loc'[d] = loc[d]
  BY DEF Step, IInv, TypeOK
<1>2. PlaceInv'
  BY <1>1, CallsAssumption DEF IInv, PlaceInv, Calls
<1>3. ASSUME NEW o, Known(o) PROVE Known(o)'
  BY <1>1, <1>3 DEF Known, Calls
<1>4. LocalInv'
  <2>1. \A d \in Calls : pc'[d] \notin {"idle", "done"} => pc'[d] = pc[d] /\ loc'[d] = loc[d]
    BY <1>1
  <2>2. c \in OrgPatches => pc'[c] = "idle"
    BY <1>1, CallsAssumption
  <2>3. c \in WsDeletes => pc'[c] = "idle"
    BY <1>1, CallsAssumption
  <2>4. /\ \A a \in OrgPatches : pc'[a] # "idle" => pc[a] # "idle" /\ loc'[a] = loc[a]
        /\ \A b \in WsPatches : pc'[b] = "write" => pc[b] = "write" /\ loc'[b] = loc[b]
        /\ \A x \in WsDeletes : pc'[x] # "idle" => pc[x] # "idle" /\ loc'[x] = loc[x]
        /\ \A m \in MemberEdits : pc'[m] = "write" => pc[m] = "write" /\ loc'[m] = loc[m]
        /\ \A d \in Deploys : pc'[d] = "create" => pc[d] = "create" /\ loc'[d] = loc[d]
        /\ \A r \in Resolvers : pc'[r] \in Resolving => pc'[r] = pc[r] /\ loc'[r] = loc[r]
    BY <1>1, <2>1, <2>2, <2>3 DEF Calls, Resolving
  <2> QED BY <1>3, <2>4 DEF IInv, LocalInv
<1> QED BY <1>2, <1>4

\* Resolvers that stay where they are know what they knew.
LEMMA SeenStays ==
    ASSUME SeenInv, UNCHANGED <<rows, seen>>,
           \A r \in Resolvers : pc'[r] = pc[r] /\ loc'[r] = loc[r]
    PROVE  SeenInv'
BY DEF SeenInv, rows

-----------------------------------------------------------------------------
(***************************************************************************)
(* Every action keeps the invariant.                                       *)
(***************************************************************************)

LEMMA OrgPatchReadKeeps ==
    ASSUME IInv, NEW a \in OrgPatches, OrgPatchRead(a)
    PROVE  IInv'
<1>1. TypeOK'
  BY CallsAssumption DEF OrgPatchRead, Step, Merge, IInv, TypeOK, Calls, rows, PlaceInv, LocalInv
<1>2. PlaceInv'
  BY CallsAssumption DEF OrgPatchRead, Step, Merge, IInv, TypeOK, PlaceInv, Calls, rows, Resolving
<1>3. LocalInv'
  <2>1. PICK f \in Policies \cup {None}, o \in BOOLEAN \cup {None}, to \in {"guard", "write"} :
          Step(a, to, [old |-> org, new |-> [fetch |-> Merge(f, org.fetch), open |-> Merge(o, org.open),
                                             gen |-> org.gen + 1]])
    BY DEF OrgPatchRead
  <2>2. [fetch |-> Merge(f, org.fetch), open |-> Merge(o, org.open), gen |-> org.gen + 1] \in OrgRow
    BY MaxGenAssumption DEF OrgPatchRead, Merge, IInv, TypeOK, OrgRow
  <2> QED BY <2>1, <2>2, CallsAssumption DEF Step, IInv, TypeOK, PlaceInv, LocalInv, Known,
           Calls, Resolving
<1>4. KnownInv'
  BY CallsAssumption DEF OrgPatchRead, Step, Merge, IInv, TypeOK, PlaceInv, LocalInv, KnownInv,
       Known,
       Calls, rows
<1>5. SeenInv'
  <2>1. \A r \in Resolvers : pc'[r] = pc[r] /\ loc'[r] = loc[r]
    BY CallsAssumption DEF OrgPatchRead, Step, IInv, TypeOK, Calls
  <2> QED BY <2>1, SeenStays DEF OrgPatchRead, IInv
<1>6. MembersHaveWorkspace'
  BY CallsAssumption DEF OrgPatchRead, Step, Merge, IInv, TypeOK, PlaceInv, LocalInv,
       MembersHaveWorkspace, NoMembers, rows
<1> QED BY <1>1, <1>2, <1>3, <1>4, <1>5, <1>6 DEF IInv

LEMMA OrgPatchGuardKeeps ==
    ASSUME IInv, NEW a \in OrgPatches, OrgPatchGuard(a)
    PROVE  IInv'
<1>1. TypeOK'
  BY CallsAssumption DEF OrgPatchGuard, Step, Done, IInv, TypeOK, Calls, rows, PlaceInv, LocalInv
<1>2. PlaceInv'
  <2>1. \/ pc' = [pc EXCEPT ![a] = "write"]
        \/ pc' = [pc EXCEPT ![a] = "idle"]
    BY DEF OrgPatchGuard, Step, Done
  <2> QED BY <2>1, CallsAssumption DEF IInv, TypeOK, PlaceInv, Calls
<1>3. LocalInv'
  <2>1. /\ pc[a] = "guard"
        /\ \/ pc' = [pc EXCEPT ![a] = "write"] /\ loc' = [loc EXCEPT ![a] = loc[a]]
           \/ pc' = [pc EXCEPT ![a] = "idle"]
    BY DEF OrgPatchGuard, Step, Done
  <2>2. pc'[a] # "idle" => pc[a] # "idle" /\ loc'[a] = loc[a]
    BY <2>1 DEF IInv, TypeOK, Calls
  <2>3. \A c \in Calls \ {a} : pc'[c] = pc[c] /\ loc'[c] = loc[c]
    BY DEF OrgPatchGuard, Done, Step, IInv, TypeOK
  <2> QED BY <2>2, <2>3, CallsAssumption DEF IInv, LocalInv, Known, Calls
<1>4. KnownInv'
  BY CallsAssumption DEF OrgPatchGuard, Step, Done, IInv, TypeOK, PlaceInv, LocalInv, KnownInv,
       Known,
       Calls, rows
<1>5. SeenInv'
  <2>1. \A r \in Resolvers : pc'[r] = pc[r] /\ loc'[r] = loc[r]
    BY CallsAssumption DEF OrgPatchGuard, Step, Done, IInv, TypeOK, Calls
  <2> QED BY <2>1, SeenStays DEF OrgPatchGuard, IInv
<1>6. MembersHaveWorkspace'
  BY CallsAssumption DEF OrgPatchGuard, Step, Done, IInv, TypeOK, PlaceInv, LocalInv,
       MembersHaveWorkspace, NoMembers, rows
<1> QED BY <1>1, <1>2, <1>3, <1>4, <1>5, <1>6 DEF IInv

LEMMA OrgPatchWriteKeeps ==
    ASSUME IInv, NEW a \in OrgPatches, OrgPatchWrite(a)
    PROVE  IInv'
<1>1. TypeOK'
  <2>1. loc[a].new \in OrgRow /\ loc[a].new.fetch \in Settings /\ loc[a].new.gen \in 0..MaxGen
    BY MaxGenAssumption DEF OrgPatchWrite, IInv, LocalInv, OrgRow, Settings
  <2>2. orgPast' \in Past
    BY <2>1, RememberTyped DEF OrgPatchWrite, IInv, TypeOK
  <2>3. orgPast'.under[org'.gen] \in SUBSET Settings
    BY <2>1, <2>2 DEF OrgPatchWrite, Past
  <2>4. seen' \in [Resolvers -> [org : SUBSET Settings, ws : SUBSET Settings]]
    BY <2>3 DEF OrgPatchWrite, SeeOrg, IInv, TypeOK
  <2> QED BY <2>1, <2>2, <2>4 DEF OrgPatchWrite, Step, Done, IInv, TypeOK, Calls
<1>2. PlaceInv' /\ LocalInv'
  <2>1. a \in Calls /\ pc[a] # "created" /\ Step(a, "idle", None)
    BY DEF OrgPatchWrite, Done, Calls
  <2> QED BY <2>1, OverKeeps
<1>3. KnownInv'
  BY CallsAssumption DEF OrgPatchWrite, SeeOrg, Step, Done, IInv, TypeOK, PlaceInv, LocalInv,
       KnownInv, Known,
       Calls, rows
<1>4. SeenInv'
  <2>1. /\ ws' = ws /\ wsPast' = wsPast
        /\ \A r \in Resolvers : pc'[r] = pc[r] /\ loc'[r] = loc[r]
    BY CallsAssumption DEF OrgPatchWrite, Done, Step, IInv, TypeOK, Calls
  <2>2. \A g \in 0..MaxGen \ {org'.gen} : orgPast'.under[g] = orgPast.under[g]
    BY DEF OrgPatchWrite, Remember, Past, IInv, TypeOK
  <2>3. \A r \in Resolvers : pc[r] \in Resolving =>
          /\ seen[r].org \subseteq seen'[r].org /\ seen[r].ws = seen'[r].ws
          /\ orgPast'.under[org'.gen] \subseteq seen'[r].org
    BY DEF OrgPatchWrite, SeeOrg, IInv, TypeOK
  <2>4. \A r \in Resolvers : pc[r] \in Resolving => loc[r].gens[1] \in 0..MaxGen
    BY MaxGenAssumption DEF IInv, LocalInv
  <2> QED BY <2>1, <2>2, <2>3, <2>4 DEF IInv, SeenInv
<1>5. MembersHaveWorkspace'
  BY CallsAssumption DEF OrgPatchWrite, SeeOrg, Step, Done, IInv, TypeOK, PlaceInv, LocalInv,
       MembersHaveWorkspace, NoMembers, rows
<1> QED BY <1>1, <1>2, <1>3, <1>4, <1>5 DEF IInv

LEMMA CreateCheckKeeps ==
    ASSUME IInv, NEW c \in Creates, CreateCheck(c)
    PROVE  IInv'
<1>1. TypeOK'
  BY CallsAssumption DEF CreateCheck, Step, IInv, TypeOK, Calls, rows, PlaceInv, LocalInv
<1>2. PlaceInv'
  BY CallsAssumption DEF CreateCheck, Step, IInv, TypeOK, PlaceInv, Calls, rows, Resolving
<1>3. LocalInv'
  BY CallsAssumption DEF CreateCheck, Step, IInv, TypeOK, PlaceInv, LocalInv, KnownInv, Known,
       Calls,
       rows, Resolving
<1>4. KnownInv'
  BY CallsAssumption DEF CreateCheck, Step, IInv, TypeOK, PlaceInv, LocalInv, KnownInv, Known,
       Calls,
       rows
<1>5. SeenInv'
  <2>1. \A r \in Resolvers : pc'[r] = pc[r] /\ loc'[r] = loc[r]
    BY CallsAssumption DEF CreateCheck, Step, IInv, TypeOK, Calls
  <2> QED BY <2>1, SeenStays DEF CreateCheck, IInv
<1>6. MembersHaveWorkspace'
  BY CallsAssumption DEF CreateCheck, Step, IInv, TypeOK, PlaceInv, LocalInv,
       MembersHaveWorkspace,
       NoMembers, rows
<1> QED BY <1>1, <1>2, <1>3, <1>4, <1>5, <1>6 DEF IInv

LEMMA CreateInsertKeeps ==
    ASSUME IInv, NEW c \in Creates, CreateInsert(c)
    PROVE  IInv'
<1>1. TypeOK'
  <2>1. [fetch |-> AllowAll, gen |-> 1] \in WsRow
    BY MaxGenAssumption DEF WsRow
  <2>2. ws' = [ws EXCEPT ![c] = [fetch |-> AllowAll, gen |-> 1]] /\ ws'[c] = [fetch |-> AllowAll, gen |-> 1]
    BY DEF CreateInsert, IInv, TypeOK
  <2>3. Remember(wsPast[c], FALSE, ws'[c]) \in Past
    BY <2>2, MaxGenAssumption DEF IInv, TypeOK, Settings, Remember, Past
  <2>4. wsPast' \in [Creates -> Past]
    BY <2>3 DEF CreateInsert, IInv, TypeOK
  <2>5. members' \in [Creates -> [Users -> {"admin", "member", None}]]
    BY DEF CreateInsert, IInv, TypeOK
  <2>6. ws' \in [Creates -> WsRow \cup {None}]
    BY <2>1, <2>2 DEF IInv, TypeOK
  <2> QED BY <2>4, <2>5, <2>6 DEF CreateInsert, Step, IInv, TypeOK, Calls
<1>2. PlaceInv'
  BY CallsAssumption DEF CreateInsert, Step, IInv, TypeOK, PlaceInv, Calls, rows, Resolving
<1>3. LocalInv'
  BY CallsAssumption DEF CreateInsert, Step, IInv, TypeOK, PlaceInv, LocalInv, KnownInv, Known,
       Calls,
       rows, Resolving
<1>4. KnownInv'
  BY CallsAssumption DEF CreateInsert, Step, IInv, TypeOK, PlaceInv, LocalInv, KnownInv, Known,
       Calls,
       rows
<1>5. SeenInv'
  <2>1. /\ orgPast' = orgPast /\ seen' = seen
        /\ \A w \in Creates \ {c} : ws'[w] = ws[w] /\ wsPast'[w] = wsPast[w]
        /\ \A r \in Resolvers : pc'[r] = pc[r] /\ loc'[r] = loc[r]
    BY CallsAssumption DEF CreateInsert, Step, IInv, TypeOK, Calls
  <2>2. \A r \in Resolvers : pc[r] \in Resolving =>
          loc[r].owner = User \/ loc[r].owner \in Creates \ {c}
    BY DEF CreateInsert, IInv, LocalInv, Known
  <2> QED BY <2>1, <2>2 DEF IInv, SeenInv
<1>6. MembersHaveWorkspace'
  <2>1. [fetch |-> AllowAll, gen |-> 1] # None
    BY WsRowIsARow, MaxGenAssumption DEF WsRow
  <2> QED BY <2>1 DEF CreateInsert, Step, IInv, TypeOK, MembersHaveWorkspace
<1> QED BY <1>1, <1>2, <1>3, <1>4, <1>5, <1>6 DEF IInv

LEMMA WsPatchReadKeeps ==
    ASSUME IInv, NEW b \in WsPatches, WsPatchRead(b)
    PROVE  IInv'
<1>1. TypeOK'
  BY CallsAssumption DEF WsPatchRead, Step, Merge, Existing, IInv, TypeOK, Calls, rows, PlaceInv,
       LocalInv
<1>2. PlaceInv'
  BY CallsAssumption DEF WsPatchRead, Step, Merge, Existing, IInv, TypeOK, PlaceInv, Calls, rows,
       Resolving
<1>3. LocalInv'
  <2>1. PICK w \in Existing, f \in Policies \cup {None} :
          /\ ws[w].gen < MaxGen
          /\ Step(b, "write", [w |-> w, old |-> ws[w],
                               new |-> [fetch |-> Merge(f, ws[w].fetch), gen |-> ws[w].gen + 1]])
    BY DEF WsPatchRead
  <2>2. [fetch |-> Merge(f, ws[w].fetch), gen |-> ws[w].gen + 1] \in WsRow
    BY <2>1, MaxGenAssumption DEF Existing, Merge, IInv, TypeOK, WsRow
  <2>3. w \in Creates /\ Known(w) /\ w # User
    BY NoneNotARow DEF Existing, IInv, KnownInv
  <2> QED BY <2>1, <2>2, <2>3, CallsAssumption DEF Step, IInv, TypeOK, PlaceInv, LocalInv,
           Known, Calls, Resolving
<1>4. KnownInv'
  BY CallsAssumption DEF WsPatchRead, Step, Merge, Existing, IInv, TypeOK, PlaceInv, LocalInv,
       KnownInv,
       Known, Calls, rows
<1>5. SeenInv'
  <2>1. \A r \in Resolvers : pc'[r] = pc[r] /\ loc'[r] = loc[r]
    BY CallsAssumption DEF WsPatchRead, Step, IInv, TypeOK, Calls
  <2> QED BY <2>1, SeenStays DEF WsPatchRead, IInv
<1>6. MembersHaveWorkspace'
  BY CallsAssumption DEF WsPatchRead, Step, Merge, Existing, IInv, TypeOK, PlaceInv, LocalInv,
       MembersHaveWorkspace, NoMembers, rows
<1> QED BY <1>1, <1>2, <1>3, <1>4, <1>5, <1>6 DEF IInv

LEMMA WsPatchWriteKeeps ==
    ASSUME IInv, NEW b \in WsPatches, WsPatchWrite(b)
    PROVE  IInv'
<1>1. TypeOK'
  <2> DEFINE w == loc[b].w
  <2>1. /\ loc[b].new \in WsRow /\ loc[b].new.fetch \in Settings /\ w \in Creates
        /\ loc[b].new.gen \in 0..MaxGen
    BY MaxGenAssumption DEF WsPatchWrite, WsPatchStore, IInv, LocalInv, WsRow, Settings, Known
  <2>2. Remember(wsPast[w], ws[w] # loc[b].old, loc[b].new) \in Past
    BY <2>1, RememberTyped DEF IInv, TypeOK
  <2>3. wsPast' \in [Creates -> Past]
    BY <2>1, <2>2 DEF WsPatchWrite, WsPatchStore, IInv, TypeOK
  <2>4. ws[w] # None => ws'[w].gen \in 0..MaxGen
    BY <2>1 DEF WsPatchWrite, WsPatchStore, IInv, TypeOK
  <2>5. ws[w] # None => wsPast'[w].under[ws'[w].gen] \in SUBSET Settings
    BY <2>1, <2>3, <2>4 DEF Past
  <2>6. seen' \in [Resolvers -> [org : SUBSET Settings, ws : SUBSET Settings]]
    BY <2>5 DEF WsPatchWrite, WsPatchStore, SeeWs, IInv, TypeOK
  <2> QED BY <2>1, <2>3, <2>6 DEF WsPatchWrite, WsPatchStore, Step, Done, IInv, TypeOK, Calls
<1>2. PlaceInv' /\ LocalInv'
  <2>1. b \in Calls /\ pc[b] # "created" /\ Step(b, "idle", None)
    BY DEF WsPatchWrite, WsPatchStore, Done, Calls
  <2> QED BY <2>1, OverKeeps
<1>3. KnownInv'
  BY CallsAssumption DEF WsPatchWrite, WsPatchStore, SeeWs, Step, Done, IInv, TypeOK, PlaceInv,
       LocalInv, KnownInv, Known,
       Calls, rows
<1>4. SeenInv'
  <2> DEFINE w == loc[b].w
  <2>1. /\ orgPast' = orgPast
        /\ \A v \in Creates \ {w} : ws'[v] = ws[v] /\ wsPast'[v] = wsPast[v]
        /\ \A r \in Resolvers : pc'[r] = pc[r] /\ loc'[r] = loc[r]
    BY CallsAssumption DEF WsPatchWrite, WsPatchStore, Done, Step, IInv, TypeOK, Calls
  <2>2. /\ w \in Creates /\ loc[b].new \in WsRow
        /\ ws'[w] = IF ws[w] = None THEN None ELSE loc[b].new
        /\ wsPast'[w] = IF ws[w] = None THEN wsPast[w]
                         ELSE Remember(wsPast[w], ws[w] # loc[b].old, loc[b].new)
    BY DEF WsPatchWrite, WsPatchStore, IInv, TypeOK, LocalInv, Known
  <2>3. ws[w] # None => \A g \in 0..MaxGen \ {ws'[w].gen} : wsPast'[w].under[g] = wsPast[w].under[g]
    <3>1. wsPast[w] \in Past BY <2>2 DEF IInv, TypeOK
    <3> HIDE DEF w
    <3>2. CASE ws[w] # None
      <4>1. /\ ws'[w] = loc[b].new
            /\ wsPast'[w] = Remember(wsPast[w], ws[w] # loc[b].old, loc[b].new)
        BY <2>2, <3>2
      <4> QED BY ONLY <3>1, <4>1 DEF Remember, Past
    <3> QED BY <3>2
  <2>4. \A r \in Resolvers : pc[r] \in Resolving =>
          /\ seen[r].org = seen'[r].org /\ seen[r].ws \subseteq seen'[r].ws
          /\ ws[w] # None /\ loc[r].owner = w => wsPast'[w].under[ws'[w].gen] \subseteq seen'[r].ws
    <3>1. seen' = [r \in Resolvers |->
              IF ws[w] # None /\ pc[r] \in Resolving /\ loc[r].owner = w
              THEN [seen[r] EXCEPT !.ws = @ \cup wsPast'[w].under[ws'[w].gen]] ELSE seen[r]]
      BY DEF WsPatchWrite, WsPatchStore, SeeWs
    <3>2. seen \in [Resolvers -> [org : SUBSET Settings, ws : SUBSET Settings]]
      BY DEF IInv, TypeOK
    <3> HIDE DEF w
    <3>3. ASSUME NEW r \in Resolvers
          PROVE  /\ seen[r].org = seen'[r].org /\ seen[r].ws \subseteq seen'[r].ws
                 /\ ws[w] # None /\ pc[r] \in Resolving /\ loc[r].owner = w
                    => wsPast'[w].under[ws'[w].gen] \subseteq seen'[r].ws
      BY ONLY <3>1, <3>2, r \in Resolvers
    <3> QED BY <3>3
  <2>5. \A r \in Resolvers : pc[r] \in Resolving =>
          loc[r].gens[2] \in 0..MaxGen /\ (loc[r].owner = User \/ loc[r].owner \in Creates)
    BY DEF IInv, LocalInv, Known
  <2> HIDE DEF w
  <2> SUFFICES ASSUME NEW r \in Resolvers, pc[r] \in Resolving, NEW o, o = loc[r].owner
               PROVE  /\ orgPast.under[loc[r].gens[1]] \subseteq seen'[r].org
                      /\ o # User =>
                            /\ ws'[o] # None => wsPast'[o].under[ws'[o].gen] \subseteq seen'[r].ws
                            /\ pc[r] # "ws" => wsPast'[o].under[loc[r].gens[2]] \subseteq seen'[r].ws
    BY <2>1 DEF SeenInv
  <2>6. /\ orgPast.under[loc[r].gens[1]] \subseteq seen[r].org
        /\ o # User =>
              /\ ws[o] # None => wsPast[o].under[ws[o].gen] \subseteq seen[r].ws
              /\ pc[r] # "ws" => wsPast[o].under[loc[r].gens[2]] \subseteq seen[r].ws
    BY DEF IInv, SeenInv
  <2>7. CASE o # w
    BY <2>1, <2>4, <2>5, <2>6, <2>7
  <2>8. CASE o = w
    BY <2>2, <2>3, <2>4, <2>5, <2>6, <2>8
  <2> QED BY <2>7, <2>8
<1>5. MembersHaveWorkspace'
  <2>1. loc[b].new # None /\ loc[b].w \in Creates
    BY WsRowIsARow DEF WsPatchWrite, WsPatchStore, SeeWs, IInv, LocalInv, Known
  <2> QED BY <2>1 DEF WsPatchWrite, WsPatchStore, SeeWs, IInv, TypeOK, MembersHaveWorkspace
<1> QED BY <1>1, <1>2, <1>3, <1>4, <1>5 DEF IInv

LEMMA WsDeleteCheckKeeps ==
    ASSUME IInv, NEW x \in WsDeletes, WsDeleteCheck(x)
    PROVE  IInv'
<1>1. TypeOK'
  BY CallsAssumption DEF WsDeleteCheck, Step, Existing, IInv, TypeOK, Calls, rows, PlaceInv,
       LocalInv
<1>2. PlaceInv'
  BY CallsAssumption DEF WsDeleteCheck, Step, Existing, IInv, TypeOK, PlaceInv, Calls, rows,
       Resolving
<1>3. LocalInv'
  BY CallsAssumption DEF WsDeleteCheck, Step, Existing, IInv, TypeOK, PlaceInv, LocalInv,
       KnownInv,
       Known, Calls, rows, Resolving
<1>4. KnownInv'
  BY CallsAssumption DEF WsDeleteCheck, Step, Existing, IInv, TypeOK, PlaceInv, LocalInv,
       KnownInv,
       Known, Calls, rows
<1>5. SeenInv'
  <2>1. \A r \in Resolvers : pc'[r] = pc[r] /\ loc'[r] = loc[r]
    BY CallsAssumption DEF WsDeleteCheck, Step, IInv, TypeOK, Calls
  <2> QED BY <2>1, SeenStays DEF WsDeleteCheck, IInv
<1>6. MembersHaveWorkspace'
  BY CallsAssumption DEF WsDeleteCheck, Step, Existing, IInv, TypeOK, PlaceInv, LocalInv,
       MembersHaveWorkspace, NoMembers, rows
<1> QED BY <1>1, <1>2, <1>3, <1>4, <1>5, <1>6 DEF IInv

LEMMA WsDeleteMembersKeeps ==
    ASSUME IInv, NEW x \in WsDeletes, WsDeleteMembers(x)
    PROVE  IInv'
<1>1. TypeOK'
  <2>1. NoMembers \in [Users -> {"admin", "member", None}]
    BY DEF NoMembers
  <2> QED BY <2>1 DEF WsDeleteMembers, Step, IInv, TypeOK, Calls
<1>2. PlaceInv'
  BY CallsAssumption DEF WsDeleteMembers, Step, IInv, TypeOK, PlaceInv, Calls, rows, Resolving
<1>3. LocalInv'
  BY CallsAssumption DEF WsDeleteMembers, Step, IInv, TypeOK, PlaceInv, LocalInv, KnownInv, Known,
       Calls, rows, Resolving
<1>4. KnownInv'
  BY CallsAssumption DEF WsDeleteMembers, Step, IInv, TypeOK, PlaceInv, LocalInv, KnownInv, Known,
       Calls, rows
<1>5. SeenInv'
  BY CallsAssumption DEF WsDeleteMembers, Step, IInv, TypeOK, PlaceInv, LocalInv, KnownInv,
       SeenInv,
       Known, Calls, rows, Resolving
<1>6. MembersHaveWorkspace'
  BY CallsAssumption DEF WsDeleteMembers, Step, IInv, TypeOK, PlaceInv, LocalInv,
       MembersHaveWorkspace,
       NoMembers, rows
<1> QED BY <1>1, <1>2, <1>3, <1>4, <1>5, <1>6 DEF IInv

LEMMA WsDeleteRowKeeps ==
    ASSUME IInv, NEW x \in WsDeletes, WsDeleteRow(x)
    PROVE  IInv'
<1>1. TypeOK'
  BY CallsAssumption DEF WsDeleteRow, Step, Done, IInv, TypeOK, Calls, rows, PlaceInv, LocalInv
<1>2. PlaceInv' /\ LocalInv'
  <2>1. x \in Calls /\ pc[x] # "created" /\ Step(x, "idle", None)
    BY DEF WsDeleteRow, Done, Calls
  <2> QED BY <2>1, OverKeeps
<1>3. KnownInv'
  BY CallsAssumption DEF WsDeleteRow, Step, Done, IInv, TypeOK, PlaceInv, LocalInv, KnownInv,
       Known,
       Calls, rows
<1>4. SeenInv'
  <2>1. /\ orgPast' = orgPast /\ wsPast' = wsPast /\ seen' = seen
        /\ \A w \in Creates : ws'[w] = ws[w] \/ ws'[w] = None
    BY DEF WsDeleteRow, IInv, TypeOK
  <2>2. \A r \in Resolvers : pc'[r] = pc[r] /\ loc'[r] = loc[r]
    BY CallsAssumption DEF WsDeleteRow, Done, Step, IInv, TypeOK, Calls
  <2>3. \A r \in Resolvers : pc[r] \in Resolving => loc[r].owner = User \/ loc[r].owner \in Creates
    BY DEF IInv, LocalInv, Known
  <2> QED BY <2>1, <2>2, <2>3 DEF IInv, SeenInv
<1>5. MembersHaveWorkspace'
  BY CallsAssumption DEF WsDeleteRow, Step, Done, IInv, TypeOK, PlaceInv, LocalInv,
       MembersHaveWorkspace, NoMembers, rows
<1> QED BY <1>1, <1>2, <1>3, <1>4, <1>5 DEF IInv

LEMMA MemberReadKeeps ==
    ASSUME IInv, NEW m \in MemberEdits, MemberRead(m)
    PROVE  IInv'
<1>1. TypeOK'
  BY CallsAssumption DEF MemberRead, Step, Existing, IInv, TypeOK, Calls, rows, PlaceInv, LocalInv
<1>2. PlaceInv'
  BY CallsAssumption DEF MemberRead, Step, Existing, IInv, TypeOK, PlaceInv, Calls, rows,
       Resolving
<1>3. LocalInv'
  BY CallsAssumption DEF MemberRead, Step, Existing, IInv, TypeOK, PlaceInv, LocalInv, KnownInv,
       Known,
       Calls, rows, Resolving
<1>4. KnownInv'
  BY CallsAssumption DEF MemberRead, Step, Existing, IInv, TypeOK, PlaceInv, LocalInv, KnownInv,
       Known,
       Calls, rows
<1>5. SeenInv'
  <2>1. \A r \in Resolvers : pc'[r] = pc[r] /\ loc'[r] = loc[r]
    BY CallsAssumption DEF MemberRead, Step, IInv, TypeOK, Calls
  <2> QED BY <2>1, SeenStays DEF MemberRead, IInv
<1>6. MembersHaveWorkspace'
  BY CallsAssumption DEF MemberRead, Step, Existing, IInv, TypeOK, PlaceInv, LocalInv,
       MembersHaveWorkspace, NoMembers, rows
<1> QED BY <1>1, <1>2, <1>3, <1>4, <1>5, <1>6 DEF IInv

LEMMA MemberAddKeeps ==
    ASSUME IInv, NEW m \in MemberEdits, MemberAdd(m)
    PROVE  IInv'
<1>1. TypeOK'
  BY CallsAssumption DEF MemberAdd, Step, Done, IInv, TypeOK, Calls, rows, PlaceInv, LocalInv
<1>2. PlaceInv' /\ LocalInv'
  <2>1. m \in Calls /\ pc[m] # "created" /\ Step(m, "idle", None)
    BY DEF MemberAdd, Done, Calls
  <2> QED BY <2>1, OverKeeps
<1>3. KnownInv'
  BY CallsAssumption DEF MemberAdd, Step, Done, IInv, TypeOK, PlaceInv, LocalInv, KnownInv, Known,
       Calls, rows
<1>4. SeenInv'
  BY CallsAssumption DEF MemberAdd, Step, Done, IInv, TypeOK, PlaceInv, LocalInv, KnownInv,
       SeenInv,
       Known, Calls, rows, Resolving
<1>5. MembersHaveWorkspace'
  BY CallsAssumption DEF MemberAdd, Step, Done, IInv, TypeOK, PlaceInv, LocalInv,
       MembersHaveWorkspace,
       NoMembers, rows
<1> QED BY <1>1, <1>2, <1>3, <1>4, <1>5 DEF IInv

LEMMA MemberUpdateKeeps ==
    ASSUME IInv, NEW m \in MemberEdits, MemberUpdate(m)
    PROVE  IInv'
<1>1. TypeOK'
  BY CallsAssumption DEF MemberUpdate, Step, Done, IInv, TypeOK, Calls, rows, PlaceInv, LocalInv
<1>2. PlaceInv' /\ LocalInv'
  <2>1. m \in Calls /\ pc[m] # "created" /\ Step(m, "idle", None)
    BY DEF MemberUpdate, Done, Calls
  <2> QED BY <2>1, OverKeeps
<1>3. KnownInv'
  BY CallsAssumption DEF MemberUpdate, Step, Done, IInv, TypeOK, PlaceInv, LocalInv, KnownInv,
       Known,
       Calls, rows
<1>4. SeenInv'
  BY CallsAssumption DEF MemberUpdate, Step, Done, IInv, TypeOK, PlaceInv, LocalInv, KnownInv,
       SeenInv,
       Known, Calls, rows, Resolving
<1>5. MembersHaveWorkspace'
  BY CallsAssumption DEF MemberUpdate, Step, Done, IInv, TypeOK, PlaceInv, LocalInv,
       MembersHaveWorkspace, NoMembers, rows
<1> QED BY <1>1, <1>2, <1>3, <1>4, <1>5 DEF IInv

LEMMA DeployLoadKeeps ==
    ASSUME IInv, NEW d \in Deploys, DeployLoad(d)
    PROVE  IInv'
<1>1. TypeOK'
  BY CallsAssumption DEF DeployLoad, Step, IInv, TypeOK, Calls, rows, PlaceInv, LocalInv
<1>2. PlaceInv'
  BY CallsAssumption DEF DeployLoad, Step, IInv, TypeOK, PlaceInv, Calls, rows, Resolving
<1>3. LocalInv'
  BY CallsAssumption DEF DeployLoad, Step, IInv, TypeOK, PlaceInv, LocalInv, KnownInv, Known,
       Calls,
       rows, Resolving
<1>4. KnownInv'
  BY CallsAssumption DEF DeployLoad, Step, IInv, TypeOK, PlaceInv, LocalInv, KnownInv, Known,
       Calls,
       rows
<1>5. SeenInv'
  <2>1. \A r \in Resolvers : pc'[r] = pc[r] /\ loc'[r] = loc[r]
    BY CallsAssumption DEF DeployLoad, Step, IInv, TypeOK, Calls
  <2> QED BY <2>1, SeenStays DEF DeployLoad, IInv
<1>6. MembersHaveWorkspace'
  BY CallsAssumption DEF DeployLoad, Step, IInv, TypeOK, PlaceInv, LocalInv, MembersHaveWorkspace,
       NoMembers, rows
<1> QED BY <1>1, <1>2, <1>3, <1>4, <1>5, <1>6 DEF IInv

LEMMA DeployResolveKeeps ==
    ASSUME IInv, NEW d \in Deploys, DeployResolve(d)
    PROVE  IInv'
<1>1. TypeOK'
  BY CallsAssumption DEF DeployResolve, Step, Existing, IInv, TypeOK, Calls, rows, PlaceInv,
       LocalInv
<1>2. PlaceInv'
  BY CallsAssumption DEF DeployResolve, Step, Existing, IInv, TypeOK, PlaceInv, Calls, rows,
       Resolving
<1>3. LocalInv'
  <2>1. \A w \in Existing : Known(w) /\ w # User
    BY NoneNotARow DEF Existing, IInv, KnownInv
  <2> QED BY <2>1, CallsAssumption DEF DeployResolve, Step, IInv, TypeOK, PlaceInv, LocalInv,
           Known, Calls, rows, Resolving
<1>4. KnownInv'
  BY CallsAssumption DEF DeployResolve, Step, Existing, IInv, TypeOK, PlaceInv, LocalInv,
       KnownInv,
       Known, Calls, rows
<1>5. SeenInv'
  <2>1. \A r \in Resolvers : pc'[r] = pc[r] /\ loc'[r] = loc[r]
    BY CallsAssumption DEF DeployResolve, Step, IInv, TypeOK, Calls
  <2> QED BY <2>1, SeenStays DEF DeployResolve, IInv
<1>6. MembersHaveWorkspace'
  BY CallsAssumption DEF DeployResolve, Step, Existing, IInv, TypeOK, PlaceInv, LocalInv,
       MembersHaveWorkspace, NoMembers, rows
<1> QED BY <1>1, <1>2, <1>3, <1>4, <1>5, <1>6 DEF IInv

LEMMA DeployCreateKeeps ==
    ASSUME IInv, NEW d \in Deploys, DeployCreate(d)
    PROVE  IInv'
<1>1. TypeOK'
  <2>1. loc[d].w \in Creates
    BY DEF DeployCreate, IInv, LocalInv, Known
  <2> QED BY <2>1 DEF DeployCreate, Step, Done, IInv, TypeOK, Calls
<1>2. PlaceInv' /\ LocalInv'
  <2>1. d \in Calls /\ pc[d] # "created" /\ Step(d, "idle", None)
    BY DEF DeployCreate, Done, Calls
  <2> QED BY <2>1, OverKeeps
<1>3. KnownInv'
  BY CallsAssumption DEF DeployCreate, Step, Done, IInv, TypeOK, PlaceInv, LocalInv, KnownInv,
       Known,
       Calls, rows
<1>4. SeenInv'
  BY CallsAssumption DEF DeployCreate, Step, Done, IInv, TypeOK, PlaceInv, LocalInv, KnownInv,
       SeenInv,
       Known, Calls, rows, Resolving
<1>5. MembersHaveWorkspace'
  BY CallsAssumption DEF DeployCreate, Step, Done, IInv, TypeOK, PlaceInv, LocalInv,
       MembersHaveWorkspace, NoMembers, rows
<1> QED BY <1>1, <1>2, <1>3, <1>4, <1>5 DEF IInv

LEMMA LastFunctionDeletedKeeps ==
    ASSUME IInv, NEW w \in Creates, LastFunctionDeleted(w)
    PROVE  IInv'
<1>1. TypeOK'
  BY CallsAssumption DEF LastFunctionDeleted, IInv, TypeOK, Calls, rows, PlaceInv, LocalInv
<1>2. PlaceInv'
  BY CallsAssumption DEF LastFunctionDeleted, IInv, TypeOK, PlaceInv, Calls, rows, Resolving
<1>3. LocalInv'
  BY CallsAssumption DEF LastFunctionDeleted, IInv, TypeOK, PlaceInv, LocalInv, KnownInv, Known,
       Calls,
       rows, Resolving
<1>4. KnownInv'
  BY CallsAssumption DEF LastFunctionDeleted, IInv, TypeOK, PlaceInv, LocalInv, KnownInv, Known,
       Calls,
       rows
<1>5. SeenInv'
  BY CallsAssumption DEF LastFunctionDeleted, IInv, TypeOK, PlaceInv, LocalInv, KnownInv, SeenInv,
       Known, Calls, rows, Resolving
<1>6. MembersHaveWorkspace'
  BY CallsAssumption DEF LastFunctionDeleted, IInv, TypeOK, PlaceInv, LocalInv,
       MembersHaveWorkspace,
       NoMembers, rows
<1> QED BY <1>1, <1>2, <1>3, <1>4, <1>5, <1>6 DEF IInv

LEMMA ResolveOrgKeeps ==
    ASSUME IInv, NEW r \in Resolvers, ResolveOrg(r)
    PROVE  IInv'
<1>1. TypeOK'
  <2>1. /\ orgPast.under[org.gen] \in SUBSET Settings
        /\ \A w \in Existing : wsPast[w].under[ws[w].gen] \in SUBSET Settings
    BY MaxGenAssumption DEF IInv, TypeOK, OrgRow, WsRow, Past, Existing
  <2> QED BY <2>1 DEF ResolveOrg, Step, rows, IInv, TypeOK, Calls
<1>2. PlaceInv'
  BY CallsAssumption DEF ResolveOrg, Step, Existing, IInv, TypeOK, PlaceInv, Calls, rows,
       Resolving
<1>3. LocalInv'
  <2>1. PICK o \in owned \cup {User} :
          Step(r, IF o = User THEN "lookup" ELSE "ws",
               [owner |-> o, gens |-> <<org.gen, 0>>, levels |-> {org.fetch, Manifest}])
    BY DEF ResolveOrg
  <2>2. Known(o) /\ org.gen \in 1..MaxGen /\ 0 \in 0..MaxGen /\ {org.fetch, Manifest} \subseteq Settings
    BY MaxGenAssumption DEF IInv, KnownInv, Known, TypeOK, OrgRow, Settings
  <2> QED BY <2>1, <2>2, CallsAssumption DEF Step, IInv, TypeOK, PlaceInv, LocalInv,
           Known, Calls, rows, Resolving
<1>4. KnownInv'
  BY CallsAssumption DEF ResolveOrg, Step, Existing, IInv, TypeOK, PlaceInv, LocalInv, KnownInv,
       Known,
       Calls, rows
<1>5. SeenInv'
  <2>1. PICK o \in owned \cup {User} :
          /\ Step(r, IF o = User THEN "lookup" ELSE "ws",
                  [owner |-> o, gens |-> <<org.gen, 0>>, levels |-> {org.fetch, Manifest}])
          /\ seen' = [seen EXCEPT ![r] =
                [org |-> orgPast.under[org.gen],
                 ws |-> IF o \in Existing THEN wsPast[o].under[ws[o].gen] ELSE {}]]
    BY DEF ResolveOrg
  <2>2. ws' = ws /\ orgPast' = orgPast /\ wsPast' = wsPast /\ (o # User => o \in Creates)
    BY DEF ResolveOrg, rows, IInv, TypeOK
  <2>3. /\ loc'[r] = [owner |-> o, gens |-> <<org.gen, 0>>, levels |-> {org.fetch, Manifest}]
        /\ seen'[r] = [org |-> orgPast.under[org.gen],
                       ws |-> IF o \in Existing THEN wsPast[o].under[ws[o].gen] ELSE {}]
        /\ pc'[r] = IF o = User THEN "lookup" ELSE "ws"
    BY <2>1 DEF Step, IInv, TypeOK, Calls
  <2>4. \A q \in Resolvers \ {r} : loc'[q] = loc[q] /\ seen'[q] = seen[q] /\ pc'[q] = pc[q]
    BY <2>1 DEF Step, IInv, TypeOK, Calls
  <2> QED BY <2>2, <2>3, <2>4 DEF IInv, SeenInv, Existing
<1>6. MembersHaveWorkspace'
  BY CallsAssumption DEF ResolveOrg, Step, Existing, IInv, TypeOK, PlaceInv, LocalInv,
       MembersHaveWorkspace, NoMembers, rows
<1> QED BY <1>1, <1>2, <1>3, <1>4, <1>5, <1>6 DEF IInv

LEMMA ResolveFailKeeps ==
    ASSUME IInv, NEW r \in Resolvers, ResolveFail(r)
    PROVE  IInv'
<1>1. TypeOK'
  BY CallsAssumption DEF ResolveFail, Step, IInv, TypeOK, Calls, rows, PlaceInv, LocalInv
<1>2. PlaceInv' /\ LocalInv'
  <2>1. PICK l : Step(r, "done", l)
    BY DEF ResolveFail
  <2>2. r \in Calls /\ pc[r] # "created"
    BY DEF ResolveFail, Calls
  <2> QED BY <2>1, <2>2, OverKeeps
<1>3. KnownInv'
  BY CallsAssumption DEF ResolveFail, Step, IInv, TypeOK, PlaceInv, LocalInv, KnownInv, Known,
       Calls,
       rows
<1>4. SeenInv'
  BY CallsAssumption DEF ResolveFail, Step, IInv, TypeOK, PlaceInv, LocalInv, KnownInv, SeenInv,
       Known,
       Calls, rows, Resolving
<1>5. MembersHaveWorkspace'
  BY CallsAssumption DEF ResolveFail, Step, IInv, TypeOK, PlaceInv, LocalInv,
       MembersHaveWorkspace,
       NoMembers, rows
<1> QED BY <1>1, <1>2, <1>3, <1>4, <1>5 DEF IInv

LEMMA ResolveWsKeeps ==
    ASSUME IInv, NEW r \in Resolvers, ResolveWs(r)
    PROVE  IInv'
<1>1. TypeOK'
  BY CallsAssumption DEF ResolveWs, Step, IInv, TypeOK, Calls, rows, PlaceInv, LocalInv
<1>2. PlaceInv'
  BY CallsAssumption DEF ResolveWs, Step, IInv, TypeOK, PlaceInv, Calls, rows, Resolving
<1>3. LocalInv'
  <2>1. /\ loc[r].owner \in Creates /\ Known(loc[r].owner)
        /\ ws[loc[r].owner].gen \in 0..MaxGen /\ ws[loc[r].owner].fetch \in Settings
    BY MaxGenAssumption DEF ResolveWs, IInv, LocalInv, Known, Resolving, TypeOK, WsRow, Settings
  <2>2. \A c \in Calls \ {r} : pc'[c] = pc[c] /\ loc'[c] = loc[c]
    BY DEF ResolveWs, Step, IInv, TypeOK
  <2>3. \A c \in Creates : pc'[c] = pc[c]
    BY <2>2, CallsAssumption DEF Calls
  <2>4. r \in Calls /\ pc[r] \in Resolving BY DEF ResolveWs, Calls, Resolving
  <2>5. /\ pc'[r] = "lookup" /\ loc'[r].owner = loc[r].owner
        /\ loc'[r].gens[1] = loc[r].gens[1] /\ loc'[r].gens[2] = ws[loc[r].owner].gen
        /\ loc'[r].levels = loc[r].levels \cup {ws[loc[r].owner].fetch}
    BY <2>4 DEF ResolveWs, Step, IInv, TypeOK
  <2>6. /\ Known(loc[r].owner)' /\ loc'[r].gens[1] \in 1..MaxGen /\ loc'[r].gens[2] \in 0..MaxGen
        /\ loc'[r].levels \subseteq Settings
    BY <2>1, <2>3, <2>4, <2>5 DEF IInv, LocalInv, Known
  <2> QED BY <2>2, <2>3, <2>5, <2>6, CallsAssumption DEF IInv, LocalInv, Known, Calls
<1>4. KnownInv'
  BY CallsAssumption DEF ResolveWs, Step, IInv, TypeOK, PlaceInv, LocalInv, KnownInv, Known,
       Calls, rows
<1>5. SeenInv'
  BY CallsAssumption DEF ResolveWs, Step, IInv, TypeOK, PlaceInv, LocalInv, KnownInv, SeenInv,
       Known,
       Calls, rows, Resolving
<1>6. MembersHaveWorkspace'
  BY CallsAssumption DEF ResolveWs, Step, IInv, TypeOK, PlaceInv, LocalInv, MembersHaveWorkspace,
       NoMembers, rows
<1> QED BY <1>1, <1>2, <1>3, <1>4, <1>5, <1>6 DEF IInv

LEMMA ResolveLookupKeeps ==
    ASSUME IInv, NEW r \in Resolvers, ResolveLookup(r)
    PROVE  IInv'
<1>1. TypeOK'
  BY CallsAssumption DEF ResolveLookup, Step, Return, IInv, TypeOK, Calls, rows, PlaceInv,
       LocalInv
<1>2. PlaceInv'
  <2>1. pc' = [pc EXCEPT ![r] = "done"] \/ pc' = [pc EXCEPT ![r] = "store"]
    BY DEF ResolveLookup, Return, Step
  <2>2. pc'[r] \in {"done", "store"} /\ \A c \in Calls \ {r} : pc'[c] = pc[c]
    BY <2>1 DEF IInv, TypeOK, Calls
  <2> QED BY <2>2, CallsAssumption DEF IInv, PlaceInv, Calls, Resolving
<1>3. LocalInv'
  <2>1. \/ pc' = [pc EXCEPT ![r] = "done"]
        \/ pc' = [pc EXCEPT ![r] = "store"] /\ loc' = [loc EXCEPT ![r] = loc[r]]
    BY DEF ResolveLookup, Return, Step
  <2>2. \A c \in Calls \ {r} : pc'[c] = pc[c] /\ loc'[c] = loc[c]
    BY DEF ResolveLookup, Return, Step, IInv, TypeOK
  <2>3. pc'[r] \in Resolving => loc'[r] = loc[r] /\ pc'[r] = "store" /\ pc[r] \in Resolving
    BY <2>1 DEF ResolveLookup, Resolving, IInv, TypeOK, Calls
  <2>4. \A c \in Creates : pc'[c] = pc[c]
    BY <2>2, CallsAssumption DEF Calls
  <2> QED BY <2>2, <2>3, <2>4, CallsAssumption DEF IInv, LocalInv, Known, Calls
<1>4. KnownInv'
  BY CallsAssumption DEF ResolveLookup, Step, Return, IInv, TypeOK, PlaceInv, LocalInv, KnownInv,
       Known,
       Calls, rows
<1>5. SeenInv'
  BY CallsAssumption DEF ResolveLookup, Step, Return, IInv, TypeOK, PlaceInv, LocalInv, KnownInv,
       SeenInv, Known, Calls, rows, Resolving
<1>6. MembersHaveWorkspace'
  BY CallsAssumption DEF ResolveLookup, Step, Return, IInv, TypeOK, PlaceInv, LocalInv,
       MembersHaveWorkspace, NoMembers, rows
<1> QED BY <1>1, <1>2, <1>3, <1>4, <1>5, <1>6 DEF IInv

LEMMA ResolveStoreKeeps ==
    ASSUME IInv, NEW r \in Resolvers, ResolveStore(r)
    PROVE  IInv'
<1>1. TypeOK'
  <2>1. Effective(loc[r].levels) \in EffectivePolicy
    BY EffectiveTyped DEF ResolveStore, IInv, LocalInv, Resolving
  <2> QED BY <2>1 DEF ResolveStore, Return, Step, rows, IInv, TypeOK, Calls
<1>2. PlaceInv'
  BY CallsAssumption DEF ResolveStore, Step, Return, Key, IInv, TypeOK, PlaceInv, Calls, rows,
       Resolving
<1>3. LocalInv'
  BY CallsAssumption DEF ResolveStore, Step, Return, Key, IInv, TypeOK, PlaceInv, LocalInv,
       KnownInv,
       Known, Calls, rows, Resolving
<1>4. KnownInv'
  BY CallsAssumption DEF ResolveStore, Step, Return, Key, IInv, TypeOK, PlaceInv, LocalInv,
       KnownInv,
       Known, Calls, rows
<1>5. SeenInv'
  BY CallsAssumption DEF ResolveStore, Step, Return, Key, IInv, TypeOK, PlaceInv, LocalInv,
       KnownInv,
       SeenInv, Known, Calls, rows, Resolving
<1>6. MembersHaveWorkspace'
  BY CallsAssumption DEF ResolveStore, Step, Return, Key, IInv, TypeOK, PlaceInv, LocalInv,
       MembersHaveWorkspace, NoMembers, rows
<1> QED BY <1>1, <1>2, <1>3, <1>4, <1>5, <1>6 DEF IInv

LEMMA AbortKeeps ==
    ASSUME IInv, NEW c \in Calls, Abort(c)
    PROVE  IInv'
<1>1. TypeOK'
  BY CallsAssumption DEF Abort, Step, Done, IInv, TypeOK, Calls, rows, PlaceInv, LocalInv
<1>2. PlaceInv' /\ LocalInv'
  <2>1. c \in Calls /\ pc[c] # "created" /\ Step(c, "idle", None)
    BY DEF Abort, Done, Calls
  <2> QED BY <2>1, OverKeeps
<1>3. KnownInv'
  BY CallsAssumption DEF Abort, Step, Done, IInv, TypeOK, PlaceInv, LocalInv, KnownInv, Known,
       Calls,
       rows
<1>4. SeenInv'
  <2>1. \A r \in Resolvers : pc'[r] = pc[r] /\ loc'[r] = loc[r]
    BY CallsAssumption DEF Abort, Step, Done, IInv, TypeOK, Calls
  <2> QED BY <2>1, SeenStays DEF Abort, IInv
<1>5. MembersHaveWorkspace'
  BY CallsAssumption DEF Abort, Step, Done, IInv, TypeOK, PlaceInv, LocalInv,
       MembersHaveWorkspace,
       NoMembers, rows
<1> QED BY <1>1, <1>2, <1>3, <1>4, <1>5 DEF IInv

LEMMA InitHolds == Init => IInv
<1> SUFFICES ASSUME Init PROVE IInv
  OBVIOUS
<1>1. TypeOK
  <2>1. NoPast \in Past /\ orgPast \in Past
    BY MaxGenAssumption DEF Init, NoPast, Remember, Past, Settings
  <2>2. org \in OrgRow
    BY MaxGenAssumption DEF Init, OrgRow
  <2>3. wsPast \in [Creates -> Past] /\ members \in [Creates -> [Users -> {"admin", "member", None}]]
    BY <2>1 DEF Init, NoMembers
  <2> QED BY <2>1, <2>2, <2>3 DEF Init, TypeOK
<1>2. PlaceInv /\ LocalInv /\ KnownInv /\ SeenInv /\ MembersHaveWorkspace
  BY DEF Init, PlaceInv, LocalInv, KnownInv, SeenInv, MembersHaveWorkspace, Resolving, Calls
<1> QED BY <1>1, <1>2 DEF IInv

LEMMA NextKeeps ==
    ASSUME IInv, [Next]_vars
    PROVE  IInv'
<1>1. CASE Idle \/ UNCHANGED vars
  BY <1>1 DEF Idle, vars, IInv, TypeOK, PlaceInv, LocalInv, KnownInv, Known, SeenInv,
       MembersHaveWorkspace
<1>2. ASSUME NEW a \in OrgPatches, OrgPatchRead(a) PROVE IInv'
  BY <1>2, OrgPatchReadKeeps
<1>3. ASSUME NEW a \in OrgPatches, OrgPatchGuard(a) PROVE IInv'
  BY <1>3, OrgPatchGuardKeeps
<1>4. ASSUME NEW a \in OrgPatches, OrgPatchWrite(a) PROVE IInv'
  BY <1>4, OrgPatchWriteKeeps
<1>5. ASSUME NEW c \in Creates, CreateCheck(c) PROVE IInv'
  BY <1>5, CreateCheckKeeps
<1>6. ASSUME NEW c \in Creates, CreateInsert(c) PROVE IInv'
  BY <1>6, CreateInsertKeeps
<1>7. ASSUME NEW b \in WsPatches, WsPatchRead(b) PROVE IInv'
  BY <1>7, WsPatchReadKeeps
<1>8. ASSUME NEW b \in WsPatches, WsPatchWrite(b) PROVE IInv'
  BY <1>8, WsPatchWriteKeeps
<1>9. ASSUME NEW x \in WsDeletes, WsDeleteCheck(x) PROVE IInv'
  BY <1>9, WsDeleteCheckKeeps
<1>10. ASSUME NEW x \in WsDeletes, WsDeleteMembers(x) PROVE IInv'
  BY <1>10, WsDeleteMembersKeeps
<1>11. ASSUME NEW x \in WsDeletes, WsDeleteRow(x) PROVE IInv'
  BY <1>11, WsDeleteRowKeeps
<1>12. ASSUME NEW m \in MemberEdits, MemberRead(m) PROVE IInv'
  BY <1>12, MemberReadKeeps
<1>13. ASSUME NEW m \in MemberEdits, MemberAdd(m) PROVE IInv'
  BY <1>13, MemberAddKeeps
<1>14. ASSUME NEW m \in MemberEdits, MemberUpdate(m) PROVE IInv'
  BY <1>14, MemberUpdateKeeps
<1>15. ASSUME NEW d \in Deploys, DeployLoad(d) PROVE IInv'
  BY <1>15, DeployLoadKeeps
<1>16. ASSUME NEW d \in Deploys, DeployResolve(d) PROVE IInv'
  BY <1>16, DeployResolveKeeps
<1>17. ASSUME NEW d \in Deploys, DeployCreate(d) PROVE IInv'
  BY <1>17, DeployCreateKeeps
<1>18. ASSUME NEW w \in Creates, LastFunctionDeleted(w) PROVE IInv'
  BY <1>18, LastFunctionDeletedKeeps
<1>19. ASSUME NEW r \in Resolvers, ResolveOrg(r) PROVE IInv'
  BY <1>19, ResolveOrgKeeps
<1>20. ASSUME NEW r \in Resolvers, ResolveFail(r) PROVE IInv'
  BY <1>20, ResolveFailKeeps
<1>21. ASSUME NEW r \in Resolvers, ResolveWs(r) PROVE IInv'
  BY <1>21, ResolveWsKeeps
<1>22. ASSUME NEW r \in Resolvers, ResolveLookup(r) PROVE IInv'
  BY <1>22, ResolveLookupKeeps
<1>23. ASSUME NEW r \in Resolvers, ResolveStore(r) PROVE IInv'
  BY <1>23, ResolveStoreKeeps
<1>24. ASSUME NEW c \in Calls, Abort(c) PROVE IInv'
  BY <1>24, AbortKeeps
<1> QED BY <1>1, <1>2, <1>3, <1>4, <1>5, <1>6, <1>7, <1>8, <1>9, <1>10, <1>11, <1>12, <1>13,
     <1>14,
     <1>15, <1>16, <1>17, <1>18, <1>19, <1>20, <1>21, <1>22, <1>23, <1>24 DEF Next

\* Every step of every call keeps the invariant.
THEOREM Invariance == Spec => []IInv
<1>1. Init => IInv
  BY InitHolds
<1>2. IInv /\ [Next]_vars => IInv'
  BY NextKeeps
<1> QED BY <1>1, <1>2, PTL DEF Spec

\* Every table, the cache and the histories have their types.
THEOREM TypeCorrect == Spec => []TypeOK
<1>1. IInv => TypeOK
  BY DEF IInv
<1> QED BY <1>1, Invariance, PTL

\* No membership outlives its workspace: the foreign key refuses the delete of
\* a workspace to which a racing AddMember gave a member, and the add to one
\* that is gone.
THEOREM MembersKeepWorkspace == Spec => []MembersHaveWorkspace
<1>1. IInv => MembersHaveWorkspace
  BY DEF IInv
<1> QED BY <1>1, Invariance, PTL

-----------------------------------------------------------------------------
(***************************************************************************)
(* The cache of effective policies, whatever patches overlap.              *)
(***************************************************************************)

\* The policy of a row stands under its generation, alone until a patch of it
\* has lost an update.
PastInv ==
    /\ org.fetch \in orgPast.under[org.gen]
    /\ ~orgPast.lost => orgPast.under[org.gen] = {org.fetch}
    /\ \A w \in Existing :
          /\ ws[w].fetch \in wsPast[w].under[ws[w].gen]
          /\ ~wsPast[w].lost => wsPast[w].under[ws[w].gen] = {ws[w].fetch}

\* No generation of a key is ahead of its row, until an update was lost.
NotAhead(k) ==
    /\ Known(k[3])
    /\ ~orgPast.lost => k[1] <= org.gen
    /\ k[3] # User /\ ws[k[3]] # None /\ ~wsPast[k[3]].lost => k[2] <= ws[k[3]].gen

\* A resolver has read what has stood under the generations it read.
Agrees(r) ==
    /\ pc[r] = "ws" =>
          /\ ~orgPast.lost => loc[r].gens[1] <= org.gen
          /\ \E p \in orgPast.under[loc[r].gens[1]] : loc[r].levels = {p, Manifest}
    /\ pc[r] \in {"lookup", "store"} =>
          NotAhead(Key(loc[r])) /\ loc[r].levels \in Readings(Key(loc[r]))

\* So has every entry of the cache.
Entry(k, e) == NotAhead(k) /\ \E levels \in Readings(k) : e = Effective(levels)

ReadInv ==
    /\ \A k \in Keys : cache[k] # None => Entry(k, cache[k])
    /\ \A r \in Resolvers : Agrees(r)

CacheInv == PastInv /\ ReadInv /\ NoStalePermission

\* In a step, what has stood under the generations that readers know of still
\* does.
OrgGrows ==
    \A g \in 0..MaxGen : (~orgPast.lost => g <= org.gen) =>
        /\ ~orgPast'.lost => g <= org'.gen
        /\ orgPast.under[g] \subseteq orgPast'.under[g]
WsGrows ==
    \A w \in Creates, g \in 0..MaxGen :
        Known(w) /\ (ws[w] # None /\ ~wsPast[w].lost => g <= ws[w].gen) =>
            /\ pc'[w] = "created"
            /\ ws'[w] # None /\ ~wsPast'[w].lost => g <= ws'[w].gen
            /\ wsPast[w].under[g] \subseteq wsPast'[w].under[g]

\* A key that was not ahead is not, and keeps what it stood for.
LEMMA KeysGrow ==
    ASSUME OrgGrows, WsGrows, NEW k \in Keys, NotAhead(k), User \notin Creates
    PROVE  NotAhead(k)' /\ Readings(k) \subseteq Readings(k)'
<1>1. PICK g \in 0..MaxGen, h \in 0..MaxGen, o \in Creates \cup {User} : k = <<g, h, o>>
  BY DEF Keys
<1>2. k[1] = g /\ k[2] = h /\ k[3] = o
  BY <1>1
<1>3. (~orgPast'.lost => g <= org'.gen) /\ orgPast.under[g] \subseteq orgPast'.under[g]
  BY <1>2 DEF OrgGrows, NotAhead
<1>4. CASE o = User
  BY <1>2, <1>3, <1>4 DEF NotAhead, Readings, Known
<1>5. CASE o # User
  <2>1. /\ pc'[o] = "created" /\ o \in Creates
        /\ ws'[o] # None /\ ~wsPast'[o].lost => h <= ws'[o].gen
        /\ wsPast[o].under[h] \subseteq wsPast'[o].under[h]
    BY <1>2, <1>5 DEF WsGrows, NotAhead
  <2>2. NotAhead(k)'
    BY <1>2, <1>3, <1>5, <2>1 DEF NotAhead, Known
  <2>3. Readings(k) \subseteq Readings(k)'
    BY <1>2, <1>3, <1>5, <2>1 DEF Readings
  <2> QED BY <2>2, <2>3
<1> QED BY <1>4, <1>5

\* The key of a resolver that has read its rows.
LEMMA KeyTyped ==
    ASSUME IInv, NEW r \in Resolvers, pc[r] \in {"lookup", "store"}
    PROVE  Key(loc[r]) \in Keys
BY MaxGenAssumption DEF IInv, LocalInv, Resolving, Key, Keys, Known

\* A resolver that stands still agrees with rows that grow.
LEMMA AgreesFrame ==
    ASSUME IInv, OrgGrows, WsGrows, NEW r \in Resolvers, Agrees(r), pc'[r] = pc[r], loc'[r] = loc[r]
    PROVE  Agrees(r)'
<1>1. pc[r] = "ws" =>
          /\ ~orgPast'.lost => loc[r].gens[1] <= org'.gen
          /\ \E p \in orgPast'.under[loc[r].gens[1]] : loc[r].levels = {p, Manifest}
  <2>1. pc[r] = "ws" => loc[r].gens[1] \in 0..MaxGen
    BY MaxGenAssumption DEF IInv, LocalInv, Resolving
  <2> QED BY <2>1 DEF Agrees, OrgGrows
<1>2. pc[r] \in {"lookup", "store"} => NotAhead(Key(loc[r]))' /\ loc'[r].levels \in Readings(Key(loc[r]))'
  <2> SUFFICES ASSUME pc[r] \in {"lookup", "store"}
               PROVE  NotAhead(Key(loc[r]))' /\ loc'[r].levels \in Readings(Key(loc[r]))'
    OBVIOUS
  <2>1. PICK k \in Keys : k = Key(loc[r]) /\ k = Key(loc[r])'
    BY KeyTyped DEF Key
  <2>2. NotAhead(k) /\ loc[r].levels \in Readings(k)
    BY <2>1 DEF Agrees
  <2>3. NotAhead(k)' /\ loc'[r].levels \in Readings(k)'
    BY <2>1, <2>2, KeysGrow, NoneNotARow
  <2> QED BY <2>1, <2>3 DEF NotAhead, Readings
<1> QED BY <1>1, <1>2 DEF Agrees

\* So does the cache.
LEMMA ReadFrame ==
    ASSUME IInv, ReadInv, OrgGrows, WsGrows, cache' = cache,
           \A r \in Resolvers : pc'[r] = pc[r] /\ loc'[r] = loc[r]
    PROVE  ReadInv'
<1>1. \A r \in Resolvers : Agrees(r)'
  BY AgreesFrame DEF ReadInv
<1>2. \A k \in Keys : cache'[k] # None => Entry(k, cache[k])'
  BY KeysGrow, NoneNotARow DEF ReadInv, Entry
<1> QED BY <1>1, <1>2 DEF ReadInv, Entry

\* Rows that stay or go keep what they have held.
LEMMA StillGrows ==
    ASSUME IInv, org' = org, orgPast' = orgPast, wsPast' = wsPast,
           \A w \in Creates : ws'[w] = ws[w] \/ ws'[w] = None,
           \A w \in Creates : pc[w] = "created" => pc'[w] = "created"
    PROVE  OrgGrows /\ WsGrows
<1>1. OrgGrows
  BY DEF OrgGrows
<1>2. WsGrows
  BY NoneNotARow DEF WsGrows, Known
<1> QED BY <1>1, <1>2

\* They also keep their place in the history.
LEMMA StillPast ==
    ASSUME PastInv, org' = org, orgPast' = orgPast, wsPast' = wsPast,
           \A w \in Creates : ws'[w] = ws[w] \/ ws'[w] = None
    PROVE  PastInv'
BY DEF PastInv, Existing

\* The organization's next generation is one nobody has met, until an update
\* is lost; from then on nothing that stood is forgotten.
LEMMA OrgWriteKeeps ==
    ASSUME IInv, PastInv, ReadInv, NEW a \in OrgPatches, OrgPatchWrite(a)
    PROVE  PastInv' /\ ReadInv'
<1>1. PICK lost \in BOOLEAN : lost = (org # loc[a].old)
  OBVIOUS
<1>2. /\ org' = loc[a].new /\ org'.gen \in 0..MaxGen /\ orgPast \in Past
      /\ orgPast' = Remember(orgPast, lost, org')
  BY <1>1, MaxGenAssumption DEF OrgPatchWrite, IInv, TypeOK, LocalInv, OrgRow
<1>3. /\ orgPast'.lost <=> orgPast.lost \/ lost
      /\ org'.fetch \in orgPast'.under[org'.gen]
      /\ ~orgPast'.lost => orgPast'.under[org'.gen] = {org'.fetch}
      /\ orgPast'.lost => orgPast.under[org'.gen] \subseteq orgPast'.under[org'.gen]
      /\ \A g \in 0..MaxGen \ {org'.gen} : orgPast'.under[g] = orgPast.under[g]
  BY <1>2, RememberHolds
<1>4. ~orgPast'.lost => ~orgPast.lost /\ org'.gen = org.gen + 1 /\ org.gen \in Nat
  <2>1. loc[a].new.gen = loc[a].old.gen + 1
    BY DEF OrgPatchWrite, IInv, LocalInv
  <2>2. org.gen \in Nat
    BY DEF IInv, TypeOK, OrgRow
  <2>3. ~lost => org = loc[a].old
    BY <1>1
  <2> QED BY <1>2, <1>3, <2>1, <2>2, <2>3
<1>5. OrgGrows
  BY <1>2, <1>3, <1>4, MaxGenAssumption DEF OrgGrows
<1>6. /\ ws' = ws /\ wsPast' = wsPast /\ cache' = cache
      /\ \A w \in Creates : pc'[w] = pc[w]
      /\ \A r \in Resolvers : pc'[r] = pc[r] /\ loc'[r] = loc[r]
  BY CallsAssumption DEF OrgPatchWrite, Done, Step, IInv, TypeOK, Calls
<1>7. WsGrows
  BY <1>6, NoneNotARow DEF WsGrows, Known
<1>8. PastInv'
  BY <1>3, <1>6 DEF PastInv, Existing
<1> QED BY <1>5, <1>6, <1>7, <1>8, ReadFrame

\* The same for the next generation of a workspace's row, or its first one.
LEMMA WsWriteKeeps ==
    ASSUME IInv, PastInv, ReadInv, NEW w \in Creates, NEW row \in WsRow, NEW lost \in BOOLEAN,
           org' = org, orgPast' = orgPast, cache' = cache, ws' = [ws EXCEPT ![w] = row],
           wsPast' = [wsPast EXCEPT ![w] = Remember(@, lost, row)],
           IF ws[w] = None THEN ~Known(w) ELSE ~lost => row.gen = ws[w].gen + 1,
           \A v \in Creates : pc[v] = "created" => pc'[v] = "created",
           \A r \in Resolvers : pc'[r] = pc[r] /\ loc'[r] = loc[r]
    PROVE  PastInv' /\ ReadInv'
<1>1. row.gen \in 0..MaxGen /\ row # None /\ w # User
  BY MaxGenAssumption, NoneNotARow, WsRowIsARow DEF WsRow
<1>2. /\ wsPast[w] \in Past /\ wsPast'[w] = Remember(wsPast[w], lost, row) /\ ws'[w] = row
      /\ \A v \in Creates \ {w} : ws'[v] = ws[v] /\ wsPast'[v] = wsPast[v]
  BY DEF IInv, TypeOK
<1>3. /\ wsPast'[w].lost <=> wsPast[w].lost \/ lost
      /\ row.fetch \in wsPast'[w].under[row.gen]
      /\ ~wsPast'[w].lost => wsPast'[w].under[row.gen] = {row.fetch}
      /\ wsPast'[w].lost => wsPast[w].under[row.gen] \subseteq wsPast'[w].under[row.gen]
      /\ \A g \in 0..MaxGen \ {row.gen} : wsPast'[w].under[g] = wsPast[w].under[g]
  <2>1. \A past \in Past : LET new == Remember(past, lost, row) IN
          /\ new.lost <=> past.lost \/ lost
          /\ row.fetch \in new.under[row.gen]
          /\ ~new.lost => new.under[row.gen] = {row.fetch}
          /\ new.lost => past.under[row.gen] \subseteq new.under[row.gen]
          /\ \A g \in 0..MaxGen \ {row.gen} : new.under[g] = past.under[g]
    BY <1>1, RememberHolds
  <2>2. wsPast[w] \in Past /\ wsPast'[w] = Remember(wsPast[w], lost, row)
    BY <1>2
  <2> QED BY <2>1, <2>2
<1>4. ws[w] # None => ws[w].gen \in 0..MaxGen /\ (~wsPast'[w].lost => row.gen = ws[w].gen + 1)
  BY <1>3, MaxGenAssumption DEF IInv, TypeOK, WsRow
<1>5. WsGrows
  <2> SUFFICES ASSUME NEW v \in Creates, NEW g \in 0..MaxGen, Known(v),
                      ws[v] # None /\ ~wsPast[v].lost => g <= ws[v].gen
               PROVE  /\ pc'[v] = "created"
                      /\ ws'[v] # None /\ ~wsPast'[v].lost => g <= ws'[v].gen
                      /\ wsPast[v].under[g] \subseteq wsPast'[v].under[g]
    BY DEF WsGrows
  <2>1. pc'[v] = "created"
    BY NoneNotARow DEF Known
  <2>2. CASE v # w
    BY <1>2, <2>1, <2>2
  <2>3. CASE v = w
    <3>1. ws[w] # None
      BY <2>3
    <3>2. CASE wsPast'[w].lost
      BY <1>3, <2>1, <2>3, <3>2
    <3>3. CASE ~wsPast'[w].lost
      <4>1. g <= ws[w].gen /\ row.gen = ws[w].gen + 1
        BY <1>3, <1>4, <2>3, <3>1, <3>3
      <4>2. g <= row.gen /\ g # row.gen
        BY <1>4, <3>1, <4>1, MaxGenAssumption
      <4> QED BY <1>2, <1>3, <2>1, <2>3, <4>2
    <3> QED BY <3>2, <3>3
  <2> QED BY <2>2, <2>3
<1>6. OrgGrows
  BY DEF OrgGrows
<1>7. PastInv'
  BY <1>2, <1>3 DEF PastInv, Existing
<1> QED BY <1>5, <1>6, <1>7, ReadFrame

\* A resolver's step keeps all that the others and the cache agree with.
LEMMA ResolverFrame ==
    ASSUME IInv, PastInv, ReadInv, NEW r \in Resolvers,
           org' = org, ws' = ws, orgPast' = orgPast, wsPast' = wsPast,
           \A c \in Calls \ {r} : pc'[c] = pc[c] /\ loc'[c] = loc[c],
           Agrees(r)',
           \A k \in Keys : cache'[k] # None => cache'[k] = cache[k] \/ Entry(k, cache'[k])
    PROVE  PastInv' /\ ReadInv'
<1>1. \A w \in Creates : pc'[w] = pc[w]
  BY CallsAssumption DEF Calls
<1>2. OrgGrows /\ WsGrows /\ PastInv'
  BY <1>1, StillGrows, StillPast
<1>3. \A q \in Resolvers : Agrees(q)'
  BY <1>2, AgreesFrame DEF ReadInv, Calls
<1>4. \A k \in Keys : cache'[k] # None => Entry(k, cache'[k])
  BY DEF ReadInv
<1>5. \A k \in Keys : cache'[k] # None => NotAhead(k)' /\ \E l \in Readings(k)' : cache'[k] = Effective(l)
  BY <1>2, <1>4, KeysGrow, NoneNotARow DEF Entry
<1> QED BY <1>2, <1>3, <1>5 DEF ReadInv, Entry

LEMMA ResolversKeep ==
    ASSUME IInv, PastInv, ReadInv, NEW r \in Resolvers,
           ResolveOrg(r) \/ ResolveFail(r) \/ ResolveWs(r) \/ ResolveLookup(r) \/ ResolveStore(r)
    PROVE  PastInv' /\ ReadInv'
<1>1. /\ org' = org /\ ws' = ws /\ orgPast' = orgPast /\ wsPast' = wsPast
      /\ \A c \in Calls \ {r} : pc'[c] = pc[c] /\ loc'[c] = loc[c]
  BY DEF ResolveOrg, ResolveFail, ResolveWs, ResolveLookup, ResolveStore, Return, Step, rows,
       IInv,
       TypeOK
<1>2. r \in DOMAIN pc /\ r \in DOMAIN loc
  BY DEF IInv, TypeOK, Calls
<1>3. \A w \in Creates : pc'[w] = pc[w]
  BY <1>1, CallsAssumption DEF Calls
<1>4. CASE ResolveOrg(r)
  <2>1. PICK o \in owned \cup {User} :
          Step(r, IF o = User THEN "lookup" ELSE "ws",
               [owner |-> o, gens |-> <<org.gen, 0>>, levels |-> {org.fetch, Manifest}])
    BY <1>4 DEF ResolveOrg
  <2>2. /\ loc'[r] = [owner |-> o, gens |-> <<org.gen, 0>>, levels |-> {org.fetch, Manifest}]
        /\ pc'[r] = IF o = User THEN "lookup" ELSE "ws"
    BY <1>2, <2>1 DEF Step
  <2>3. org.fetch \in orgPast.under[org.gen] /\ org.gen <= org.gen
    BY DEF PastInv, IInv, TypeOK, OrgRow
  <2>4. Agrees(r)'
    BY <1>1, <2>2, <2>3 DEF Agrees, Key, Readings, NotAhead, Known
  <2>5. cache' = cache
    BY <1>4 DEF ResolveOrg
  <2> QED BY <1>1, <2>4, <2>5, ResolverFrame
<1>5. CASE ResolveFail(r)
  <2>1. pc'[r] = "done" /\ cache' = cache
    BY <1>2, <1>5 DEF ResolveFail, Step
  <2>2. Agrees(r)'
    BY <2>1 DEF Agrees
  <2> QED BY <1>1, <2>1, <2>2, ResolverFrame
<1>6. CASE ResolveWs(r)
  <2> DEFINE w == loc[r].owner
             g == loc[r].gens[1]
  <2>1. /\ pc[r] = "ws" /\ ws[w] # None /\ pc'[r] = "lookup" /\ cache' = cache
        /\ loc'[r] = [owner |-> w, gens |-> <<g, ws[w].gen>>, levels |-> loc[r].levels \cup {ws[w].fetch}]
    BY <1>2, <1>6 DEF ResolveWs, Step
  <2>2. w \in Creates /\ w # User /\ pc[w] = "created" /\ pc'[w] = "created" /\ w \in Existing
    BY <1>3, <2>1, NoneNotARow DEF IInv, LocalInv, Resolving, Known, Existing
  <2>3. /\ ~orgPast.lost => g <= org.gen
        /\ \E p \in orgPast.under[g] : loc[r].levels = {p, Manifest}
    BY <2>1 DEF ReadInv, Agrees
  <2>4. ws[w].fetch \in wsPast[w].under[ws[w].gen] /\ ws[w].gen <= ws[w].gen
    BY <2>2 DEF PastInv, IInv, TypeOK, WsRow, Existing
  <2>5. PICK k : k = Key(loc[r])' /\ k = <<g, ws[w].gen, w>>
    <3>1. Key(loc[r])' = <<g, ws[w].gen, w>>
      BY <2>1 DEF Key
    <3> QED BY <3>1
  <2> HIDE DEF w, g
  <2>6. NotAhead(k)'
    BY <1>1, <2>2, <2>3, <2>4, <2>5 DEF NotAhead, Known
  <2>7. loc'[r].levels \in Readings(k)'
    <3>1. PICK p \in orgPast.under[g] : loc[r].levels = {p, Manifest}
      BY <2>3
    <3>2. loc'[r].levels = {p, Manifest, ws[w].fetch}
      BY <2>1, <3>1
    <3>3. Readings(k)' = {{x, Manifest, q} : x \in orgPast.under[g], q \in wsPast[w].under[ws[w].gen]}
      BY <1>1, <2>2, <2>5 DEF Readings
    <3> QED BY <2>4, <3>2, <3>3
  <2>8. Agrees(r)'
    <3>1. NotAhead(Key(loc[r]))' /\ Readings(Key(loc[r]))' = Readings(k)'
      BY <2>5, <2>6 DEF NotAhead, Readings
    <3> QED BY <2>1, <2>7, <3>1 DEF Agrees
  <2> QED BY <1>1, <2>1, <2>8, ResolverFrame
<1>7. CASE ResolveLookup(r)
  <2>1. /\ pc[r] = "lookup" /\ cache' = cache
        /\ pc'[r] = "done" \/ (pc'[r] = "store" /\ loc'[r] = loc[r])
    BY <1>2, <1>7 DEF ResolveLookup, Return, Step
  <2>2. PICK k : k = Key(loc[r])
    OBVIOUS
  <2>3. NotAhead(k) /\ loc[r].levels \in Readings(k)
    BY <2>1, <2>2 DEF ReadInv, Agrees
  <2>4. NotAhead(k)' /\ Readings(k)' = Readings(k)
    BY <1>1, <1>3, <2>3 DEF NotAhead, Known, Readings
  <2>5. pc'[r] = "store" => k = Key(loc[r])'
    BY <2>1, <2>2 DEF Key
  <2>6. Agrees(r)'
    BY <2>1, <2>3, <2>4, <2>5 DEF Agrees, Readings, NotAhead
  <2> QED BY <1>1, <2>1, <2>6, ResolverFrame
<1>8. CASE ResolveStore(r)
  <2>1. PICK k \in Keys : k = Key(loc[r])
    BY <1>8, KeyTyped DEF ResolveStore
  <2>2. /\ pc[r] = "store" /\ pc'[r] = "done"
        /\ cache' = [cache EXCEPT ![k] = Effective(loc[r].levels)]
    BY <1>2, <1>8, <2>1 DEF ResolveStore, Return, Step
  <2>3. Entry(k, Effective(loc[r].levels))
    BY <2>1, <2>2 DEF ReadInv, Agrees, Entry
  <2>4. \A j \in Keys : cache'[j] = cache[j] \/ Entry(j, cache'[j])
    BY <2>2, <2>3 DEF IInv, TypeOK
  <2>5. Agrees(r)'
    BY <2>2 DEF Agrees
  <2> QED BY <1>1, <2>4, <2>5, ResolverFrame
<1> QED BY <1>4, <1>5, <1>6, <1>7, <1>8

\* The rows, the cache and the resolvers stay in step with the histories,
\* whatever patches overlap.
LEMMA ReadsKeep ==
    ASSUME IInv, PastInv, ReadInv, [Next]_vars
    PROVE  PastInv' /\ ReadInv'
<1>1. ASSUME org' = org, orgPast' = orgPast, wsPast' = wsPast, cache' = cache,
             \A w \in Creates : ws'[w] = ws[w] \/ ws'[w] = None,
             \A w \in Creates : pc[w] = "created" => pc'[w] = "created",
             \A r \in Resolvers : pc'[r] = pc[r] /\ loc'[r] = loc[r]
      PROVE  PastInv' /\ ReadInv'
  BY <1>1, StillGrows, StillPast, ReadFrame
<1>2. ASSUME NEW a \in OrgPatches, OrgPatchRead(a) \/ OrgPatchGuard(a) PROVE PastInv' /\ ReadInv'
  BY <1>1, <1>2, CallsAssumption DEF OrgPatchRead, OrgPatchGuard, Done, Step, rows, IInv, TypeOK,
       Calls
<1>3. ASSUME NEW a \in OrgPatches, OrgPatchWrite(a) PROVE PastInv' /\ ReadInv'
  BY <1>3, OrgWriteKeeps
<1>4. ASSUME NEW b \in WsPatches, WsPatchRead(b) PROVE PastInv' /\ ReadInv'
  BY <1>1, <1>4, CallsAssumption DEF WsPatchRead, Step, rows, IInv, TypeOK, Calls
<1>5. ASSUME NEW b \in WsPatches, WsPatchWrite(b) PROVE PastInv' /\ ReadInv'
  <2>1. /\ org' = org /\ orgPast' = orgPast /\ cache' = cache
        /\ loc[b].w \in Creates /\ loc[b].new \in WsRow
        /\ \A v \in Creates : pc'[v] = pc[v]
        /\ \A r \in Resolvers : pc'[r] = pc[r] /\ loc'[r] = loc[r]
    BY <1>5, CallsAssumption DEF WsPatchWrite, WsPatchStore, Done, Step, IInv, TypeOK, Calls,
         LocalInv,
         Known
  <2>2. CASE ws[loc[b].w] = None
    <3>1. ws' = ws /\ wsPast' = wsPast
      BY <1>5, <2>2 DEF WsPatchWrite, WsPatchStore, IInv, TypeOK
    <3> QED BY <1>1, <2>1, <3>1
  <2>3. CASE ws[loc[b].w] # None
    <3>1. PICK lost \in BOOLEAN : lost = (ws[loc[b].w] # loc[b].old)
      OBVIOUS
    <3>2. /\ ws' = [ws EXCEPT ![loc[b].w] = loc[b].new]
          /\ wsPast' = [wsPast EXCEPT ![loc[b].w] = Remember(@, lost, loc[b].new)]
      BY <1>5, <2>3, <3>1 DEF WsPatchWrite, WsPatchStore
    <3>3. ~lost => loc[b].new.gen = ws[loc[b].w].gen + 1
      BY <1>5, <3>1 DEF WsPatchWrite, WsPatchStore, IInv, LocalInv
    <3> QED BY <2>1, <2>3, <3>2, <3>3, WsWriteKeeps
  <2> QED BY <2>2, <2>3
<1>6. ASSUME NEW c \in Creates, CreateInsert(c) PROVE PastInv' /\ ReadInv'
  <2> DEFINE row == [fetch |-> AllowAll, gen |-> 1]
  <2>1. /\ org' = org /\ orgPast' = orgPast /\ cache' = cache /\ ws' = [ws EXCEPT ![c] = row]
        /\ ws'[c] = row
        /\ \A v \in Creates : pc[v] = "created" => pc'[v] = "created"
        /\ \A r \in Resolvers : pc'[r] = pc[r] /\ loc'[r] = loc[r]
    BY <1>6, CallsAssumption DEF CreateInsert, Step, IInv, TypeOK, Calls
  <2>2. PICK lost \in BOOLEAN : lost = FALSE
    OBVIOUS
  <2>3. wsPast' = [wsPast EXCEPT ![c] = Remember(@, lost, row)]
    BY <1>6, <2>1, <2>2 DEF CreateInsert
  <2>4. row \in WsRow /\ ~Known(c) /\ ws[c] = None
    BY <1>6, MaxGenAssumption, NoneNotARow DEF CreateInsert, WsRow, IInv, KnownInv, Known
  <2> QED BY <2>1, <2>3, <2>4, WsWriteKeeps
<1>7. ASSUME NEW c \in Creates, CreateCheck(c) \/ LastFunctionDeleted(c) PROVE PastInv' /\ ReadInv'
  BY <1>1, <1>7, CallsAssumption DEF CreateCheck, LastFunctionDeleted, Step, rows, IInv, TypeOK,
       Calls
<1>8. ASSUME NEW x \in WsDeletes, WsDeleteCheck(x) \/ WsDeleteMembers(x) \/ WsDeleteRow(x)
      PROVE  PastInv' /\ ReadInv'
  BY <1>1, <1>8, CallsAssumption DEF WsDeleteCheck, WsDeleteMembers, WsDeleteRow, Done, Step,
       rows,
       IInv, TypeOK, Calls
<1>9. ASSUME NEW m \in MemberEdits, MemberRead(m) \/ MemberAdd(m) \/ MemberUpdate(m)
      PROVE  PastInv' /\ ReadInv'
  BY <1>1, <1>9, CallsAssumption DEF MemberRead, MemberAdd, MemberUpdate, Done, Step, rows,
       IInv, TypeOK, Calls
<1>10. ASSUME NEW d \in Deploys, DeployLoad(d) \/ DeployResolve(d) \/ DeployCreate(d)
      PROVE  PastInv' /\ ReadInv'
  BY <1>1, <1>10, CallsAssumption DEF DeployLoad, DeployResolve, DeployCreate, Done, Step, rows,
       IInv, TypeOK, Calls
<1>11. ASSUME NEW r \in Resolvers,
             ResolveOrg(r) \/ ResolveFail(r) \/ ResolveWs(r) \/ ResolveLookup(r) \/ ResolveStore(r)
      PROVE  PastInv' /\ ReadInv'
  BY <1>11, ResolversKeep
<1>12. ASSUME NEW c \in Calls, Abort(c) PROVE PastInv' /\ ReadInv'
  BY <1>1, <1>12 DEF Abort, Done, Step, rows, IInv, TypeOK, Calls
<1>13. CASE Idle \/ UNCHANGED vars
  BY <1>1, <1>13 DEF Idle, vars
<1> QED BY <1>2, <1>3, <1>4, <1>5, <1>6, <1>7, <1>8, <1>9, <1>10, <1>11, <1>12, <1>13 DEF Next

\* What has stood under the generations of a key are policies.
LEMMA ReadingsArePolicies ==
    ASSUME IInv, NEW k \in Keys, NEW levels \in Readings(k)
    PROVE  levels \in SUBSET FetchPolicy /\ levels # {}
<1>1. PICK g \in 0..MaxGen, h \in 0..MaxGen, o \in Creates \cup {User} : k = <<g, h, o>>
  BY DEF Keys
<1>2. orgPast.under[g] \subseteq Settings /\ (o # User => wsPast[o].under[h] \subseteq Settings)
  BY <1>1 DEF IInv, TypeOK, Past
<1>3. Manifest \in Settings
  BY DEF Settings
<1> QED BY <1>1, <1>2, <1>3, SettingsArePolicies DEF Readings

\* What a resolver returns, from its levels or from the cache, permits no more
\* than the policies it has met.
LEMMA NoStaleKeeps ==
    ASSUME IInv, ReadInv, NoStalePermission, [Next]_vars
    PROVE  NoStalePermission'
<1>1. ASSUME \A q \in Resolvers :
                 \/ pc'[q] # "done"
                 \/ pc'[q] = pc[q] /\ loc'[q] = loc[q] /\ (pc[q] \in Resolving \/ seen'[q] = seen[q])
      PROVE  NoStalePermission'
  BY <1>1 DEF NoStalePermission, Resolving
<1>2. ASSUME NEW r \in Resolvers,
             \A q \in Resolvers \ {r} : pc'[q] = pc[q] /\ loc'[q] = loc[q] /\ seen'[q] = seen[q],
             NEW e, loc'[r].eff = e,
             \A h \in Hosts : Decision(e, h) =>
                 /\ Permits(Manifest, h)
                 /\ \E p \in seen'[r].org : Permits(p, h)
                 /\ loc'[r].owner # User => \E p \in seen'[r].ws : Permits(p, h)
      PROVE  NoStalePermission'
  <2> SUFFICES ASSUME NEW q \in Resolvers, pc'[q] = "done", NEW h \in Hosts, Decision(loc'[q].eff, h)
               PROVE  /\ Permits(Manifest, h)
                      /\ \E p \in seen'[q].org : Permits(p, h)
                      /\ loc'[q].owner # User => \E p \in seen'[q].ws : Permits(p, h)
    BY DEF NoStalePermission, Decision, Permits
  <2>1. CASE q = r
    BY <1>2, <2>1
  <2>2. CASE q # r
    BY <1>2, <2>2 DEF NoStalePermission
  <2> QED BY <2>1, <2>2
<1>3. ASSUME NEW r \in Resolvers, pc[r] \in {"lookup", "store"}, NEW levels \in Readings(Key(loc[r])),
             NEW h \in Hosts, Decision(Effective(levels), h)
      PROVE  /\ Permits(Manifest, h)
             /\ \E p \in seen[r].org : Permits(p, h)
             /\ loc[r].owner # User => \E p \in seen[r].ws : Permits(p, h)
  <2> DEFINE o == loc[r].owner
  <2>1. /\ Key(loc[r])[1] = loc[r].gens[1] /\ Key(loc[r])[2] = loc[r].gens[2] /\ Key(loc[r])[3] = o
        /\ Key(loc[r]) \in Keys
    BY <1>3, KeyTyped DEF Key
  <2>2. /\ orgPast.under[loc[r].gens[1]] \subseteq seen[r].org
        /\ o # User => wsPast[o].under[loc[r].gens[2]] \subseteq seen[r].ws
    BY <1>3 DEF IInv, SeenInv, Resolving
  <2>3. PICK p \in seen[r].org : p \in levels /\ Manifest \in levels
    BY <1>3, <2>1, <2>2 DEF Readings
  <2>4. o # User => \E q \in seen[r].ws : q \in levels
    BY <1>3, <2>1, <2>2 DEF Readings
  <2>5. levels \in SUBSET FetchPolicy
    BY <1>3, <2>1, ReadingsArePolicies
  <2>6. \A q \in levels : Permits(q, h)
    BY <1>3, <2>3, <2>5, EffectiveIsExact
  <2> QED BY <2>3, <2>4, <2>6
<1>4. ASSUME NEW r \in Resolvers, ResolveOrg(r) PROVE NoStalePermission'
  <2>1. pc'[r] # "done" /\ \A q \in Resolvers \ {r} : pc'[q] = pc[q] /\ loc'[q] = loc[q] /\ seen'[q] = seen[q]
    BY <1>4 DEF ResolveOrg, Step, IInv, TypeOK, Calls
  <2> QED BY <1>1, <2>1
<1>5. ASSUME NEW r \in Resolvers, ResolveWs(r) PROVE NoStalePermission'
  <2>1. pc'[r] # "done" /\ \A q \in Resolvers \ {r} : pc'[q] = pc[q] /\ loc'[q] = loc[q] /\ seen'[q] = seen[q]
    BY <1>5 DEF ResolveWs, Step, IInv, TypeOK, Calls
  <2> QED BY <1>1, <2>1
<1>6. ASSUME NEW r \in Resolvers, ResolveFail(r) PROVE NoStalePermission'
  <2>1. /\ loc'[r].eff = Effective({DenyAll})
        /\ \A q \in Resolvers \ {r} : pc'[q] = pc[q] /\ loc'[q] = loc[q] /\ seen'[q] = seen[q]
    BY <1>6 DEF ResolveFail, Step, IInv, TypeOK, Calls
  <2> QED BY <1>2, <2>1, FailsClosed
<1>7. ASSUME NEW r \in Resolvers, ResolveStore(r) PROVE NoStalePermission'
  <2>1. /\ pc[r] = "store" /\ seen' = seen
        /\ loc'[r] = [owner |-> loc[r].owner, eff |-> Effective(loc[r].levels)]
        /\ loc[r].levels \in Readings(Key(loc[r]))
        /\ \A q \in Resolvers \ {r} : pc'[q] = pc[q] /\ loc'[q] = loc[q] /\ seen'[q] = seen[q]
    BY <1>7 DEF ResolveStore, Return, Step, IInv, TypeOK, Calls, ReadInv, Agrees
  <2> QED BY <1>2, <1>3, <2>1
<1>8. ASSUME NEW r \in Resolvers, ResolveLookup(r) PROVE NoStalePermission'
  <2>1. PICK e : e = cache[Key(loc[r])]
    OBVIOUS
  <2>2. /\ pc[r] = "lookup" /\ seen' = seen
        /\ \A q \in Resolvers \ {r} : pc'[q] = pc[q] /\ loc'[q] = loc[q] /\ seen'[q] = seen[q]
    BY <1>8 DEF ResolveLookup, Return, Step, IInv, TypeOK, Calls
  <2>3. CASE e = None
    <3>1. pc'[r] = "store"
      BY <1>8, <2>1, <2>3 DEF ResolveLookup, Step, IInv, TypeOK, Calls
    <3> QED BY <1>1, <2>2, <3>1
  <2>4. CASE e # None
    <3>1. loc'[r] = [owner |-> loc[r].owner, eff |-> e]
      BY <1>8, <2>1, <2>4 DEF ResolveLookup, Return, Step, IInv, TypeOK, Calls
    <3>2. PICK levels \in Readings(Key(loc[r])) : e = Effective(levels)
      BY <2>1, <2>2, <2>4, KeyTyped DEF ReadInv, Entry
    <3> QED BY <1>2, <1>3, <2>2, <3>1, <3>2
  <2> QED BY <2>3, <2>4
<1>9. ASSUME NEW a \in OrgPatches, OrgPatchWrite(a) PROVE NoStalePermission'
  <2>1. \A q \in Resolvers : pc'[q] = pc[q] /\ loc'[q] = loc[q] /\ (pc[q] \in Resolving \/ seen'[q] = seen[q])
    BY <1>9, CallsAssumption DEF OrgPatchWrite, SeeOrg, Done, Step, IInv, TypeOK, Calls
  <2> QED BY <1>1, <2>1
<1>10. ASSUME NEW b \in WsPatches, WsPatchWrite(b) PROVE NoStalePermission'
  <2>1. \A q \in Resolvers : pc'[q] = pc[q] /\ loc'[q] = loc[q] /\ (pc[q] \in Resolving \/ seen'[q] = seen[q])
    BY <1>10, CallsAssumption DEF WsPatchWrite, WsPatchStore, SeeWs, Done, Step, IInv, TypeOK,
         Calls
  <2> QED BY <1>1, <2>1
<1>11. CASE /\ seen' = seen
            /\ \A q \in Resolvers : pc'[q] = pc[q] /\ loc'[q] = loc[q]
  BY <1>1, <1>11
<1>12. ASSUME NEW a \in OrgPatches, OrgPatchRead(a) \/ OrgPatchGuard(a) PROVE NoStalePermission'
  BY <1>11, <1>12, CallsAssumption DEF OrgPatchRead, OrgPatchGuard, Done, Step, IInv, TypeOK,
       Calls
<1>13. ASSUME NEW b \in WsPatches, WsPatchRead(b) PROVE NoStalePermission'
  BY <1>11, <1>13, CallsAssumption DEF WsPatchRead, Step, IInv, TypeOK, Calls
<1>14. ASSUME NEW c \in Creates, CreateCheck(c) \/ CreateInsert(c) \/ LastFunctionDeleted(c)
      PROVE  NoStalePermission'
  BY <1>11, <1>14, CallsAssumption DEF CreateCheck, CreateInsert, LastFunctionDeleted, Step, IInv,
       TypeOK, Calls
<1>15. ASSUME NEW x \in WsDeletes, WsDeleteCheck(x) \/ WsDeleteMembers(x) \/ WsDeleteRow(x)
      PROVE  NoStalePermission'
  BY <1>11, <1>15, CallsAssumption DEF WsDeleteCheck, WsDeleteMembers, WsDeleteRow, Done, Step,
       IInv, TypeOK, Calls
<1>16. ASSUME NEW m \in MemberEdits, MemberRead(m) \/ MemberAdd(m) \/ MemberUpdate(m)
      PROVE  NoStalePermission'
  BY <1>11, <1>16, CallsAssumption DEF MemberRead, MemberAdd, MemberUpdate, Done, Step,
       IInv, TypeOK, Calls
<1>17. ASSUME NEW d \in Deploys, DeployLoad(d) \/ DeployResolve(d) \/ DeployCreate(d)
      PROVE  NoStalePermission'
  BY <1>11, <1>17, CallsAssumption DEF DeployLoad, DeployResolve, DeployCreate, Done, Step,
       IInv, TypeOK, Calls
<1>18. ASSUME NEW c \in Calls, Abort(c) PROVE NoStalePermission'
  BY <1>11, <1>18 DEF Abort, Done, Step, IInv, TypeOK, Calls
<1>19. CASE Idle \/ UNCHANGED vars
  BY <1>11, <1>19 DEF Idle, vars
<1> QED BY <1>4, <1>5, <1>6, <1>7, <1>8, <1>9, <1>10, <1>12, <1>13, <1>14, <1>15, <1>16, <1>17,
        <1>18, <1>19 DEF Next

LEMMA CacheInit == Init => CacheInv
<1> SUFFICES ASSUME Init PROVE CacheInv
  OBVIOUS
<1>1. ReadInv /\ NoStalePermission
  BY DEF Init, ReadInv, Agrees, NoStalePermission, Calls
<1>2. orgPast.under[org.gen] = {org.fetch}
  BY MaxGenAssumption DEF Init, Remember, NoPast
<1> QED BY <1>1, <1>2 DEF Init, CacheInv, PastInv, Existing

\* A generation stands for one policy until overlapping patches lose an update,
\* and nothing is decided on a policy that was replaced before the call.
THEOREM CacheInvariance == Spec => []CacheInv
<1>1. Init => CacheInv
  BY CacheInit
<1>2. IInv /\ CacheInv /\ [Next]_vars => CacheInv'
  BY ReadsKeep, NoStaleKeeps DEF CacheInv
<1> QED BY <1>1, <1>2, Invariance, PTL DEF Spec

\* A warm pool never lets a fetch through on a policy that was replaced before
\* the call, whatever resolvers fill the cache and whatever patches, creates
\* and deletes run and overlap meanwhile; once an update was lost, the other
\* policies stored under a generation in force count as well.
THEOREM NothingStaleIsPermitted == Spec => []NoStalePermission
<1>1. CacheInv => NoStalePermission
  BY DEF CacheInv
<1> QED BY <1>1, CacheInvariance, PTL

\* An entry for the generations in force decides every host as the rows and
\* the manifest do, or, once overlapping patches have lost an update of one of
\* the rows, as policies stored under the same generations do.
THEOREM CacheIsCurrent == Spec => []CacheMatchesRows
<1>1. IInv /\ CacheInv => CacheMatchesRows
  <2> SUFFICES ASSUME IInv, CacheInv, NEW o \in Existing \cup {User}, NEW k, k = KeyOf(o), cache[k] # None
               PROVE  \E levels \in IF LostUpdate(o) THEN Readings(k) ELSE {LevelsOf(o)} :
                          \A h \in Hosts : Decision(cache[k], h) <=> \A p \in levels : Permits(p, h)
    BY DEF CacheMatchesRows
  <2>1. k \in Keys
    BY MaxGenAssumption DEF KeyOf, Keys, Existing, IInv, TypeOK, OrgRow, WsRow
  <2>2. PICK levels \in Readings(k) : cache[k] = Effective(levels)
    BY <2>1 DEF CacheInv, ReadInv, Entry
  <2>3. levels \in SUBSET FetchPolicy /\ levels # {}
    BY <2>1, ReadingsArePolicies
  <2>4. \A h \in Hosts : Decision(cache[k], h) <=> \A p \in levels : Permits(p, h)
    BY <2>2, <2>3, EffectiveIsExact
  <2>5. ~LostUpdate(o) => Readings(k) = {LevelsOf(o)}
    <3>1. CASE o = User
      BY <3>1 DEF CacheInv, PastInv, LostUpdate, KeyOf, Readings, LevelsOf
    <3>2. CASE o # User
      <4>1. k[1] = org.gen /\ k[2] = ws[o].gen /\ k[3] = o
        BY <3>2 DEF KeyOf
      <4>2. ~LostUpdate(o) => /\ orgPast.under[org.gen] = {org.fetch}
                              /\ wsPast[o].under[ws[o].gen] = {ws[o].fetch}
        BY <3>2 DEF CacheInv, PastInv, LostUpdate
      <4> QED BY <3>2, <4>1, <4>2 DEF Readings, LevelsOf
    <3> QED BY <3>1, <3>2
  <2> QED BY <2>4, <2>5
<1> QED BY <1>1, CacheInvariance, Invariance, PTL
=============================================================================
