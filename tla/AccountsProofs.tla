--------------------------- MODULE AccountsProofs ----------------------------
(***************************************************************************)
(* Machine-checked proofs about Accounts, for any number of logins, calls, *)
(* identities, addresses and public user ids.                              *)
(***************************************************************************)
EXTENDS Accounts, TLAPS

\* The places of a login between the callback and its end.
Identified == Places \ {"start", "away", "in", "done", "denied", "failed"}

\* The places at which a call works on an account it has found, ...
OnAUser == {"known", "refresh", "offer", "confirm", "recheck", "oldHandle", "link", "takeName",
            "guard", "write", "lookup", "rename"}

\* ... at which it holds the row it has read, ...
WithCopy == {"known", "refresh", "recheck", "oldHandle", "link", "guard", "write"}

\* ... and of the way only a GitHub identity takes.
Linking == {"handle", "email", "offer", "confirm", "recheck", "oldHandle", "link", "takeName"}

\* The places a login reaches only after the rules have admitted it, or after
\* it bootstrapped the organization.
Cleared == {"refresh", "create", "again", "derive", "claim", "seed", "session",
            "oldHandle", "link", "takeName", "in"}

\* The places after a login has created its account, and the ones of them
\* after it has claimed a public user id.
Created == {"derive", "claim", "seed", "session", "in", "failed"}
Claimed == {"seed", "session", "in"}

\* What the registers of a call hold where it is.
CallOK(c) ==
    /\ pc[c] \in OnAUser => uid[c] \in Users
    /\ pc[c] \in WithCopy => copy[c] \in Row
    /\ pc[c] \in {"link", "takeName"} => old[c] \in Handles \cup {None}
    /\ pc[c] = "rename" => old[c] \in Handles /\ hd[c] \in Handles

LoginOK(l) ==
    /\ pc[l] \in Identified => who[l] \in Subjects /\ seen[l] \in Emails
    /\ pc[l] \in Linking => who[l] \in GitHub
    /\ pc[l] = "claim" => who[l] \in GitHub \/ hd[l] \in Handles
    /\ pc[l] \in Cleared => seen[l] \in ever \/ booted[l]
    /\ pc[l] \in {"derive", "claim", "seed"} => users[l] # None
    /\ users[l] # None => uid[l] = l /\ pc[l] \in Created
    /\ users[l] # None /\ pc[l] \in Claimed => ByOwner(l) # {}

RulesOK(c) == pc[c] = "replace" => seen[c] \subseteq Emails

\* The inductive invariant.
IInv ==
    /\ TypeOK
    /\ \A c \in Calls : CallOK(c)
    /\ \A l \in Logins : LoginOK(l)
    /\ \A c \in Ruleses : RulesOK(c)

-----------------------------------------------------------------------------
(***************************************************************************)
(* Frames.                                                                 *)
(***************************************************************************)

\* What a step of the call c leaves alone: the registers of every other call.
OthersRest(c) ==
    /\ \A d \in Calls \ {c} : /\ pc'[d] = pc[d] /\ seen'[d] = seen[d] /\ uid'[d] = uid[d]
                              /\ copy'[d] = copy[d] /\ hd'[d] = hd[d] /\ old'[d] = old[d]
    /\ \A l \in Logins \ {c} : who'[l] = who[l] /\ booted'[l] = booted[l]

\* What no step undoes: a user row stays, an address once admitted stays so,
\* and a user that has a public user id keeps one.
RowsLast ==
    /\ \A u \in Logins : users[u] # None => users'[u] # None
    /\ ever \subseteq ever'
    /\ \A u \in Logins : ByOwner(u) # {} => ByOwner(u)' # {}

\* What the invariant says of the call that steps.
StepperOK(c) ==
    /\ CallOK(c)
    /\ c \in Logins => LoginOK(c)
    /\ c \in Ruleses => RulesOK(c)

\* A step of one call keeps the invariant if it keeps the types, leaves the
\* other calls alone and creates no account but its own.
LEMMA StepKeeps ==
    ASSUME IInv, NEW c \in Calls, TypeOK', OthersRest(c), RowsLast, StepperOK(c)',
           \A l \in Logins \ {c} : users'[l] # None => users[l] # None
    PROVE  IInv'
<1>1. ASSUME NEW d \in Calls PROVE CallOK(d)'
  <2>1. CASE d = c
    BY <2>1 DEF StepperOK
  <2>2. CASE d # c
    BY <2>2 DEF IInv, CallOK, OthersRest, RowsLast, Users
  <2> QED BY <2>1, <2>2
<1>2. ASSUME NEW l \in Logins PROVE LoginOK(l)'
  <2>1. CASE l = c
    BY <2>1 DEF StepperOK
  <2>2. CASE l # c
    <3>1. l \in Calls \ {c} /\ l \in Logins \ {c} /\ LoginOK(l)
      BY <2>2 DEF Calls, IInv
    <3>2. /\ pc'[l] = pc[l] /\ seen'[l] = seen[l] /\ uid'[l] = uid[l] /\ hd'[l] = hd[l]
          /\ who'[l] = who[l] /\ booted'[l] = booted[l]
      BY <3>1 DEF OthersRest
    <3>3. (users'[l] # None <=> users[l] # None) /\ ever \subseteq ever'
      BY <3>1 DEF RowsLast
    <3>4. ByOwner(l) # {} => ByOwner(l)' # {}
      BY DEF RowsLast
    <3> QED BY <3>1, <3>2, <3>3, <3>4 DEF LoginOK
  <2> QED BY <2>1, <2>2
<1>3. ASSUME NEW d \in Ruleses PROVE RulesOK(d)'
  <2>1. CASE d = c
    BY <2>1 DEF StepperOK
  <2>2. CASE d # c
    BY <2>2 DEF IInv, RulesOK, OthersRest, Calls
  <2> QED BY <2>1, <2>2
<1> QED BY <1>1, <1>2, <1>3 DEF IInv

\* Without a change of the tables nothing of them is lost.
LEMMA RestingRowsLast ==
    ASSUME UNCHANGED rowVars
    PROVE  RowsLast /\ (\A u \in Logins : users'[u] = users[u]) /\ Users' = Users
BY DEF rowVars, RowsLast, Users, ByOwner

\* A call that only goes on to another place.
LEMMA MoveKeeps ==
    ASSUME IInv, NEW c \in Calls, NEW q \in Places, Goto(c, q),
           UNCHANGED <<rowVars, env, callVars>>, StepperOK(c)'
    PROVE  IInv'
<1>1. RowsLast /\ (\A u \in Logins : users'[u] = users[u]) /\ Users' = Users
  BY RestingRowsLast
<1>2. pc \in [Calls -> Places] /\ pc' = [pc EXCEPT ![c] = q] /\ pc' \in [Calls -> Places]
  BY DEF IInv, TypeOK, Goto
<1>3. TypeOK'
  BY <1>1, <1>2 DEF IInv, TypeOK, rowVars, env, callVars, Clash
<1>4. OthersRest(c)
  BY <1>2 DEF OthersRest, callVars
<1> QED BY <1>1, <1>3, <1>4, StepKeeps

\* A call that also loads registers of its own.
LEMMA LoadKeeps ==
    ASSUME IInv, NEW c \in Calls, NEW q \in Places, Goto(c, q), UNCHANGED <<rowVars, env>>,
           who' \in [Logins -> Subjects \cup {None}],
           seen' \in [Calls -> Emails \cup (SUBSET Emails) \cup {None}],
           uid' \in [Calls -> Users \cup {None}],
           copy' \in [Calls -> Row \cup {None}],
           hd' \in [Calls -> Handles \cup {None}],
           old' \in [Calls -> Handles \cup Users \cup {None}],
           booted' = booted, OthersRest(c), StepperOK(c)'
    PROVE  IInv'
<1>1. RowsLast /\ (\A u \in Logins : users'[u] = users[u]) /\ Users' = Users
  BY RestingRowsLast
<1>2. pc' \in [Calls -> Places]
  BY DEF IInv, TypeOK, Goto
<1>3. TypeOK'
  BY <1>1, <1>2 DEF IInv, TypeOK, rowVars, env, Clash
<1> QED BY <1>1, <1>3, StepKeeps

-----------------------------------------------------------------------------
(***************************************************************************)
(* The initial states, and the steps that change no register.              *)
(***************************************************************************)

\* The initial states satisfy the invariant.
LEMMA InitInv == Init => IInv
<1> SUFFICES ASSUME Init PROVE IInv
  OBVIOUS
<1> USE NoneAssumption DEF Init, InitWith
<1>0. Users = {} /\ \A c \in Calls : pc[c] = "start"
  BY DEF Users
<1>1. TypeOK
  <2>1. /\ users \in [Logins -> Row \cup {None}] /\ handles \in [Handles -> Users \cup {None}]
        /\ who \in [Logins -> Subjects \cup {None}] /\ booted \in [Logins -> BOOLEAN]
    OBVIOUS
  <2>2. pc \in [Calls -> Places]
    BY DEF Places
  <2>3. /\ uid \in [Calls -> Users \cup {None}] /\ copy \in [Calls -> Row \cup {None}]
        /\ hd \in [Calls -> Handles \cup {None}]
    OBVIOUS
  <2>7. seen \in [Calls -> Emails \cup (SUBSET Emails) \cup {None}]
    OBVIOUS
  <2>6. old \in [Calls -> Handles \cup Users \cup {None}]
    OBVIOUS
  <2>4. org \in BOOLEAN /\ rules \subseteq ever /\ ever \subseteq Emails
        /\ mail \in [Subjects -> Emails] /\ mode \in {"google", "github"}
    OBVIOUS
  <2>5. \A g \in Handles : handles[g] = None
    OBVIOUS
  <2> QED BY <1>0, <2>1, <2>2, <2>3, <2>4, <2>5, <2>6, <2>7 DEF TypeOK
<1>2. ASSUME NEW c \in Calls PROVE CallOK(c)
  BY <1>0, <1>2 DEF CallOK, OnAUser, WithCopy
<1>3. ASSUME NEW l \in Logins PROVE LoginOK(l)
  <2>1. pc[l] = "start" /\ users[l] = None
    BY <1>0 DEF Calls
  <2> QED BY <2>1 DEF LoginOK, Identified, Linking, Cleared
<1>4. ASSUME NEW c \in Ruleses PROVE RulesOK(c)
  BY <1>0 DEF RulesOK, Calls
<1> QED BY <1>1, <1>2, <1>3, <1>4 DEF IInv

\* What the invariant says of one login, with its account and its registers.
LEMMA LoginFacts ==
    ASSUME IInv, NEW l \in Logins
    PROVE  /\ l \in Calls /\ l \notin Ruleses /\ l \notin Patches /\ l \notin Selfs
           /\ CallOK(l) /\ LoginOK(l) /\ pc[l] \in Places
           /\ uid[l] \in Users \cup {None} /\ copy[l] \in Row \cup {None}
BY CallsAssumption DEF IInv, Calls, TypeOK

\* The lookups, the rule checks and the end of a login.
LEMMA LoginMovesKeep ==
    ASSUME IInv, NEW l \in Logins,
           \/ StartLogin(l) \/ OfferLink(l) \/ ListUsers(l) \/ BootstrapCount(l)
           \/ BootstrapOrgs(l) \/ CheckNew(l) \/ Session(l) \/ Recheck(l)
    PROVE  IInv'
<1> USE LoginFacts
<1>0. UNCHANGED <<rowVars, env, callVars>>
  BY DEF StartLogin, OfferLink, ListUsers, BootstrapCount, BootstrapOrgs, CheckNew, Session,
       Recheck
<1>1. PICK q \in Places :
        /\ Goto(l, q)
        /\ \/ pc[l] = "start" /\ q = "away"
           \/ pc[l] = "offer" /\ q \in {"denied", "failed", "confirm"}
           \/ pc[l] = "list" /\ q \in {"count", "rules"}
           \/ pc[l] = "count" /\ q \in {"orgs", "rules"}
           \/ pc[l] = "orgs" /\ q \in {"insert", "insertBoth"}
           \/ pc[l] = "rules" /\ q = "denied"
           \/ pc[l] = "rules" /\ q = "create" /\ seen[l] \in rules
           \/ pc[l] = "session" /\ q = "in"
           \/ pc[l] = "recheck" /\ q = "denied"
           \/ pc[l] = "recheck" /\ q = "oldHandle" /\ seen[l] \in rules
  BY DEF StartLogin, OfferLink, ListUsers, BootstrapCount, BootstrapOrgs, CheckNew, Session,
       Recheck,
         Places
<1>2. pc'[l] = q
  BY <1>1 DEF Goto, IInv, TypeOK
<1>3. rules \subseteq ever
  BY DEF IInv, TypeOK
<1>4. Users' = Users /\ ByOwner(l)' = ByOwner(l) /\ UNCHANGED <<users, ever>>
  BY <1>0 DEF rowVars, Users, ByOwner
<1>5. CallOK(l)'
  BY <1>0, <1>1, <1>2, <1>4 DEF CallOK, callVars, OnAUser, WithCopy
<1>6. LoginOK(l)'
  BY <1>0, <1>1, <1>2, <1>3, <1>4
     DEF LoginOK, callVars, Identified, Linking, Cleared, Created, Claimed, Places
<1> QED BY <1>0, <1>1, <1>5, <1>6, MoveKeeps DEF StepperOK

\* A call that fails undoes nothing.
LEMMA FailKeeps ==
    ASSUME IInv, NEW c \in Calls, Fail(c)
    PROVE  IInv'
<1>1. Goto(c, "failed") /\ UNCHANGED <<rowVars, env, callVars>> /\ "failed" \in Places
  BY DEF Fail, Places
<1>2. pc'[c] = "failed"
  BY <1>1 DEF Goto, IInv, TypeOK
<1>3. CallOK(c)' /\ RulesOK(c)'
  BY <1>2 DEF CallOK, RulesOK, OnAUser, WithCopy
<1>4. ASSUME c \in Logins PROVE LoginOK(c)'
  <2>1. LoginOK(c) /\ UNCHANGED <<users, uid>>
    BY <1>1, <1>4 DEF IInv, rowVars, callVars
  <2> QED BY <1>2, <2>1 DEF LoginOK, Identified, Linking, Cleared, Created, Claimed
<1> QED BY <1>1, <1>3, <1>4, MoveKeeps DEF StepperOK

\* The people and the operator change things outside the store.
LEMMA OutsideKeeps ==
    ASSUME IInv, (\E s \in Subjects, e \in Emails : ChangeMail(s, e)) \/ Reconfigure
    PROVE  IInv'
<1>1. UNCHANGED <<rowVars, pc, callVars>>
  BY DEF ChangeMail, Reconfigure
<1>2. mail' \in [Subjects -> Emails] /\ mode' \in {"google", "github"}
  BY DEF ChangeMail, Reconfigure, IInv, TypeOK
<1>3. Users' = Users /\ UNCHANGED <<users, handles, ever>>
      /\ \A u \in Logins : ByOwner(u)' = ByOwner(u)
  BY <1>1 DEF rowVars, Users, ByOwner
<1>4. TypeOK'
  BY <1>1, <1>2, <1>3 DEF IInv, TypeOK, rowVars, callVars, Clash
<1>5. \A c \in Calls : CallOK(c)'
  BY <1>1, <1>3 DEF IInv, CallOK, callVars
<1>6. \A l \in Logins : LoginOK(l)'
  BY <1>1, <1>3 DEF IInv, LoginOK, callVars
<1>7. \A c \in Ruleses : RulesOK(c)'
  BY <1>1 DEF IInv, RulesOK, callVars
<1> QED BY <1>4, <1>5, <1>6, <1>7 DEF IInv

-----------------------------------------------------------------------------
(***************************************************************************)
(* The steps that load registers.                                          *)
(***************************************************************************)

\* A row with another address, identity, role or status is still a row.
LEMMA RowEdits ==
    ASSUME NEW r \in Row
    PROVE  /\ \A e \in Emails : [r EXCEPT !.email = e] \in Row
           /\ \A s \in Subjects, e \in Emails :
                /\ [r EXCEPT !.sub = s, !.email = e] \in Row
                /\ [r EXCEPT !.sub = s, !.email = e].sub = s
           /\ \A ro \in Roles, st \in Statuses : [r EXCEPT !.role = ro, !.status = st] \in Row
BY DEF Row

\* The tables' types, for the places where a leaf needs one.
LEMMA TableFacts ==
    ASSUME IInv
    PROVE  /\ users \in [Logins -> Row \cup {None}] /\ handles \in [Handles -> Users \cup {None}]
           /\ Users \subseteq Logins /\ \A u \in Users : users[u] \in Row
           /\ rules \subseteq ever /\ ever \subseteq Emails
           /\ pc \in [Calls -> Places] /\ who \in [Logins -> Subjects \cup {None}]
           /\ seen \in [Calls -> Emails \cup (SUBSET Emails) \cup {None}]
           /\ uid \in [Calls -> Users \cup {None}] /\ copy \in [Calls -> Row \cup {None}]
           /\ hd \in [Calls -> Handles \cup {None}]
           /\ old \in [Calls -> Handles \cup Users \cup {None}] /\ booted \in [Logins -> BOOLEAN]
BY DEF IInv, TypeOK, Users

\* The registers a step of a login leaves, the tables being left alone, ...
Loads(l, q, w, e, u, k, h, o) ==
    /\ Goto(l, q)
    /\ who' = [who EXCEPT ![l] = w] /\ seen' = [seen EXCEPT ![l] = e]
    /\ uid' = [uid EXCEPT ![l] = u] /\ copy' = [copy EXCEPT ![l] = k]
    /\ hd' = [hd EXCEPT ![l] = h] /\ old' = [old EXCEPT ![l] = o]
    /\ UNCHANGED <<rowVars, env, booted>>

\* ... and what they have to be at the place it goes to.
Sound(l, q, w, e, u, k, h, o) ==
    /\ q \in Places /\ q # "rename"
    /\ w \in Subjects \cup {None} /\ e \in Emails \cup {None} /\ u \in Users \cup {None}
    /\ k \in Row \cup {None} /\ h \in Handles \cup {None} /\ o \in Handles \cup Users \cup {None}
    /\ q \in OnAUser => u # None
    /\ q \in WithCopy => k # None
    /\ q \in {"link", "takeName"} => o \in Handles \cup {None}
    /\ q \in Identified => w # None /\ e # None
    /\ q \in Linking => w \in GitHub
    /\ q = "claim" => w \in GitHub \/ h # None
    /\ q \in Cleared => e \in ever \/ booted[l]
    /\ q \in {"derive", "claim", "seed"} => users[l] # None
    /\ users[l] # None => u = l /\ q \in Created
    /\ users[l] # None /\ q \in Claimed => ByOwner(l) # {}

\* Such a step keeps the invariant.
LEMMA LoginLoads ==
    ASSUME IInv, NEW l \in Logins, NEW q, NEW w, NEW e, NEW u, NEW k, NEW h, NEW o,
           Loads(l, q, w, e, u, k, h, o), Sound(l, q, w, e, u, k, h, o)
    PROVE  IInv'
<1>0. l \in Calls /\ l \notin Ruleses /\ q \in Places
  BY LoginFacts DEF Sound
<1>1. Users' = Users /\ ByOwner(l)' = ByOwner(l) /\ UNCHANGED <<users, ever>>
  BY DEF rowVars, Users, ByOwner, Loads
<1>2. /\ who' \in [Logins -> Subjects \cup {None}]
      /\ uid' \in [Calls -> Users \cup {None}] /\ copy' \in [Calls -> Row \cup {None}]
      /\ hd' \in [Calls -> Handles \cup {None}]
  BY <1>0, TableFacts DEF Loads, Sound
<1>9. seen' \in [Calls -> Emails \cup (SUBSET Emails) \cup {None}]
  <2>1. seen \in [Calls -> Emails \cup (SUBSET Emails) \cup {None}] /\ e \in Emails \cup {None}
    BY TableFacts DEF Sound
  <2>2. seen' = [seen EXCEPT ![l] = e]
    BY DEF Loads
  <2> QED BY <1>0, <2>1, <2>2
<1>3. old' \in [Calls -> Handles \cup Users \cup {None}]
  <2>1. old \in [Calls -> Handles \cup Users \cup {None}] /\ o \in Handles \cup Users \cup {None}
    BY TableFacts DEF Sound
  <2>2. old' = [old EXCEPT ![l] = o]
    BY DEF Loads
  <2> QED BY <1>0, <2>1, <2>2
<1>4. /\ pc'[l] = q /\ who'[l] = w /\ seen'[l] = e /\ uid'[l] = u /\ copy'[l] = k
      /\ hd'[l] = h /\ old'[l] = o /\ booted'[l] = booted[l]
  BY <1>0, TableFacts DEF Goto, Loads
<1>5. OthersRest(l)
  BY <1>0, TableFacts DEF Goto, OthersRest, Loads
<1>6. CallOK(l)'
  BY <1>1, <1>4 DEF CallOK, Sound
<1>7. LoginOK(l)'
  BY <1>1, <1>4 DEF LoginOK, Sound
<1>8. Goto(l, q) /\ UNCHANGED <<rowVars, env>> /\ booted' = booted
  BY DEF Loads
<1> QED BY <1>0, <1>2, <1>3, <1>5, <1>6, <1>7, <1>8, <1>9, LoadKeeps DEF StepperOK

\* A register that a step leaves alone is loaded with what it holds.
LEMMA Resting ==
    ASSUME IInv, NEW l \in Logins
    PROVE  /\ UNCHANGED who => who' = [who EXCEPT ![l] = who[l]]
           /\ UNCHANGED seen => seen' = [seen EXCEPT ![l] = seen[l]]
           /\ UNCHANGED uid => uid' = [uid EXCEPT ![l] = uid[l]]
           /\ UNCHANGED copy => copy' = [copy EXCEPT ![l] = copy[l]]
           /\ UNCHANGED hd => hd' = [hd EXCEPT ![l] = hd[l]]
           /\ UNCHANGED old => old' = [old EXCEPT ![l] = old[l]]
           /\ who[l] \in Subjects \cup {None}
           /\ uid[l] \in Users \cup {None} /\ copy[l] \in Row \cup {None}
           /\ hd[l] \in Handles \cup {None} /\ old[l] \in Handles \cup Users \cup {None}
BY TableFacts DEF Calls

\* handleCallback and handleGitHubCallback.
LEMMA IdentifyKeeps ==
    ASSUME IInv, NEW l \in Logins,
           (\E s \in Google : Callback(l, s)) \/ (\E s \in GitHub : GitHubCallback(l, s))
    PROVE  IInv'
<1>1. PICK s \in Subjects, to \in {"list", "handle"} :
        Identify(l, s, to) /\ (to = "handle" => s \in GitHub)
  BY DEF Callback, GitHubCallback, Subjects
<1>2. pc[l] = "away"
  BY <1>1 DEF Identify, Known, ConsumeStateCookie
<1>3. users[l] = None /\ l \in Calls
  BY <1>2, LoginFacts DEF LoginOK, Created
<1>4. mail[s] \in Emails /\ mail[s] # None /\ s # None
  BY NoneAssumption DEF IInv, TypeOK
<1>5. /\ UNCHANGED <<rowVars, env, booted, hd, old>> /\ who' = [who EXCEPT ![l] = s]
      /\ seen' = [seen EXCEPT ![l] = mail[s]]
  BY <1>1 DEF Identify, VerifiedAddress
<1>6. hd' = [hd EXCEPT ![l] = hd[l]] /\ old' = [old EXCEPT ![l] = old[l]]
      /\ hd[l] \in Handles \cup {None} /\ old[l] \in Handles \cup Users \cup {None}
  BY <1>5, Resting
<1>7. ASSUME ConsumeStateCookie(l, "denied") \/ ConsumeStateCookie(l, to), UNCHANGED <<uid, copy>>
      PROVE  IInv'
  <2>1. PICK q \in {"denied", "list", "handle"} : Goto(l, q) /\ (q = "handle" => s \in GitHub)
    BY <1>1, <1>7 DEF ConsumeStateCookie
  <2>2. uid' = [uid EXCEPT ![l] = uid[l]] /\ copy' = [copy EXCEPT ![l] = copy[l]]
        /\ uid[l] \in Users \cup {None} /\ copy[l] \in Row \cup {None}
    BY <1>7, Resting
  <2>3. q \in Places /\ q \notin OnAUser /\ q \notin WithCopy /\ q \notin Cleared
        /\ (q \in Linking => s \in GitHub)
        /\ q \notin {"link", "takeName", "rename", "derive", "claim", "seed"}
    BY <2>1 DEF Places, OnAUser, WithCopy, Cleared, Linking
  <2>4. Loads(l, q, s, mail[s], uid[l], copy[l], hd[l], old[l])
    BY <1>5, <1>6, <2>1, <2>2 DEF Loads
  <2>5. Sound(l, q, s, mail[s], uid[l], copy[l], hd[l], old[l])
    BY <1>3, <1>4, <1>6, <2>2, <2>3 DEF Sound
  <2> QED BY <2>4, <2>5, LoginLoads
<1>8. ASSUME NEW u \in BySubject(s), uid' = [uid EXCEPT ![l] = u],
             copy' = [copy EXCEPT ![l] = users[u]], ConsumeStateCookie(l, "known")
      PROVE  IInv'
  <2>1. u \in Users /\ users[u] \in Row /\ Goto(l, "known") /\ u # None /\ users[u] # None
    BY <1>8, TableFacts, NoneAssumption DEF BySubject, ConsumeStateCookie
  <2>2. "known" \in Places /\ "known" \notin Cleared /\ "known" \notin Linking
    BY DEF Places, Cleared, Linking
  <2>3. Loads(l, "known", s, mail[s], u, users[u], hd[l], old[l])
    BY <1>5, <1>6, <1>8, <2>1 DEF Loads
  <2>4. Sound(l, "known", s, mail[s], u, users[u], hd[l], old[l])
    BY <1>3, <1>4, <1>6, <2>1, <2>2 DEF Sound
  <2> QED BY <2>3, <2>4, LoginLoads
<1> QED BY <1>1, <1>7, <1>8 DEF Identify, Known

\* The other steps of a login that change its registers and no table.
LEMMA CheckKnownKeeps ==
    ASSUME IInv, NEW l \in Logins, CheckKnown(l)
    PROVE  IInv'
<1>1. /\ pc[l] = "known" /\ UNCHANGED <<rowVars, env, who, seen, uid, hd, old, booted>>
      /\ copy' = [copy EXCEPT ![l].email = seen[l]]
  BY DEF CheckKnown
<1>2. PICK q \in {"denied", "session", "refresh"} :
        Goto(l, q) /\ (q # "denied" => seen[l] \in rules)
  BY DEF CheckKnown
<1>3. copy[l] \in Row /\ uid[l] \in Users /\ who[l] \in Subjects /\ seen[l] \in Emails
      /\ users[l] = None
  BY <1>1, LoginFacts DEF CallOK, LoginOK, OnAUser, WithCopy, Identified, Places, Created
<1> DEFINE k == [copy[l] EXCEPT !.email = seen[l]]
<1>4. k \in Row /\ copy' = [copy EXCEPT ![l] = k]
  BY <1>1, <1>3, RowEdits
<1> HIDE DEF k
<1>5. Loads(l, q, who[l], seen[l], uid[l], k, hd[l], old[l])
  BY <1>1, <1>2, <1>4, Resting DEF Loads
<1>6. q \in Places /\ q \notin Linking
      /\ q \notin {"link", "takeName", "rename", "derive", "claim", "seed"}
  BY <1>2 DEF Places, Linking
<1>7. q \in Cleared => seen[l] \in ever
  BY <1>2, TableFacts DEF Cleared
<1>8. None \notin Row /\ uid[l] # None /\ who[l] # None /\ seen[l] # None
  BY <1>3, TableFacts, NoneAssumption
<1>9. Sound(l, q, who[l], seen[l], uid[l], k, hd[l], old[l])
  BY <1>3, <1>4, <1>6, <1>7, <1>8, Resting DEF Sound
<1> QED BY <1>5, <1>9, LoginLoads

\* The lookups of a new GitHub identity.
LEMMA LookupsKeep ==
    ASSUME IInv, NEW l \in Logins, ReadHandle(l) \/ ReadEmail(l)
    PROVE  IInv'
<1>1. /\ pc[l] \in {"handle", "email"}
      /\ UNCHANGED <<rowVars, env, who, seen, copy, hd, booted>>
  BY DEF ReadHandle, ReadEmail
<1>2. who[l] \in GitHub /\ who[l] \in Subjects /\ seen[l] \in Emails
      /\ users[l] = None
  BY <1>1, LoginFacts DEF LoginOK, Linking, Identified, Places, Created
<1>3. who[l] # None /\ seen[l] # None
  BY <1>2, NoneAssumption
<1>4. CASE ReadHandle(l)
  <2> DEFINE o == handles[UserName[who[l]]]
  <2>1. UserName[who[l]] \in Handles
    BY <1>2, IdsAssumption
  <2>2. o \in Users \cup {None}
    BY <2>1, TableFacts
  <2>3. Loads(l, "email", who[l], seen[l], uid[l], copy[l], hd[l], o)
    BY <1>1, <1>4, Resting DEF Loads, ReadHandle
  <2> HIDE DEF o
  <2>4. "email" \in Places /\ "email" \notin OnAUser
        /\ "email" \notin WithCopy /\ "email" \notin Cleared
    BY DEF Places, OnAUser, WithCopy, Cleared
  <2>5. Sound(l, "email", who[l], seen[l], uid[l], copy[l], hd[l], o)
    BY <1>2, <1>3, <2>2, <2>4, Resting DEF Sound
  <2> QED BY <2>3, <2>5, LoginLoads
<1>5. CASE ReadEmail(l)
  <2>1. PICK q \in {"list", "failed", "denied", "offer"}, u \in Users \cup {None} :
          /\ Goto(l, q) /\ uid' = [uid EXCEPT ![l] = u]
          /\ q = "offer" => u \in Users
    <3>1. CASE UNCHANGED uid
      <4>1. \/ \E q \in {"list", "failed", "denied"} : Goto(l, q)
            \/ \E u \in ByEmail(seen[l]) : uid' = [uid EXCEPT ![l] = u] /\ Goto(l, "offer")
        BY <1>5 DEF ReadEmail
      <4> QED BY <3>1, <4>1, Resting DEF ByEmail
    <3>2. CASE ~UNCHANGED uid
      BY <1>5, <3>2 DEF ReadEmail, ByEmail
    <3> QED BY <3>1, <3>2
  <2>2. Loads(l, q, who[l], seen[l], u, copy[l], hd[l], old[l])
    BY <1>1, <1>5, <2>1, Resting DEF Loads, ReadEmail
  <2>3. /\ q \in Places /\ q \notin WithCopy /\ q \notin Cleared /\ (q \in OnAUser => q = "offer")
        /\ q \notin {"link", "takeName", "rename", "derive", "claim", "seed"}
    BY <2>1 DEF Places, OnAUser, WithCopy, Cleared
  <2>4. u \in Users => u # None
    BY TableFacts, NoneAssumption
  <2>5. Sound(l, q, who[l], seen[l], u, copy[l], hd[l], old[l])
    BY <1>2, <1>3, <2>1, <2>3, <2>4, Resting DEF Sound
  <2> QED BY <2>2, <2>5, LoginLoads
<1> QED BY <1>4, <1>5

\* After a conflict on create, and the derived public user id.
LEMMA NewUserLoadsKeep ==
    ASSUME IInv, NEW l \in Logins, FindCreated(l) \/ Derive(l)
    PROVE  IInv'
<1>0. l \in Calls
  BY LoginFacts
<1>1. CASE FindCreated(l)
  <2>1. /\ pc[l] = "again" /\ UNCHANGED <<rowVars, env, who, seen, copy, hd, old, booted>>
    BY <1>1 DEF FindCreated
  <2>2. who[l] \in Subjects /\ seen[l] \in Emails /\ users[l] = None
        /\ (seen[l] \in ever \/ booted[l])
    BY <2>1, LoginFacts DEF LoginOK, Identified, Places, Created, Cleared
  <2>3. PICK q \in {"failed", "session"}, u \in Users \cup {None} :
          Goto(l, q) /\ uid' = [uid EXCEPT ![l] = u]
    <3>1. CASE UNCHANGED uid
      <4>1. \E q \in {"failed", "session"} : Goto(l, q)
        BY <1>1 DEF FindCreated
      <4> QED BY <3>1, <4>1, Resting
    <3>2. CASE ~UNCHANGED uid
      BY <1>1, <3>2 DEF FindCreated, BySubject
    <3> QED BY <3>1, <3>2
  <2>4. Loads(l, q, who[l], seen[l], u, copy[l], hd[l], old[l])
    BY <2>1, <2>3, Resting DEF Loads
  <2>5. /\ q \in Places /\ q \notin WithCopy /\ q \notin OnAUser /\ q \notin Linking
        /\ q \notin {"link", "takeName", "rename", "derive", "claim", "seed"}
    BY <2>3 DEF Places, OnAUser, WithCopy, Linking
  <2>6. who[l] # None /\ seen[l] # None
    BY <2>2, NoneAssumption
  <2>7. Sound(l, q, who[l], seen[l], u, copy[l], hd[l], old[l])
    BY <2>2, <2>5, <2>6, Resting DEF Sound
  <2> QED BY <2>4, <2>7, LoginLoads
<1>2. CASE Derive(l)
  <2>1. /\ pc[l] = "derive" /\ UNCHANGED <<rowVars, env, who, seen, uid, copy, old, booted>>
    BY <1>2 DEF Derive
  <2>2. /\ who[l] \in Subjects /\ seen[l] \in Emails /\ users[l] # None
        /\ uid[l] = l /\ (seen[l] \in ever \/ booted[l])
    BY <2>1, LoginFacts DEF LoginOK, Identified, Places, Created, Cleared
  <2>3. Candidates[seen[l]] \in Seq(Handles)
    BY <2>2, IdsAssumption
  <2>4. PICK h \in Handles : hd' = [hd EXCEPT ![l] = h]
    <3>1. PICK i \in DOMAIN Candidates[seen[l]] : hd' = [hd EXCEPT ![l] = Candidates[seen[l]][i]]
      BY <1>2 DEF Derive
    <3>2. Candidates[seen[l]][i] \in Handles
      BY <2>3, <3>1
    <3> QED BY <3>1, <3>2
  <2>5. Loads(l, "claim", who[l], seen[l], uid[l], copy[l], h, old[l])
    BY <1>2, <2>1, <2>4, Resting DEF Loads, Derive
  <2>6. /\ "claim" \in Places /\ "claim" \notin WithCopy /\ "claim" \notin OnAUser
        /\ "claim" \notin Linking /\ "claim" \in Created /\ "claim" \notin Claimed
    BY DEF Places, OnAUser, WithCopy, Linking, Created, Claimed
  <2>7. who[l] # None /\ seen[l] # None /\ h # None
    BY <2>2, <2>4, NoneAssumption
  <2>8. Sound(l, "claim", who[l], seen[l], uid[l], copy[l], h, old[l])
    BY <2>2, <2>4, <2>6, <2>7, Resting DEF Sound
  <2> QED BY <2>5, <2>8, LoginLoads
<1> QED BY <1>1, <1>2

\* A request that confirms a link takes over the registers of the offer.
LEMMA ConfirmKeeps ==
    ASSUME IInv, NEW l \in Logins, NEW m \in Logins, Confirm(l, m)
    PROVE  IInv'
<1>1. pc[l] = "start" /\ pc[m] = "confirm" /\ UNCHANGED <<rowVars, env, hd, old, booted>>
  BY DEF Confirm
<1>2. users[l] = None
  BY <1>1, LoginFacts DEF LoginOK, Created
<1>3. who[m] \in GitHub /\ who[m] \in Subjects /\ seen[m] \in Emails /\ uid[m] \in Users
  BY <1>1, LoginFacts DEF LoginOK, CallOK, OnAUser, Linking, Identified, Places
<1>4. who[m] # None /\ seen[m] # None /\ uid[m] # None /\ users[uid[m]] \in Row
  BY <1>3, NoneAssumption, TableFacts
<1>5. CASE users[uid[m]].status = "disabled"
  <2>1. Goto(l, "denied") /\ UNCHANGED <<rowVars, env, callVars>> /\ "denied" \in Places
    BY <1>1, <1>5 DEF Confirm, callVars, Places
  <2>2. pc'[l] = "denied" /\ users'[l] = None /\ l \in Calls
    BY <1>2, <2>1, LoginFacts, TableFacts DEF Goto, rowVars
  <2>3. CallOK(l)' /\ LoginOK(l)' /\ l \notin Ruleses
    BY <2>2, LoginFacts DEF CallOK, LoginOK, OnAUser, WithCopy, Identified, Linking, Cleared, Claimed
  <2> QED BY <2>1, <2>2, <2>3, MoveKeeps DEF StepperOK
<1>6. CASE users[uid[m]].status # "disabled"
  <2>1. Loads(l, "recheck", who[m], seen[m], uid[m], users[uid[m]], hd[l], old[l])
    BY <1>1, <1>6, Resting DEF Loads, Confirm
  <2>2. /\ "recheck" \in Places /\ "recheck" \notin Cleared
        /\ "recheck" \notin {"link", "takeName", "rename", "derive", "claim", "seed"}
    BY DEF Places, Cleared
  <2>3. users[uid[m]] # None
    BY <1>4, NoneAssumption
  <2>4. Sound(l, "recheck", who[m], seen[m], uid[m], users[uid[m]], hd[l], old[l])
    BY <1>2, <1>3, <1>4, <2>2, <2>3, Resting DEF Sound
  <2> QED BY <2>1, <2>4, LoginLoads
<1> QED BY <1>5, <1>6

\* The lookup of the present public user id.
LEMMA OldHandleKeeps ==
    ASSUME IInv, NEW l \in Logins, ReadOldHandle(l)
    PROVE  IInv'
<1>1. pc[l] = "oldHandle" /\ UNCHANGED <<rowVars, env, who, seen, uid, hd, booted>>
  BY DEF ReadOldHandle
<1>2. /\ who[l] \in GitHub /\ who[l] \in Subjects /\ seen[l] \in Emails
      /\ users[l] = None /\ uid[l] \in Users
  BY <1>1, LoginFacts DEF LoginOK, CallOK, OnAUser, Linking, Identified, Places, Created
<1>3. who[l] # None /\ seen[l] # None /\ uid[l] # None
  BY <1>2, NoneAssumption, TableFacts
<1> DEFINE o == HandleOf(uid[l])
<1>4. o \in Handles \cup {None}
  BY DEF HandleOf, ByOwner
<1>5. Loads(l, "link", who[l], seen[l], uid[l], copy[l], hd[l], o)
  BY <1>1, Resting DEF Loads, ReadOldHandle
<1>6. copy[l] \in Row /\ (seen[l] \in ever \/ booted[l])
  BY LoginFacts DEF ReadOldHandle, CallOK, LoginOK, WithCopy, Cleared
<1> HIDE DEF o
<1>7. "link" \in Places
  BY DEF Places
<1>8. copy[l] # None
  BY <1>6, NoneAssumption
<1>9. Sound(l, "link", who[l], seen[l], uid[l], copy[l], hd[l], o)
  BY <1>2, <1>3, <1>4, <1>6, <1>7, <1>8, Resting DEF Sound
<1> QED BY <1>5, <1>9, LoginLoads

\* The registers a step of a PATCH or PUT leaves, the tables being left alone.
CallLoads(c, q, e, u, k, h, o) ==
    /\ Goto(c, q)
    /\ seen' = [seen EXCEPT ![c] = e]
    /\ uid' = [uid EXCEPT ![c] = u] /\ copy' = [copy EXCEPT ![c] = k]
    /\ hd' = [hd EXCEPT ![c] = h] /\ old' = [old EXCEPT ![c] = o]
    /\ UNCHANGED <<rowVars, env, who, booted>>

\* What they have to be at the place it goes to.
CallSound(c, q, e, u, k, h, o) ==
    /\ q \in Places /\ q \notin {"link", "takeName"}
    /\ e \in Emails \cup (SUBSET Emails) \cup {None}
    /\ u \in Users \cup {None} /\ k \in Row \cup {None}
    /\ h \in Handles \cup {None} /\ o \in Handles \cup Users \cup {None}
    /\ q \in OnAUser => u # None
    /\ q \in WithCopy => k # None
    /\ q = "rename" => o \in Handles /\ h \in Handles
    /\ q = "replace" => e \in SUBSET Emails

\* Such a step keeps the invariant.
LEMMA OtherCallLoads ==
    ASSUME IInv, NEW c \in Calls \ Logins, NEW q, NEW e, NEW u, NEW k, NEW h, NEW o,
           CallLoads(c, q, e, u, k, h, o), CallSound(c, q, e, u, k, h, o)
    PROVE  IInv'
<1>0. c \in Calls /\ c \notin Logins /\ q \in Places
  BY DEF CallSound
<1>1. Users' = Users
  BY DEF rowVars, Users, CallLoads
<1>2. /\ who' \in [Logins -> Subjects \cup {None}]
      /\ uid' \in [Calls -> Users \cup {None}] /\ copy' \in [Calls -> Row \cup {None}]
      /\ hd' \in [Calls -> Handles \cup {None}]
  BY <1>0, TableFacts DEF CallLoads, CallSound
<1>3. old' \in [Calls -> Handles \cup Users \cup {None}]
  <2>1. old \in [Calls -> Handles \cup Users \cup {None}] /\ o \in Handles \cup Users \cup {None}
    BY TableFacts DEF CallSound
  <2>2. old' = [old EXCEPT ![c] = o]
    BY DEF CallLoads
  <2> QED BY <1>0, <2>1, <2>2
<1>4. seen' \in [Calls -> Emails \cup (SUBSET Emails) \cup {None}]
  <2>1. seen \in [Calls -> Emails \cup (SUBSET Emails) \cup {None}]
        /\ e \in Emails \cup (SUBSET Emails) \cup {None}
    BY TableFacts DEF CallSound
  <2>2. seen' = [seen EXCEPT ![c] = e]
    BY DEF CallLoads
  <2> QED BY <1>0, <2>1, <2>2
<1>5. /\ pc'[c] = q /\ seen'[c] = e /\ uid'[c] = u /\ copy'[c] = k /\ hd'[c] = h /\ old'[c] = o
  BY <1>0, TableFacts DEF Goto, CallLoads
<1>6. OthersRest(c)
  BY <1>0, TableFacts DEF Goto, OthersRest, CallLoads
<1>7. CallOK(c)' /\ RulesOK(c)'
  BY <1>1, <1>5 DEF CallOK, RulesOK, CallSound
<1>8. Goto(c, q) /\ UNCHANGED <<rowVars, env>> /\ booted' = booted
  BY DEF CallLoads
<1> QED BY <1>0, <1>2, <1>3, <1>4, <1>6, <1>7, <1>8, LoadKeeps DEF StepperOK

\* A register that such a step leaves alone is loaded with what it holds.
LEMMA CallResting ==
    ASSUME IInv, NEW c \in Calls
    PROVE  /\ UNCHANGED seen => seen' = [seen EXCEPT ![c] = seen[c]]
           /\ UNCHANGED uid => uid' = [uid EXCEPT ![c] = uid[c]]
           /\ UNCHANGED copy => copy' = [copy EXCEPT ![c] = copy[c]]
           /\ UNCHANGED hd => hd' = [hd EXCEPT ![c] = hd[c]]
           /\ UNCHANGED old => old' = [old EXCEPT ![c] = old[c]]
           /\ seen[c] \in Emails \cup (SUBSET Emails) \cup {None}
           /\ uid[c] \in Users \cup {None} /\ copy[c] \in Row \cup {None}
           /\ hd[c] \in Handles \cup {None} /\ old[c] \in Handles \cup Users \cup {None}
BY TableFacts

\* PatchUser up to its write.
LEMMA PatchLoadsKeep ==
    ASSUME IInv, NEW p \in Patches,
           \/ \E a, u \in Users : PatchRead(p, a, u)
           \/ \E role \in Roles, status \in Statuses : PatchGuard(p, role, status)
    PROVE  IInv'
<1>0. p \in Calls \ Logins /\ p \in Calls
  BY CallsAssumption DEF Calls
<1>1. ASSUME NEW a \in Users, NEW u \in Users, PatchRead(p, a, u) PROVE IInv'
  <2>1. CallLoads(p, "guard", seen[p], u, users[u], hd[p], old[p])
    BY <1>0, <1>1, CallResting DEF PatchRead, CallLoads
  <2>2. users[u] \in Row /\ users[u] # None /\ u # None
    BY TableFacts, NoneAssumption
  <2>3. CallSound(p, "guard", seen[p], u, users[u], hd[p], old[p])
    BY <1>0, <2>2, CallResting DEF CallSound, Places
  <2> QED BY <1>0, <2>1, <2>3, OtherCallLoads
<1>2. ASSUME NEW role \in Roles, NEW status \in Statuses, PatchGuard(p, role, status) PROVE IInv'
  <2>1. pc[p] = "guard" /\ UNCHANGED <<rowVars, env, who, seen, uid, hd, old, booted>>
    BY <1>2 DEF PatchGuard
  <2>2. uid[p] \in Users /\ copy[p] \in Row
    BY <1>0, <2>1 DEF IInv, CallOK, OnAUser, WithCopy
  <2>3. PICK q \in {"denied", "write"}, k \in Row : Goto(p, q) /\ copy' = [copy EXCEPT ![p] = k]
    <3>1. CASE UNCHANGED copy /\ Goto(p, "denied")
      BY <1>0, <2>2, <3>1, CallResting
    <3>2. CASE /\ copy' = [copy EXCEPT ![p].role = role, ![p].status = status] /\ Goto(p, "write")
      <4> DEFINE k == [copy[p] EXCEPT !.role = role, !.status = status]
      <4>1. k \in Row
        BY <2>2, RowEdits
      <4>2. copy' = [copy EXCEPT ![p] = k]
        BY <1>0, <3>2, TableFacts
      <4> QED BY <3>2, <4>1, <4>2
    <3> QED BY <1>2, <3>1, <3>2 DEF PatchGuard
  <2>4. CallLoads(p, q, seen[p], uid[p], k, hd[p], old[p])
    BY <1>0, <2>1, <2>3, CallResting DEF CallLoads
  <2>5. uid[p] # None /\ k # None
    BY <2>2, <2>3, TableFacts, NoneAssumption
  <2>6. q \in Places /\ q \notin {"link", "takeName", "rename", "replace"}
    BY <2>3 DEF Places
  <2>7. CallSound(p, q, seen[p], uid[p], k, hd[p], old[p])
    BY <1>0, <2>3, <2>5, <2>6, CallResting DEF CallSound
  <2> QED BY <1>0, <2>4, <2>7, OtherCallLoads
<1> QED BY <1>1, <1>2

\* handleMePatch but for its writes.
LEMMA SelfLoadsKeep ==
    ASSUME IInv, NEW c \in Selfs,
           (\E u \in Users, h \in Handles \cup {None} : SelfRead(c, u, h)) \/ SelfLookup(c)
    PROVE  IInv'
<1>0. c \in Calls \ Logins /\ c \in Calls
  BY CallsAssumption DEF Calls
<1>1. ASSUME NEW u \in Users, NEW h \in Handles \cup {None}, SelfRead(c, u, h) PROVE IInv'
  <2>1. PICK q \in {"denied", "write", "lookup"} : Goto(c, q)
    BY <1>1 DEF SelfRead
  <2>2. CallLoads(c, q, seen[c], u, users[u], h, old[c])
    BY <1>0, <1>1, <2>1, CallResting DEF SelfRead, CallLoads
  <2>3. users[u] \in Row /\ users[u] # None /\ u # None
    BY TableFacts, NoneAssumption
  <2>4. q \in Places /\ q \notin {"link", "takeName", "rename", "replace"}
    BY <2>1 DEF Places
  <2>5. CallSound(c, q, seen[c], u, users[u], h, old[c])
    BY <1>0, <2>3, <2>4, CallResting DEF CallSound
  <2> QED BY <1>0, <2>2, <2>5, OtherCallLoads
<1>2. ASSUME SelfLookup(c) PROVE IInv'
  <2> DEFINE o == HandleOf(uid[c])
  <2>1. pc[c] = "lookup" /\ UNCHANGED <<rowVars, env, who, seen, uid, copy, hd, booted>>
        /\ old' = [old EXCEPT ![c] = o]
    BY <1>2 DEF SelfLookup
  <2>2. uid[c] \in Users /\ uid[c] # None
    BY <1>0, <2>1, TableFacts, NoneAssumption DEF IInv, CallOK, OnAUser
  <2>3. o \in Handles \cup {None} /\ (ByOwner(uid[c]) # {} => o \in Handles)
    BY DEF HandleOf, ByOwner
  <2>4. PICK q \in {"done", "failed", "rename"} :
          Goto(c, q) /\ (q = "rename" => ByOwner(uid[c]) # {} /\ hd[c] # None)
    BY <1>2 DEF SelfLookup
  <2> HIDE DEF o
  <2>5. CallLoads(c, q, seen[c], uid[c], copy[c], hd[c], o)
    BY <1>0, <2>1, <2>4, CallResting DEF CallLoads
  <2>6. q \in Places /\ q \notin {"link", "takeName", "replace"} /\ q \notin WithCopy
    BY <2>4 DEF Places, WithCopy
  <2>7. CallSound(c, q, seen[c], uid[c], copy[c], hd[c], o)
    BY <1>0, <2>2, <2>3, <2>4, <2>6, CallResting DEF CallSound
  <2> QED BY <1>0, <2>5, <2>7, OtherCallLoads
<1> QED BY <1>1, <1>2

\* PUT /org/login-rules up to its write.
LEMMA RulesReadKeeps ==
    ASSUME IInv, NEW c \in Ruleses, NEW a \in Users, NEW new \in SUBSET Emails, RulesRead(c, a, new)
    PROVE  IInv'
<1>0. c \in Calls \ Logins /\ c \in Calls
  BY CallsAssumption DEF Calls
<1>1. UNCHANGED <<rowVars, env, who, uid, copy, hd, old, booted>>
  BY DEF RulesRead
<1>2. PICK q \in {"replace", "denied"}, e \in Emails \cup (SUBSET Emails) \cup {None} :
        Goto(c, q) /\ seen' = [seen EXCEPT ![c] = e] /\ (q = "replace" => e \in SUBSET Emails)
  <2>1. CASE UNCHANGED seen /\ Goto(c, "denied")
    BY <1>0, <2>1, CallResting
  <2>2. CASE seen' = [seen EXCEPT ![c] = new] /\ Goto(c, "replace")
    BY <2>2
  <2> QED BY <2>1, <2>2 DEF RulesRead
<1>3. CallLoads(c, q, e, uid[c], copy[c], hd[c], old[c])
  BY <1>0, <1>1, <1>2, CallResting DEF CallLoads
<1>4. q \in Places /\ q \notin {"link", "takeName", "rename"}
      /\ q \notin WithCopy /\ q \notin OnAUser
  BY <1>2 DEF Places, WithCopy, OnAUser
<1>5. CallSound(c, q, e, uid[c], copy[c], hd[c], old[c])
  BY <1>0, <1>2, <1>4, CallResting DEF CallSound
<1> QED BY <1>0, <1>3, <1>5, OtherCallLoads

-----------------------------------------------------------------------------
(***************************************************************************)
(* The steps that write a table.                                           *)
(***************************************************************************)

\* Writing a row that clashes with no other keeps identities and addresses
\* unique, and adds at most its own user.
LEMMA RowWrite ==
    ASSUME IInv, NEW x \in Logins, NEW row \in Row, ~Clash(x, row),
           users' = [users EXCEPT ![x] = row]
    PROVE  /\ users' \in [Logins -> Row \cup {None}] /\ Users' = Users \cup {x}
           /\ (\A u \in Users : ~Clash(u, users[u]))'
<1>1. /\ users' \in [Logins -> Row \cup {None}] /\ users'[x] = row /\ row # None
      /\ \A u \in Logins \ {x} : users'[u] = users[u]
  BY TableFacts, NoneAssumption
<1>2. Users' = Users \cup {x}
  BY <1>1 DEF Users
<1>3. \A u \in Users \ {x} : users[u].sub # row.sub /\ users[u].email # row.email
  BY DEF Clash
<1>4. \A u, v \in Users : u # v => users[u].sub # users[v].sub /\ users[u].email # users[v].email
  BY DEF IInv, TypeOK, Clash
<1>5. ASSUME NEW u \in Users', NEW v \in Users', u # v
      PROVE  users'[u].sub # users'[v].sub /\ users'[u].email # users'[v].email
  <2>1. CASE u = x
    BY <1>1, <1>2, <1>3, <1>5, <2>1 DEF Users
  <2>2. CASE v = x
    BY <1>1, <1>2, <1>3, <1>5, <2>2 DEF Users
  <2>3. CASE u # x /\ v # x
    BY <1>1, <1>2, <1>4, <1>5, <2>3 DEF Users
  <2> QED BY <2>1, <2>2, <2>3
<1>6. (\A u \in Users : ~Clash(u, users[u]))'
  BY <1>5 DEF Clash
<1> QED BY <1>1, <1>2, <1>6

\* A write to the users table by a call that loads no register but, when it
\* creates the user, the login's own.
LEMMA UserWriteKeeps ==
    ASSUME IInv, NEW c \in Calls, NEW x \in Logins, x \in Users \/ x = c, NEW row \in Row,
           ~Clash(x, row), users' = [users EXCEPT ![x] = row],
           NEW q \in Places, Goto(c, q), org' \in BOOLEAN,
           UNCHANGED <<rules, ever, handles, env, who, seen, copy, hd, old>>,
           uid' = [uid EXCEPT ![c] = x] \/ UNCHANGED uid,
           UNCHANGED booted \/ (c \in Logins /\ booted' = [booted EXCEPT ![c] = TRUE]),
           StepperOK(c)'
    PROVE  IInv'
<1>1. /\ users' \in [Logins -> Row \cup {None}] /\ Users' = Users \cup {x}
      /\ (\A u \in Users : ~Clash(u, users[u]))'
  BY RowWrite
<1>2. pc' \in [Calls -> Places] /\ \A d \in Calls \ {c} : pc'[d] = pc[d]
  BY TableFacts DEF Goto
<1>3. uid' \in [Calls -> Users' \cup {None}] /\ \A d \in Calls \ {c} : uid'[d] = uid[d]
  BY <1>1, TableFacts
<1>4. booted' \in [Logins -> BOOLEAN] /\ \A d \in Logins \ {c} : booted'[d] = booted[d]
  BY TableFacts
<1>5. handles' \in [Handles -> Users' \cup {None}]
  BY <1>1, TableFacts
<1>6. old' \in [Calls -> Handles \cup Users' \cup {None}]
  <2>1. old \in [Calls -> Handles \cup Users \cup {None}]
    BY TableFacts
  <2> QED BY <1>1, <2>1
<1>7. TypeOK'
  BY <1>1, <1>2, <1>3, <1>4, <1>5, <1>6 DEF IInv, TypeOK, env
<1>8. OthersRest(c)
  BY <1>2, <1>3, <1>4 DEF OthersRest
<1>9. RowsLast
  BY <1>1, TableFacts DEF RowsLast, ByOwner, Users
<1>10. \A l \in Logins \ {c} : users'[l] # None => users[l] # None
  BY <1>1 DEF Users
<1> QED BY <1>7, <1>8, <1>9, <1>10, StepKeeps

\* The row of an account that exists is written: the refresh of a login, the
\* link, and the end of a PATCH.
LEMMA RowUpdatesKeep ==
    ASSUME IInv, NEW c \in Calls,
           \/ c \in Logins /\ (RefreshRow(c) \/ Link(c))
           \/ c \notin Logins /\ (WriteRow(c, "done") \/ WriteRow(c, "lookup"))
    PROVE  IInv'
<1>1. CallOK(c) /\ (c \in Logins => LoginOK(c) /\ c \notin Ruleses)
  BY LoginFacts DEF IInv
<1>2. /\ pc[c] \in {"refresh", "link", "write"} /\ (c \in Logins => pc[c] # "write")
      /\ UNCHANGED <<org, rules, ever, handles, env, callVars>>
  BY DEF RefreshRow, Link, WriteRow
<1>3. uid[c] \in Users /\ copy[c] \in Row /\ uid[c] \in Logins
  BY <1>1, <1>2, TableFacts DEF CallOK, OnAUser, WithCopy
<1>4. c \in Logins => /\ who[c] \in Subjects /\ seen[c] \in Emails /\ users[c] = None
                      /\ (seen[c] \in ever \/ booted[c])
                      /\ (pc[c] = "link" => who[c] \in GitHub /\ old[c] \in Handles \cup {None})
  BY <1>1, <1>2 DEF LoginOK, CallOK, Identified, Places, Created, Cleared, Linking
<1> DEFINE row == IF pc[c] = "link" THEN [copy[c] EXCEPT !.sub = who[c], !.email = seen[c]]
                  ELSE copy[c]
<1>5. row \in Row
  BY <1>1, <1>2, <1>3, <1>4, RowEdits DEF RefreshRow, Link, WriteRow
<1>6. PICK q \in {"failed", "session", "takeName", "done", "lookup"} :
        /\ Goto(c, q)
        /\ \/ q = "failed" /\ UNCHANGED users
           \/ ~Clash(uid[c], row) /\ users' = [users EXCEPT ![uid[c]] = row]
        /\ q \in {"session", "takeName"} => c \in Logins
        /\ q = "takeName" => pc[c] = "link"
        /\ q \in {"done", "lookup"} => c \notin Logins
  BY DEF RefreshRow, Link, WriteRow
<1>7. q \in Places /\ pc'[c] = q
  BY <1>6, TableFacts DEF Goto, Places
<1> HIDE DEF row
<1>8. Users' = Users /\ (c \in Logins => users'[c] = None)
      /\ \A u \in Logins : ByOwner(u)' = ByOwner(u)
  <2>1. CASE UNCHANGED users
    BY <1>2, <1>4, <2>1 DEF Users, ByOwner
  <2>2. CASE ~Clash(uid[c], row) /\ users' = [users EXCEPT ![uid[c]] = row]
    <3>1. Users' = Users
      <4>1. Users' = Users \cup {uid[c]}
        BY <1>3, <1>5, <2>2, RowWrite
      <4> QED BY <1>3, <4>1
    <3>2. c \in Logins => c \notin Users
      BY <1>4 DEF Users
    <3>3. c \in Logins => users'[c] = None
      BY <3>1, <3>2 DEF Users
    <3> QED BY <1>2, <3>1, <3>3 DEF ByOwner
  <2> QED BY <1>6, <2>1, <2>2
<1>9. CallOK(c)'
  BY <1>2, <1>3, <1>4, <1>6, <1>7, <1>8 DEF CallOK, callVars, OnAUser, WithCopy
<1>10. c \in Logins => LoginOK(c)'
  BY <1>2, <1>4, <1>6, <1>7, <1>8 DEF LoginOK, callVars, Identified, Linking, Cleared
<1>11. RulesOK(c)'
  BY <1>6, <1>7 DEF RulesOK
<1>12. StepperOK(c)'
  BY <1>9, <1>10, <1>11 DEF StepperOK
<1>13. CASE UNCHANGED users
  BY <1>2, <1>6, <1>7, <1>12, <1>13, MoveKeeps DEF rowVars
<1>14. CASE ~Clash(uid[c], row) /\ users' = [users EXCEPT ![uid[c]] = row]
  <2>1. UNCHANGED <<rules, ever, handles, env, who, seen, copy, hd, old>> /\ UNCHANGED uid
        /\ UNCHANGED booted /\ org' \in BOOLEAN
    BY <1>2 DEF callVars, IInv, TypeOK
  <2> QED BY <1>3, <1>5, <1>6, <1>7, <1>12, <1>14, <2>1, UserWriteKeeps
<1> QED BY <1>6, <1>13, <1>14

\* A new user: the bootstrap's administrator and an ordinary one.
LEMMA NewRowsKeep ==
    ASSUME IInv, NEW l \in Logins, BootstrapInsert(l) \/ Create(l)
    PROVE  IInv'
<1>1. pc[l] \in {"insert", "insertBoth", "create"}
      /\ UNCHANGED <<rules, ever, handles, env, who, seen, copy, hd, old>>
  BY DEF BootstrapInsert, Create
<1>2. /\ who[l] \in Subjects /\ seen[l] \in Emails /\ users[l] = None
      /\ l \in Calls /\ l \notin Ruleses
      /\ (pc[l] = "create" => seen[l] \in ever \/ booted[l])
  BY <1>1, LoginFacts DEF LoginOK, Identified, Places, Created, Cleared
<1>3. CASE UNCHANGED <<users, org, uid, booted>> /\ \E q \in {"rules", "again"} :
             Goto(l, q) /\ (q = "again" => pc[l] = "create")
  <2>1. PICK q \in {"rules", "again"} : Goto(l, q) /\ (q = "again" => pc[l] = "create")
    BY <1>3
  <2>2. q \in Places /\ pc'[l] = q /\ UNCHANGED <<rowVars, env, callVars>>
    BY <1>1, <1>2, <1>3, <2>1, TableFacts DEF Goto, Places, rowVars, callVars
  <2>3. CallOK(l)'
    BY <2>1, <2>2 DEF CallOK, OnAUser, WithCopy
  <2>4. LoginOK(l)'
    BY <1>2, <2>1, <2>2 DEF LoginOK, rowVars, callVars, Identified, Linking, Cleared
  <2> QED BY <1>2, <2>1, <2>2, <2>3, <2>4, MoveKeeps DEF StepperOK
<1>4. CASE \E role \in Roles, st \in Statuses :
             /\ ~Clash(l, NewRow(l, role, st)) /\ users' = [users EXCEPT ![l] = NewRow(l, role, st)]
             /\ uid' = [uid EXCEPT ![l] = l] /\ Goto(l, Named(l)) /\ org' \in BOOLEAN
             /\ \/ UNCHANGED booted /\ pc[l] = "create"
                \/ booted' = [booted EXCEPT ![l] = TRUE]
  <2>1. PICK role \in Roles, st \in Statuses :
             /\ ~Clash(l, NewRow(l, role, st)) /\ users' = [users EXCEPT ![l] = NewRow(l, role, st)]
             /\ uid' = [uid EXCEPT ![l] = l] /\ Goto(l, Named(l)) /\ org' \in BOOLEAN
             /\ \/ UNCHANGED booted /\ pc[l] = "create"
                \/ booted' = [booted EXCEPT ![l] = TRUE]
    BY <1>4
  <2>2. PICK row \in Row : row = NewRow(l, role, st)
    BY <1>2 DEF NewRow, Row
  <2>3. Named(l) \in {"claim", "derive"} /\ Named(l) \in Places
        /\ (Named(l) = "claim" => who[l] \in GitHub)
    BY DEF Named, Places
  <2>4. pc'[l] = Named(l) /\ uid'[l] = l /\ users'[l] = row /\ row # None
        /\ (seen[l] \in ever \/ booted'[l])
    BY <1>2, <2>1, <2>2, TableFacts, NoneAssumption DEF Goto
  <2>5. CallOK(l)'
    BY <2>3, <2>4 DEF CallOK, OnAUser, WithCopy
  <2>6. LoginOK(l)'
    <3>1. who[l] # None /\ seen[l] # None
      BY <1>2, NoneAssumption
    <3> QED BY <1>1, <1>2, <2>3, <2>4, <3>1
            DEF LoginOK, Identified, Linking, Created, Claimed, Cleared
  <2>7. StepperOK(l)'
    BY <1>2, <2>5, <2>6 DEF StepperOK
  <2> QED BY <1>1, <1>2, <2>1, <2>2, <2>3, <2>7, UserWriteKeeps
<1>5. "admin" \in Roles /\ "member" \in Roles
      /\ initialUserStatus \subseteq Statuses /\ "active" \in Statuses
      /\ org \in BOOLEAN
  BY DEF Roles, Statuses, initialUserStatus, IInv, TypeOK
<1>6. CASE BootstrapInsert(l)
  BY <1>3, <1>4, <1>5, <1>6 DEF BootstrapInsert
<1>7. CASE Create(l)
  BY <1>3, <1>4, <1>5, <1>7 DEF Create
<1> QED BY <1>6, <1>7

\* A write to the handles table that keeps every user's public user id and
\* gives no user two.
LEMMA HandleWriteKeeps ==
    ASSUME IInv, NEW c \in Calls, NEW q \in Places, Goto(c, q),
           UNCHANGED <<users, org, rules, ever, env, callVars>>,
           handles' \in [Handles -> Users \cup {None}],
           \A g, h \in Handles : handles'[g] = handles'[h] /\ handles'[g] # None => g = h,
           \A u \in Logins : ByOwner(u) # {} => ByOwner(u)' # {},
           StepperOK(c)'
    PROVE  IInv'
<1>1. Users' = Users
  BY DEF Users
<1>2. pc' \in [Calls -> Places] /\ \A d \in Calls \ {c} : pc'[d] = pc[d]
  BY TableFacts DEF Goto
<1>3. TypeOK'
  BY <1>1, <1>2 DEF IInv, TypeOK, env, callVars, Clash
<1>4. OthersRest(c) /\ RowsLast
  BY <1>2 DEF OthersRest, RowsLast, callVars
<1> QED BY <1>3, <1>4, StepKeeps

\* PublicUserIDs().Create: a free id is given to a user that has none.
LEMMA HandleClaim ==
    ASSUME IInv, NEW h \in Handles, NEW u \in Users, Claimable(h, u),
           handles' = [handles EXCEPT ![h] = u]
    PROVE  /\ handles' \in [Handles -> Users \cup {None}]
           /\ \A f, g \in Handles : handles'[f] = handles'[g] /\ handles'[f] # None => f = g
           /\ \A v \in Logins : ByOwner(v) # {} => ByOwner(v)' # {}
           /\ ByOwner(u)' # {}
<1>1. handles' \in [Handles -> Users \cup {None}] /\ handles'[h] = u
      /\ \A g \in Handles \ {h} : handles'[g] = handles[g] /\ handles[g] # u
  BY TableFacts DEF Claimable, ByOwner
<1>2. \A f, g \in Handles : handles[f] = handles[g] /\ handles[f] # None => f = g
  BY DEF IInv, TypeOK
<1>3. \A f, g \in Handles : handles'[f] = handles'[g] /\ handles'[f] # None => f = g
  BY <1>1, <1>2
<1>4. ASSUME NEW v \in Logins, ByOwner(v) # {} PROVE ByOwner(v)' # {}
  <2>1. PICK g \in Handles : handles[g] = v
    BY <1>4 DEF ByOwner
  <2>2. g # h
    BY <2>1, NoneAssumption DEF Claimable
  <2> QED BY <1>1, <2>1, <2>2 DEF ByOwner
<1>5. ByOwner(u)' # {}
  BY <1>1 DEF ByOwner
<1> QED BY <1>1, <1>3, <1>4, <1>5

\* The rename moves the id's row, with its owner, to a free id.
LEMMA HandleMove ==
    ASSUME IInv, NEW a \in Handles, NEW b \in Handles, handles[a] # None, handles[b] = None,
           handles' = [handles EXCEPT ![a] = None, ![b] = handles[a]]
    PROVE  /\ handles' \in [Handles -> Users \cup {None}]
           /\ \A f, g \in Handles : handles'[f] = handles'[g] /\ handles'[f] # None => f = g
           /\ \A v \in Logins : ByOwner(v) # {} => ByOwner(v)' # {}
<1>1. /\ handles' \in [Handles -> Users \cup {None}]
      /\ handles'[a] = None /\ handles'[b] = handles[a]
      /\ \A g \in Handles \ {a, b} : handles'[g] = handles[g]
  BY TableFacts
<1>2. \A f, g \in Handles : handles[f] = handles[g] /\ handles[f] # None => f = g
  BY DEF IInv, TypeOK
<1>3. \A f, g \in Handles : handles'[f] = handles'[g] /\ handles'[f] # None => f = g
  BY <1>1, <1>2
<1>4. ASSUME NEW v \in Logins, ByOwner(v) # {} PROVE ByOwner(v)' # {}
  <2>1. PICK g \in Handles : handles[g] = v
    BY <1>4 DEF ByOwner
  <2>2. g # b
    BY <2>1, NoneAssumption
  <2>3. CASE g = a
    BY <1>1, <2>1, <2>3 DEF ByOwner
  <2>4. CASE g # a
    BY <1>1, <2>1, <2>2, <2>4 DEF ByOwner
  <2> QED BY <2>3, <2>4
<1> QED BY <1>1, <1>3, <1>4

\* The end of a new login's registration.
LEMMA ClaimKeeps ==
    ASSUME IInv, NEW l \in Logins, Claim(l)
    PROVE  IInv'
<1> DEFINE h == IF who[l] \in GitHub THEN UserName[who[l]] ELSE hd[l]
<1>1. pc[l] = "claim" /\ UNCHANGED <<users, org, rules, ever, env, callVars>>
  BY DEF Claim
<1>2. /\ who[l] \in Subjects /\ seen[l] \in Emails /\ users[l] # None /\ uid[l] = l
      /\ (seen[l] \in ever \/ booted[l]) /\ (who[l] \in GitHub \/ hd[l] \in Handles)
      /\ l \in Calls /\ l \notin Ruleses
  BY <1>1, LoginFacts DEF LoginOK, Identified, Places, Created, Cleared
<1>3. h \in Handles /\ l \in Users
  BY <1>2, IdsAssumption DEF Users
<1>4. CASE Claimable(h, l)
  <2>1. PICK q \in {"seed", "session"} : Goto(l, q) /\ handles' = [handles EXCEPT ![h] = l]
    BY <1>4 DEF Claim
  <2> HIDE DEF h
  <2>2. /\ handles' \in [Handles -> Users \cup {None}]
        /\ \A f, g \in Handles : handles'[f] = handles'[g] /\ handles'[f] # None => f = g
        /\ \A v \in Logins : ByOwner(v) # {} => ByOwner(v)' # {}
        /\ ByOwner(l)' # {}
    BY <1>3, <1>4, <2>1, HandleClaim
  <2>3. q \in Places /\ pc'[l] = q
    BY <1>2, <2>1, TableFacts DEF Goto, Places
  <2>4. CallOK(l)'
    BY <2>1, <2>3 DEF CallOK, OnAUser, WithCopy
  <2>5. LoginOK(l)'
    BY <1>1, <1>2, <2>1, <2>2, <2>3 DEF LoginOK, callVars, Linking, Created
  <2> QED BY <1>1, <1>2, <2>1, <2>2, <2>3, <2>4, <2>5, HandleWriteKeeps DEF StepperOK
<1>5. CASE ~Claimable(h, l)
  <2>1. Goto(l, "failed") /\ UNCHANGED handles
    BY <1>5 DEF Claim
  <2>2. pc'[l] = "failed" /\ "failed" \in Places /\ UNCHANGED <<rowVars, env, callVars>>
    BY <1>1, <1>2, <2>1, TableFacts DEF Goto, Places, rowVars
  <2>3. CallOK(l)'
    BY <2>2 DEF CallOK, OnAUser, WithCopy
  <2>4. LoginOK(l)'
    BY <1>1, <1>2, <2>2 DEF LoginOK, callVars, Identified, Linking, Cleared, Created, Claimed
  <2> QED BY <1>2, <2>1, <2>2, <2>3, <2>4, MoveKeeps DEF StepperOK
<1> QED BY <1>4, <1>5

\* The rename of a PATCH /me and of a link, and the claim of a link.
LEMMA RenamesKeep ==
    ASSUME IInv, NEW c \in Calls,
           (c \in Logins /\ TakeName(c)) \/ (c \notin Logins /\ SelfRename(c))
    PROVE  IInv'
<1>1. CallOK(c) /\ (c \in Logins => LoginOK(c) /\ c \notin Ruleses)
  BY LoginFacts DEF IInv
<1>2. /\ pc[c] \in {"takeName", "rename"} /\ UNCHANGED <<users, org, rules, ever, env, callVars>>
      /\ (c \in Logins <=> pc[c] = "takeName")
  BY DEF TakeName, SelfRename
<1>3. uid[c] \in Users
  BY <1>1, <1>2 DEF CallOK, OnAUser
<1>4. /\ pc[c] = "takeName" => old[c] \in Handles \cup {None}
      /\ pc[c] = "rename" => old[c] \in Handles /\ hd[c] \in Handles
  BY <1>1 DEF CallOK
<1>5. c \in Logins => /\ who[c] \in GitHub /\ who[c] \in Subjects /\ seen[c] \in Emails
                      /\ users[c] = None /\ (seen[c] \in ever \/ booted[c])
  BY <1>1, <1>2 DEF LoginOK, Linking, Identified, Places, Created, Cleared
<1> DEFINE b == IF c \in Logins THEN UserName[who[c]] ELSE hd[c]
<1>6. b \in Handles
  BY <1>2, <1>4, <1>5, IdsAssumption
<1>7. PICK q \in {"session", "done", "failed"} :
        /\ Goto(c, q) /\ (q = "session" => c \in Logins) /\ (q = "done" => c \notin Logins)
        /\ \/ UNCHANGED handles
           \/ /\ old[c] \in Handles /\ handles[old[c]] # None /\ handles[b] = None
              /\ handles' = [handles EXCEPT ![old[c]] = None, ![b] = handles[old[c]]]
           \/ Claimable(b, uid[c]) /\ handles' = [handles EXCEPT ![b] = uid[c]]
  <2>1. CASE c \in Logins
    BY <1>2, <1>4, <2>1 DEF TakeName, RenameTo
  <2>2. CASE c \notin Logins
    BY <1>2, <1>4, <2>2 DEF SelfRename, RenameTo
  <2> QED BY <2>1, <2>2
<1> HIDE DEF b
<1>8. q \in Places /\ pc'[c] = q /\ Users' = Users
  BY <1>2, <1>7, TableFacts DEF Goto, Places, Users
<1>9. CallOK(c)' /\ RulesOK(c)'
  BY <1>7, <1>8 DEF CallOK, RulesOK, OnAUser, WithCopy
<1>10. c \in Logins => LoginOK(c)'
  BY <1>2, <1>5, <1>7, <1>8 DEF LoginOK, callVars, Linking, Identified
<1>11. StepperOK(c)'
  BY <1>9, <1>10 DEF StepperOK
<1>12. CASE UNCHANGED handles
  BY <1>2, <1>7, <1>8, <1>11, <1>12, MoveKeeps DEF rowVars
<1>13. CASE /\ old[c] \in Handles /\ handles[old[c]] # None /\ handles[b] = None
            /\ handles' = [handles EXCEPT ![old[c]] = None, ![b] = handles[old[c]]]
  <2>1. /\ handles' \in [Handles -> Users \cup {None}]
        /\ \A f, g \in Handles : handles'[f] = handles'[g] /\ handles'[f] # None => f = g
        /\ \A v \in Logins : ByOwner(v) # {} => ByOwner(v)' # {}
    BY <1>6, <1>13, HandleMove
  <2> QED BY <1>2, <1>7, <1>8, <1>11, <2>1, HandleWriteKeeps
<1>14. CASE Claimable(b, uid[c]) /\ handles' = [handles EXCEPT ![b] = uid[c]]
  <2>1. /\ handles' \in [Handles -> Users \cup {None}]
        /\ \A f, g \in Handles : handles'[f] = handles'[g] /\ handles'[f] # None => f = g
        /\ \A v \in Logins : ByOwner(v) # {} => ByOwner(v)' # {}
    BY <1>3, <1>6, <1>14, HandleClaim
  <2> QED BY <1>2, <1>7, <1>8, <1>11, <2>1, HandleWriteKeeps
<1> QED BY <1>7, <1>12, <1>13, <1>14

\* The two writers of the login rules.
LEMMA RuleWritesKeep ==
    ASSUME IInv, NEW c \in Calls,
           (c \in Logins /\ Seed(c)) \/ (c \in Ruleses /\ RulesReplace(c))
    PROVE  IInv'
<1>1. CallOK(c) /\ (c \in Logins => LoginOK(c)) /\ (c \in Ruleses => RulesOK(c))
  BY DEF IInv
<1>2. /\ UNCHANGED <<users, org, handles, env, callVars>>
      /\ (c \in Logins <=> pc[c] = "seed") /\ (c \in Ruleses <=> pc[c] = "replace")
      /\ pc[c] \in {"seed", "replace"}
  BY CallsAssumption DEF Seed, RulesReplace
<1>3. PICK new \in SUBSET Emails : rules' = new /\ ever' = ever \cup new
  <2>1. CASE Seed(c) /\ c \in Logins
    <3>1. seen[c] \in Emails
      BY <1>1, <1>2, <2>1 DEF LoginOK, Identified, Places
    <3> QED BY <2>1, <3>1 DEF Seed, seedBootstrapLoginRule, SetRules
  <2>2. CASE RulesReplace(c) /\ c \in Ruleses
    BY <1>1, <1>2, <2>2 DEF RulesReplace, SetRules, RulesOK
  <2> QED BY <2>1, <2>2
<1>4. PICK q \in {"session", "done"} :
        Goto(c, q) /\ (q = "session" => c \in Logins) /\ (q = "done" => c \notin Logins)
  BY CallsAssumption DEF Seed, RulesReplace
<1>5. pc' \in [Calls -> Places] /\ pc'[c] = q /\ \A d \in Calls \ {c} : pc'[d] = pc[d]
  BY <1>4, TableFacts DEF Goto, Places
<1>6. Users' = Users /\ \A u \in Logins : ByOwner(u)' = ByOwner(u)
  BY <1>2 DEF Users, ByOwner
<1>7. TypeOK'
  BY <1>2, <1>3, <1>5, <1>6 DEF IInv, TypeOK, env, callVars, Clash
<1>8. OthersRest(c) /\ RowsLast
  BY <1>2, <1>3, <1>5, <1>6 DEF OthersRest, RowsLast, callVars
<1>9. CallOK(c)' /\ RulesOK(c)'
  BY <1>4, <1>5 DEF CallOK, RulesOK, OnAUser, WithCopy
<1>10. ASSUME c \in Logins PROVE LoginOK(c)'
  <2>1. /\ pc[c] = "seed" /\ pc'[c] = "session" /\ who[c] \in Subjects /\ seen[c] \in Emails
        /\ (seen[c] \in ever \/ booted[c]) /\ users[c] # None /\ uid[c] = c /\ ByOwner(c) # {}
    BY <1>1, <1>2, <1>4, <1>5, <1>10 DEF LoginOK, Identified, Places, Cleared, Claimed
  <2> QED BY <1>2, <1>3, <1>6, <2>1 DEF LoginOK, callVars, Linking, Created
<1> QED BY <1>2, <1>7, <1>8, <1>9, <1>10, StepKeeps DEF StepperOK

-----------------------------------------------------------------------------
(***************************************************************************)
(* The theorems.                                                           *)
(***************************************************************************)

\* Every step keeps the invariant.
LEMMA NextInv == IInv /\ [Next]_vars => IInv'
<1> SUFFICES ASSUME IInv, [Next]_vars PROVE IInv'
  OBVIOUS
<1>1. CASE UNCHANGED vars
  <2>1. Users' = Users /\ UNCHANGED <<users, handles, ever>>
        /\ \A u \in Logins : ByOwner(u)' = ByOwner(u)
    BY <1>1 DEF vars, rowVars, Users, ByOwner
  <2>2. TypeOK'
    BY <1>1, <2>1 DEF vars, rowVars, env, callVars, IInv, TypeOK, Clash
  <2>3. \A c \in Calls : CallOK(c)'
    BY <1>1, <2>1 DEF vars, callVars, IInv, CallOK
  <2>4. \A l \in Logins : LoginOK(l)'
    BY <1>1, <2>1 DEF vars, callVars, IInv, LoginOK
  <2>5. \A c \in Ruleses : RulesOK(c)'
    BY <1>1 DEF vars, callVars, IInv, RulesOK
  <2> QED BY <2>2, <2>3, <2>4, <2>5 DEF IInv
<1>2. ASSUME NEW l \in Logins, LoginStep(l) PROVE IInv'
  <2>0. l \in Calls
    BY DEF Calls
  <2> QED BY <1>2, <2>0, LoginMovesKeep, IdentifyKeeps, CheckKnownKeeps, LookupsKeep,
             NewUserLoadsKeep, ConfirmKeeps, OldHandleKeeps, RowUpdatesKeep, NewRowsKeep,
             ClaimKeeps, RenamesKeep, RuleWritesKeep DEF LoginStep
<1>3. ASSUME NEW p \in Patches, PatchStep(p) PROVE IInv'
  <2>0. p \in Calls /\ p \notin Logins
    BY CallsAssumption DEF Calls
  <2> QED BY <1>3, <2>0, PatchLoadsKeep, RowUpdatesKeep DEF PatchStep
<1>4. ASSUME NEW c \in Selfs, SelfStep(c) PROVE IInv'
  <2>0. c \in Calls /\ c \notin Logins
    BY CallsAssumption DEF Calls
  <2> QED BY <1>4, <2>0, SelfLoadsKeep, RowUpdatesKeep, RenamesKeep DEF SelfStep
<1>5. ASSUME NEW c \in Ruleses, RulesStep(c) PROVE IInv'
  <2>0. c \in Calls
    BY DEF Calls
  <2> QED BY <1>5, <2>0, RulesReadKeeps, RuleWritesKeep DEF RulesStep
<1> QED BY <1>1, <1>2, <1>3, <1>4, <1>5, FailKeeps, OutsideKeeps DEF Next

\* The inductive invariant holds in every reachable state.
THEOREM Inductive == Spec => []IInv
  BY InitInv, NextInv, PTL DEF Spec

\* Rows and registers keep their types, and two users never share an identity,
\* an address or a public user id.
THEOREM TypeCorrect == Spec => []TypeOK
<1>1. IInv => TypeOK
  BY DEF IInv
<1> QED BY <1>1, Inductive, PTL

\* Nobody is signed in whom no rule list has admitted, other than the login
\* that bootstrapped the organization.
THEOREM SignInsAreAdmitted == Spec => []AdmittedOrFirst
<1>1. IInv => AdmittedOrFirst
  BY DEF IInv, AdmittedOrFirst, LoginOK, Cleared
<1> QED BY <1>1, Inductive, PTL

\* A login that created its account ends with a public user id.
THEOREM NewcomersAreNamed == Spec => []NewcomersHaveAnId
<1>1. IInv => NewcomersHaveAnId
  <2> SUFFICES ASSUME IInv, NEW l \in Logins, pc[l] = "in", uid[l] = l PROVE ByOwner(l) # {}
    BY DEF NewcomersHaveAnId
  <2>1. l \in Calls /\ l # None
    BY NoneAssumption DEF Calls
  <2>2. users[l] # None
    BY <2>1, TableFacts DEF Users
  <2> QED BY <2>2 DEF IInv, LoginOK, Claimed
<1> QED BY <1>1, Inductive, PTL

\* The steps that give a login its account: it carries the identity that signed
\* in, or a link to it is offered or confirmed.
LEMMA SettlingSteps ==
    ASSUME IInv, NEW l \in Logins, LoginStep(l), uid'[l] # uid[l], pc'[l] \notin {"offer", "recheck"}
    PROVE  users'[uid'[l]].sub = who'[l]
<1>0. l \in Calls /\ pc \in [Calls -> Places] /\ uid \in [Calls -> Users \cup {None}]
      /\ who \in [Logins -> Subjects \cup {None}] /\ users \in [Logins -> Row \cup {None}]
  BY LoginFacts, TableFacts
<1>1. ASSUME NEW s \in Subjects, NEW to \in {"list", "handle"}, Identify(l, s, to)
      PROVE  users'[uid'[l]].sub = who'[l]
  <2>1. UNCHANGED users /\ who'[l] = s
    BY <1>0, <1>1 DEF Identify, rowVars
  <2>2. PICK u \in BySubject(s) : uid' = [uid EXCEPT ![l] = u]
    BY <1>0, <1>1 DEF Identify, Known
  <2> QED BY <1>0, <2>1, <2>2 DEF BySubject
<1>2. CASE (\E s \in Google : Callback(l, s)) \/ (\E s \in GitHub : GitHubCallback(l, s))
  BY <1>1, <1>2 DEF Callback, GitHubCallback, Subjects
<1>3. CASE BootstrapInsert(l) \/ Create(l)
  <2>1. PICK role, st : users' = [users EXCEPT ![l] = NewRow(l, role, st)]
                        /\ uid' = [uid EXCEPT ![l] = l] /\ UNCHANGED who
    BY <1>0, <1>3 DEF BootstrapInsert, Create
  <2> QED BY <1>0, <2>1 DEF NewRow
<1>4. CASE FindCreated(l)
  <2>1. UNCHANGED <<users, who>>
    BY <1>4 DEF FindCreated, rowVars
  <2>2. PICK u \in BySubject(who[l]) : uid' = [uid EXCEPT ![l] = u]
    BY <1>4 DEF FindCreated
  <2> QED BY <1>0, <2>1, <2>2 DEF BySubject
<1>5. CASE ReadEmail(l)
  BY <1>0, <1>5 DEF ReadEmail, Goto
<1>6. CASE \/ StartLogin(l) \/ CheckKnown(l) \/ RefreshRow(l) \/ ReadHandle(l) \/ OfferLink(l)
           \/ ListUsers(l) \/ BootstrapCount(l) \/ BootstrapOrgs(l) \/ CheckNew(l)
  BY <1>6 DEF StartLogin, CheckKnown, RefreshRow, ReadHandle, OfferLink, ListUsers,
       BootstrapCount,
              BootstrapOrgs, CheckNew, callVars
<1>7. CASE \/ Derive(l) \/ Claim(l) \/ Seed(l) \/ Session(l) \/ Recheck(l)
           \/ ReadOldHandle(l) \/ Link(l) \/ TakeName(l)
  BY <1>7 DEF Derive, Claim, Seed, Session, Recheck, ReadOldHandle, Link, TakeName, callVars
<1>8. ASSUME NEW m \in Logins, Confirm(l, m)
      PROVE  FALSE
  BY <1>0, <1>8 DEF Confirm, Goto
<1> QED BY <1>2, <1>3, <1>4, <1>5, <1>6, <1>7, <1>8 DEF LoginStep

\* Every other step leaves the accounts of the logins alone.
LEMMA OthersDoNotSettle ==
    ASSUME IInv, NEW l \in Logins, Next, ~LoginStep(l)
    PROVE  uid'[l] = uid[l]
<1>0. l \in Calls /\ l \notin Patches /\ l \notin Selfs
      /\ uid \in [Calls -> Users \cup {None}]
  BY LoginFacts, TableFacts
<1>1. ASSUME NEW m \in Logins, LoginStep(m) PROVE uid'[l] = uid[l]
  <2>1. m # l /\ m \in Calls
    BY <1>1 DEF Calls
  <2>2. CASE (\E s \in Google : Callback(m, s)) \/ (\E s \in GitHub : GitHubCallback(m, s))
    BY <1>0, <2>1, <2>2 DEF Callback, GitHubCallback, Identify, Known
  <2>3. CASE BootstrapInsert(m) \/ Create(m) \/ FindCreated(m) \/ ReadEmail(m)
    BY <1>0, <2>1, <2>3 DEF BootstrapInsert, Create, FindCreated, ReadEmail
  <2>4. CASE \/ StartLogin(m) \/ CheckKnown(m) \/ RefreshRow(m) \/ ReadHandle(m) \/ OfferLink(m)
             \/ ListUsers(m) \/ BootstrapCount(m) \/ BootstrapOrgs(m) \/ CheckNew(m)
    BY <2>4 DEF StartLogin, CheckKnown, RefreshRow, ReadHandle, OfferLink, ListUsers,
                BootstrapCount, BootstrapOrgs, CheckNew, callVars
  <2>5. CASE \/ Derive(m) \/ Claim(m) \/ Seed(m) \/ Session(m) \/ Recheck(m)
             \/ ReadOldHandle(m) \/ Link(m) \/ TakeName(m)
    BY <2>5 DEF Derive, Claim, Seed, Session, Recheck, ReadOldHandle, Link, TakeName, callVars
  <2>6. ASSUME NEW n \in Logins, Confirm(m, n) PROVE uid'[l] = uid[l]
    BY <1>0, <2>1, <2>6 DEF Confirm
  <2> QED BY <1>1, <2>2, <2>3, <2>4, <2>5, <2>6 DEF LoginStep
<1>2. ASSUME NEW p \in Patches, PatchStep(p) PROVE uid'[l] = uid[l]
  BY <1>0, <1>2 DEF PatchStep, PatchRead, PatchGuard, WriteRow, callVars
<1>3. ASSUME NEW c \in Selfs, SelfStep(c) PROVE uid'[l] = uid[l]
  BY <1>0, <1>3 DEF SelfStep, SelfRead, SelfLookup, SelfRename, WriteRow, callVars
<1>4. ASSUME NEW c \in Ruleses, RulesStep(c) PROVE uid'[l] = uid[l]
  BY <1>4 DEF RulesStep, RulesRead, RulesReplace, callVars
<1>5. CASE (\E c \in Calls : Fail(c)) \/ (\E s \in Subjects, e \in Emails : ChangeMail(s, e))
           \/ Reconfigure
  BY <1>5 DEF Fail, ChangeMail, Reconfigure, callVars
<1> QED BY <1>1, <1>2, <1>3, <1>4, <1>5 DEF Next

\* A login never settles on an account of another identity, also when its own
\* was created under it between its lookup and its insert.
THEOREM LoginsSettleOnThemselves == Spec => SettlesOnItself
<1>1. ASSUME IInv, [Next]_vars
      PROVE  \A l \in Logins : uid'[l] # uid[l] /\ pc'[l] \notin {"offer", "recheck"}
                                => users'[uid'[l]].sub = who'[l]
  <2>1. CASE UNCHANGED vars
    BY <2>1 DEF vars, callVars
  <2>2. CASE Next
    BY <1>1, <2>2, SettlingSteps, OthersDoNotSettle
  <2> QED BY <1>1, <2>1, <2>2
<1> QED BY <1>1, Inductive, PTL DEF Spec, SettlesOnItself
=============================================================================
