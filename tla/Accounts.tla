------------------------------ MODULE Accounts ------------------------------
(***************************************************************************)
(* User accounts: signing in with Google (or the dev identity provider)    *)
(* and with GitHub, the bootstrap of the first administrator, account      *)
(* links, public user ids, login rules, and the handlers that change a     *)
(* user (src/server/internal/auth, api/org.go, api/me.go and the SQL       *)
(* repositories under them).                                               *)
(*                                                                         *)
(* Every handler reads a row, decides, and writes the row back whole;      *)
(* each SQL statement is a step.  A user is named by the login that        *)
(* created it.  Rows are never deleted.  A rule list is the set of email   *)
(* addresses it admits (EvaluateLoginRules: any rule of the list matches). *)
(***************************************************************************)
EXTENDS Naturals, FiniteSets, Sequences

CONSTANTS
    Logins,      \* callbacks of an identity provider and confirmations of a link; also
                 \* the users they create
    Patches,     \* PATCH /org/users/{id}
    Selfs,       \* PATCH /me
    Ruleses,     \* PUT /org/login-rules
    Google,      \* subjects of Google identities
    GitHub,      \* subjects of GitHub identities
    Emails,      \* email addresses
    Handles,     \* public user ids
    Candidates,  \* email -> the ids DeriveUserID tries, in order
    UserName,    \* GitHub subject -> its lowercased user name
    OpenMode,    \* cfg.OpenMode
    None

ASSUME SubjectsAssumption == Google \cap GitHub = {}
ASSUME CallsAssumption ==
    /\ Logins \cap (Patches \cup Selfs \cup Ruleses) = {}
    /\ Patches \cap (Selfs \cup Ruleses) = {} /\ Selfs \cap Ruleses = {}
ASSUME IdsAssumption ==
    Candidates \in [Emails -> Seq(Handles)] /\ UserName \in [GitHub -> Handles]

Subjects == Google \cup GitHub
Roles == {"admin", "member"}
Statuses == {"active", "pending", "disabled"}
Row == [sub : Subjects, email : Emails, role : Roles, status : Statuses]

ASSUME NoneAssumption == None \notin Logins \cup Handles \cup Subjects \cup Emails \cup Row

VARIABLES
    users,    \* users: id -> row, None before it is created
    org,      \* the organization row exists
    rules,    \* login_rules: the addresses they admit
    ever,     \* the addresses some list has admitted
    handles,  \* handles: public user id -> user, or None
    mail,     \* subject -> the verified address at the provider
    mode,     \* the provider of the server's configuration
    pc,       \* call -> where it is
    who,      \* login -> the identity that signs in
    seen,     \* login or rules call -> the address it works with
    uid,      \* call -> the user it works on
    copy,     \* call -> the row it has read and changed
    hd,       \* call -> the public user id it asks for
    old,      \* call -> the public user id, or its owner, it has read
    booted    \* login -> it created the organization

rowVars == <<users, org, rules, ever, handles>>
callVars == <<who, seen, uid, copy, hd, old, booted>>
env == <<mail, mode>>
vars == <<rowVars, env, pc, callVars>>

Calls == Logins \cup Patches \cup Selfs \cup Ruleses

\* The calls outside the cast have been refused before anything happened.
InitWith(cast) ==
    /\ users = [l \in Logins |-> None]
    /\ org = FALSE
    /\ rules = {} /\ ever = {}
    /\ handles = [h \in Handles |-> None]
    /\ mail \in [Subjects -> Emails]
    /\ mode = "google"
    /\ pc = [c \in Calls |-> IF c \in cast THEN "start" ELSE "failed"]
    /\ who = [l \in Logins |-> None]
    /\ seen = [c \in Calls |-> None]
    /\ uid = [c \in Calls |-> None]
    /\ copy = [c \in Calls |-> None]
    /\ hd = [c \in Calls |-> None]
    /\ old = [c \in Calls |-> None]
    /\ booted = [l \in Logins |-> FALSE]

Init == InitWith(Calls)

Users == {u \in Logins : users[u] # None}
BySubject(s) == {u \in Users : users[u].sub = s}
ByEmail(e) == {u \in Users : users[u].email = e}
ByOwner(u) == {h \in Handles : handles[h] = u}
HandleOf(u) == IF ByOwner(u) = {} THEN None ELSE CHOOSE h \in Handles : handles[h] = u

Goto(c, to) == pc' = [pc EXCEPT ![c] = to]

\* An UPDATE or INSERT of a user row breaks UNIQUE (provider,
\* provider_subject) or UNIQUE (email).
Clash(u, row) == \E v \in Users \ {u} : users[v].sub = row.sub \/ users[v].email = row.email

\* The person changes the address at the identity provider.
ChangeMail(s, e) ==
    /\ mail[s] # e
    /\ mail' = [mail EXCEPT ![s] = e]
    /\ UNCHANGED <<rowVars, mode, pc, callVars>>

\* The server is restarted with the other provider (FUNCBOX_AUTH_MODE); the
\* instance that goes finishes the calls it has begun.
Reconfigure ==
    /\ mode = "google"
    /\ mode' = "github"
    /\ UNCHANGED <<rowVars, mail, pc, callVars>>

\* A statement fails, the client goes away or the process ends: the handler
\* answers with an error and undoes nothing.
Fail(c) ==
    /\ pc[c] \notin {"start", "confirm", "in", "done", "denied", "failed"}
    /\ Goto(c, "failed")
    /\ UNCHANGED <<rowVars, env, callVars>>

(***************************************************************************)
(* A known identity.                                                       *)
(***************************************************************************)

\* handleLogin: the browser takes a signed state cookie of this login's own to
\* the provider.
StartLogin(l) ==
    /\ pc[l] = "start"
    /\ Goto(l, "away")
    /\ UNCHANGED <<rowVars, env, callVars>>

\* consumeOAuthStateCookie: the cookie that the state parameter names is there
\* and cleared, so that a callback is answered once.
ConsumeStateCookie(l, to) == pc[l] = "away" /\ Goto(l, to)

\* A disabled account is denied; a pending one is not.
Known(l, u) ==
    IF users[u].status = "disabled"
    THEN ConsumeStateCookie(l, "denied") /\ UNCHANGED <<uid, copy>>
    ELSE /\ uid' = [uid EXCEPT ![l] = u]
         /\ copy' = [copy EXCEPT ![l] = users[u]]
         /\ ConsumeStateCookie(l, "known")

\* selectVerifiedPrimaryEmail, or the email claim of the ID token; without a
\* verified address the login fails.
VerifiedAddress(s) == mail[s]

\* The identity s comes back with its verified address and is looked up.
Identify(l, s, to) ==
    /\ who' = [who EXCEPT ![l] = s]
    /\ seen' = [seen EXCEPT ![l] = VerifiedAddress(s)]
    /\ IF BySubject(s) = {} THEN ConsumeStateCookie(l, to) /\ UNCHANGED <<uid, copy>>
       ELSE \E u \in BySubject(s) : Known(l, u)
    /\ UNCHANGED <<rowVars, env, hd, old, booted>>

\* handleCallback up to the first lookup of upsertUser.
Callback(l, s) == mode = "google" /\ Identify(l, s, "list")

\* handleGitHubCallback up to the first lookup of resolveGitHubLogin.
GitHubCallback(l, s) == mode = "github" /\ Identify(l, s, "handle")

\* Mutant: a known identity is not held to the rules.
CheckKnownUnruled(l) ==
    /\ pc[l] = "known"
    /\ copy' = [copy EXCEPT ![l].email = seen[l]]
    /\ Goto(l, "refresh")
    /\ UNCHANGED <<rowVars, env, who, seen, uid, hd, old, booted>>

\* The rules decide on the provider's address; the row is brought up to it,
\* and to the name of a Google profile.
CheckKnown(l) ==
    /\ pc[l] = "known"
    /\ copy' = [copy EXCEPT ![l].email = seen[l]]
    /\ \/ seen[l] \notin rules /\ Goto(l, "denied")
       \/ seen[l] \in rules /\ copy[l].email = seen[l] /\ Goto(l, "session")
       \/ /\ seen[l] \in rules
          /\ copy[l].email # seen[l] \/ who[l] \in Google
          /\ Goto(l, "refresh")
    /\ UNCHANGED <<rowVars, env, who, seen, uid, hd, old, booted>>

\* Users().Update writes the row as it was read.
RefreshRow(l) ==
    /\ pc[l] = "refresh"
    /\ IF Clash(uid[l], copy[l]) THEN Goto(l, "failed") /\ UNCHANGED users
       ELSE users' = [users EXCEPT ![uid[l]] = copy[l]] /\ Goto(l, "session")
    /\ UNCHANGED <<org, rules, ever, handles, env, callVars>>

(***************************************************************************)
(* A new identity.                                                         *)
(***************************************************************************)

\* resolveGitHubLogin: who holds the handle, ...
ReadHandle(l) ==
    /\ pc[l] = "handle"
    /\ old' = [old EXCEPT ![l] = handles[UserName[who[l]]]]
    /\ Goto(l, "email")
    /\ UNCHANGED <<rowVars, env, who, seen, uid, copy, hd, booted>>

\* ... who has the address, ...
ReadEmail(l) ==
    /\ pc[l] = "email"
    /\ IF ByEmail(seen[l]) = {}
       THEN Goto(l, IF old[l] = None THEN "list" ELSE "failed") /\ UNCHANGED uid
       ELSE \E u \in ByEmail(seen[l]) :
              IF users[u].status = "disabled" THEN Goto(l, "denied") /\ UNCHANGED uid
              ELSE uid' = [uid EXCEPT ![l] = u] /\ Goto(l, "offer")
    /\ UNCHANGED <<rowVars, env, who, seen, copy, hd, old, booted>>

\* ... and the rules: the person is asked to confirm the link, and a token for it
\* is out.
OfferLink(l) ==
    /\ pc[l] = "offer"
    /\ Goto(l, IF seen[l] \notin rules THEN "denied"
               ELSE IF old[l] \notin {None, uid[l]} THEN "failed" ELSE "confirm")
    /\ UNCHANGED <<rowVars, env, callVars>>

\* Users().List: an empty organization is bootstrapped.
ListUsers(l) ==
    /\ pc[l] = "list"
    /\ Goto(l, IF Users = {} THEN "count" ELSE "rules")
    /\ UNCHANGED <<rowVars, env, callVars>>

\* BootstrapFirstUser, whose transaction runs at the isolation level of the
\* database (read committed on neon): it counts the users, ...
BootstrapCount(l) ==
    /\ pc[l] = "count"
    /\ Goto(l, IF Users = {} THEN "orgs" ELSE "rules")
    /\ UNCHANGED <<rowVars, env, callVars>>

\* ... then the organizations, ...
BootstrapOrgs(l) ==
    /\ pc[l] = "orgs"
    /\ Goto(l, IF org THEN "insert" ELSE "insertBoth")
    /\ UNCHANGED <<rowVars, env, callVars>>

NewRow(l, role, status) == [sub |-> who[l], email |-> seen[l], role |-> role, status |-> status]

\* The public user id is derived from the address, or is the GitHub name.
Named(l) == IF who[l] \in GitHub THEN "claim" ELSE "derive"

\* ... and inserts what is missing: the primary key of the organization and
\* the unique columns of users turn a loser into an ordinary new user.
BootstrapInsert(l) ==
    /\ pc[l] \in {"insert", "insertBoth"}
    /\ LET row == NewRow(l, "admin", "active") IN
       IF (pc[l] = "insertBoth" /\ org) \/ Clash(l, row)
       THEN Goto(l, "rules") /\ UNCHANGED <<users, org, uid, booted>>
       ELSE /\ org' = TRUE
            /\ users' = [users EXCEPT ![l] = row]
            /\ uid' = [uid EXCEPT ![l] = l]
            /\ booted' = [booted EXCEPT ![l] = TRUE]
            /\ Goto(l, Named(l))
    /\ UNCHANGED <<rules, ever, handles, env, who, seen, copy, hd, old>>

\* checkLoginRules for a new user.
CheckNew(l) ==
    /\ pc[l] = "rules"
    /\ Goto(l, IF seen[l] \in rules THEN "create" ELSE "denied")
    /\ UNCHANGED <<rowVars, env, callVars>>

\* What require_approval, read from the organization's settings, asks for.
initialUserStatus == {"active", "pending"}

\* Users().Create, with the status that require_approval asks for.
Create(l) ==
    /\ pc[l] = "create"
    /\ \E st \in initialUserStatus :
         LET row == NewRow(l, "member", st) IN
         IF Clash(l, row)
         THEN Goto(l, "again") /\ UNCHANGED <<users, uid>>
         ELSE /\ users' = [users EXCEPT ![l] = row]
              /\ uid' = [uid EXCEPT ![l] = l]
              /\ Goto(l, Named(l))
    /\ UNCHANGED <<org, rules, ever, handles, env, who, seen, copy, hd, old, booted>>

\* Mutant: the conflicting row is looked up by the address.
FindCreatedByEmail(l) ==
    /\ pc[l] = "again"
    /\ IF ByEmail(seen[l]) = {} THEN Goto(l, "failed") /\ UNCHANGED uid
       ELSE \E u \in ByEmail(seen[l]) : uid' = [uid EXCEPT ![l] = u] /\ Goto(l, "session")
    /\ UNCHANGED <<rowVars, env, who, seen, copy, hd, old, booted>>

\* After a conflict: the same identity may just have been created.
FindCreated(l) ==
    /\ pc[l] = "again"
    /\ IF BySubject(who[l]) = {} THEN Goto(l, "failed") /\ UNCHANGED uid
       ELSE \E u \in BySubject(who[l]) : uid' = [uid EXCEPT ![l] = u] /\ Goto(l, "session")
    /\ UNCHANGED <<rowVars, env, who, seen, copy, hd, old, booted>>

\* DeriveUserID: the first of the candidates of the address nobody holds (the
\* code tries suffix after suffix and has no last candidate), ...
Derive(l) ==
    LET tried == Candidates[seen[l]] IN
    /\ pc[l] = "derive"
    /\ \E i \in DOMAIN tried :
         /\ handles[tried[i]] = None
         /\ \A j \in 1 .. (i - 1) : handles[tried[j]] # None
         /\ hd' = [hd EXCEPT ![l] = tried[i]]
    /\ Goto(l, "claim")
    /\ UNCHANGED <<rowVars, env, who, seen, uid, copy, old, booted>>

\* PublicUserIDs().Create fails if the id is taken or the user has one.
Claimable(h, u) == handles[h] = None /\ ByOwner(u) = {}

\* Mutant: a taken id does not stop the login.
ClaimIgnored(l) ==
    LET h == IF who[l] \in GitHub THEN UserName[who[l]] ELSE hd[l] IN
    /\ pc[l] = "claim"
    /\ IF Claimable(h, l) THEN handles' = [handles EXCEPT ![h] = l] ELSE UNCHANGED handles
    /\ Goto(l, IF booted[l] THEN "seed" ELSE "session")
    /\ UNCHANGED <<users, org, rules, ever, env, callVars>>

\* ... and the insert, which an id taken meanwhile makes fail.
Claim(l) ==
    LET h == IF who[l] \in GitHub THEN UserName[who[l]] ELSE hd[l] IN
    /\ pc[l] = "claim"
    /\ IF Claimable(h, l)
       THEN /\ handles' = [handles EXCEPT ![h] = l]
            /\ Goto(l, IF booted[l] THEN "seed" ELSE "session")
       ELSE Goto(l, "failed") /\ UNCHANGED handles
    /\ UNCHANGED <<users, org, rules, ever, env, callVars>>

\* ReplaceLoginRules of the store, one transaction.
SetRules(new) == rules' = new /\ ever' = ever \cup new

\* The first administrator alone, or in open mode everybody.
seedBootstrapLoginRule(l) == SetRules(IF OpenMode THEN Emails ELSE {seen[l]})

\* The rules of a bootstrapped organization.
Seed(l) ==
    /\ pc[l] = "seed"
    /\ seedBootstrapLoginRule(l)
    /\ Goto(l, "session")
    /\ UNCHANGED <<users, org, handles, env, callVars>>

\* completeLogin.
Session(l) ==
    /\ pc[l] = "session"
    /\ Goto(l, "in")
    /\ UNCHANGED <<rowVars, env, callVars>>

(***************************************************************************)
(* Linking a GitHub identity to the account that has its address.          *)
(***************************************************************************)

\* handleLinkConfirmSubmit, a request of its own: l presents the token that login
\* m was offered.  The link state is signed, so subject, address and account are
\* those of the offer, and nothing remembers that it was presented before, also
\* by another request at the same time; the account is read again.
Confirm(l, m) ==
    LET u == uid[m] IN
    /\ pc[l] = "start" /\ pc[m] = "confirm"
    /\ IF users[u].status = "disabled"
       THEN Goto(l, "denied") /\ UNCHANGED <<who, seen, uid, copy>>
       ELSE /\ who' = [who EXCEPT ![l] = who[m]]
            /\ seen' = [seen EXCEPT ![l] = seen[m]]
            /\ uid' = [uid EXCEPT ![l] = u]
            /\ copy' = [copy EXCEPT ![l] = users[u]]
            /\ Goto(l, "recheck")
    /\ UNCHANGED <<rowVars, env, hd, old, booted>>

\* The rules are evaluated again, ...
Recheck(l) ==
    /\ pc[l] = "recheck"
    /\ Goto(l, IF seen[l] \in rules THEN "oldHandle" ELSE "denied")
    /\ UNCHANGED <<rowVars, env, callVars>>

\* ... the present public user id is looked up, ...
ReadOldHandle(l) ==
    /\ pc[l] = "oldHandle"
    /\ old' = [old EXCEPT ![l] = HandleOf(uid[l])]
    /\ Goto(l, "link")
    /\ UNCHANGED <<rowVars, env, who, seen, uid, copy, hd, booted>>

\* ... the row is written, ...
Link(l) ==
    LET row == [copy[l] EXCEPT !.sub = who[l], !.email = seen[l]] IN
    /\ pc[l] = "link"
    /\ IF Clash(uid[l], row) THEN Goto(l, "failed") /\ UNCHANGED users
       ELSE users' = [users EXCEPT ![uid[l]] = row] /\ Goto(l, "takeName")
    /\ UNCHANGED <<org, rules, ever, handles, env, callVars>>

\* UPDATE handles SET handle = new WHERE handle = old: no row, or a taken
\* new id, is an error.  The owner of the row is not looked at.
RenameTo(c, new, to) ==
    IF handles[old[c]] = None \/ handles[new] # None
    THEN Goto(c, "failed") /\ UNCHANGED handles
    ELSE /\ handles' = [handles EXCEPT ![old[c]] = None, ![new] = handles[old[c]]]
         /\ Goto(c, to)

\* ... and the public user id becomes the GitHub name.
TakeName(l) ==
    LET h == UserName[who[l]] IN
    /\ pc[l] = "takeName"
    /\ IF old[l] = h THEN Goto(l, "session") /\ UNCHANGED handles
       ELSE IF old[l] # None THEN RenameTo(l, h, "session")
       ELSE IF Claimable(h, uid[l])
            THEN handles' = [handles EXCEPT ![h] = uid[l]] /\ Goto(l, "session")
            ELSE Goto(l, "failed") /\ UNCHANGED handles
    /\ UNCHANGED <<users, org, rules, ever, env, callVars>>

(***************************************************************************)
(* Changes by the administrator and by the user.                           *)
(***************************************************************************)

\* Authenticate and the middleware in front of the API: the user is active
\* and the rules admit the address of the row.
MayAct(u) == users[u].status = "active" /\ users[u].email \in rules

ActiveAdmins == {u \in Users : users[u].role = "admin" /\ users[u].status = "active"}

\* PatchUser: an administrator names a user, whose row is read, ...
PatchRead(p, a, u) ==
    /\ pc[p] = "start"
    /\ MayAct(a) /\ users[a].role = "admin"
    /\ uid' = [uid EXCEPT ![p] = u]
    /\ copy' = [copy EXCEPT ![p] = users[u]]
    /\ Goto(p, "guard")
    /\ UNCHANGED <<rowVars, env, who, seen, hd, old, booted>>

\* ... the last-admin guard counts the others, ...
PatchGuard(p, role, status) ==
    LET t == copy[p]
        demoting == t.role = "admin"
                    /\ (role # "admin" \/ (status # "active" /\ t.status = "active")) IN
    /\ pc[p] = "guard"
    /\ IF demoting /\ ActiveAdmins \ {uid[p]} = {}
       THEN Goto(p, "denied") /\ UNCHANGED copy
       ELSE /\ copy' = [copy EXCEPT ![p].role = role, ![p].status = status]
            /\ Goto(p, "write")
    /\ UNCHANGED <<rowVars, env, who, seen, uid, hd, old, booted>>

\* ... and the row is written whole.
WriteRow(c, to) ==
    /\ pc[c] = "write"
    /\ IF Clash(uid[c], copy[c]) THEN Goto(c, "failed") /\ UNCHANGED users
       ELSE users' = [users EXCEPT ![uid[c]] = copy[c]] /\ Goto(c, to)
    /\ UNCHANGED <<org, rules, ever, handles, env, callVars>>

\* handleMePatch: the caller's row is read; the id h asked for, if any, is
\* refused to a GitHub account; a new language writes the row.
SelfRead(c, u, h) ==
    /\ pc[c] = "start" /\ MayAct(u)
    /\ uid' = [uid EXCEPT ![c] = u]
    /\ copy' = [copy EXCEPT ![c] = users[u]]
    /\ hd' = [hd EXCEPT ![c] = h]
    /\ IF h # None /\ users[u].sub \in GitHub THEN Goto(c, "denied")
       ELSE \E to \in {"write", "lookup"} : Goto(c, to)
    /\ UNCHANGED <<rowVars, env, who, seen, old, booted>>

\* The present id is looked up, ...
SelfLookup(c) ==
    /\ pc[c] = "lookup"
    /\ old' = [old EXCEPT ![c] = HandleOf(uid[c])]
    /\ Goto(c, IF hd[c] \in {None, HandleOf(uid[c])} THEN "done"
               ELSE IF ByOwner(uid[c]) = {} THEN "failed" ELSE "rename")
    /\ UNCHANGED <<rowVars, env, who, seen, uid, copy, hd, booted>>

\* ... and renamed.
SelfRename(c) ==
    /\ pc[c] = "rename"
    /\ RenameTo(c, hd[c], "done")
    /\ UNCHANGED <<users, org, rules, ever, env, callVars>>

\* ReplaceLoginRules: the administrator's row was read when the request was
\* authenticated; a list that does not admit its address is refused, ...
RulesRead(c, a, new) ==
    /\ pc[c] = "start"
    /\ MayAct(a) /\ users[a].role = "admin"
    /\ IF users[a].email \in new
       THEN seen' = [seen EXCEPT ![c] = new] /\ Goto(c, "replace")
       ELSE Goto(c, "denied") /\ UNCHANGED seen
    /\ UNCHANGED <<rowVars, env, who, uid, copy, hd, old, booted>>

\* ... and any other one replaces the rows.
RulesReplace(c) ==
    /\ pc[c] = "replace"
    /\ SetRules(seen[c])
    /\ Goto(c, "done")
    /\ UNCHANGED <<users, org, handles, env, callVars>>

-----------------------------------------------------------------------------

LoginStep(l) ==
    \/ StartLogin(l)
    \/ \E s \in Google : Callback(l, s)
    \/ \E s \in GitHub : GitHubCallback(l, s)
    \/ CheckKnown(l) \/ RefreshRow(l) \/ ReadHandle(l) \/ ReadEmail(l) \/ OfferLink(l)
    \/ ListUsers(l) \/ BootstrapCount(l) \/ BootstrapOrgs(l) \/ BootstrapInsert(l)
    \/ CheckNew(l) \/ Create(l) \/ FindCreated(l) \/ Derive(l) \/ Claim(l) \/ Seed(l)
    \/ Session(l) \/ (\E m \in Logins : Confirm(l, m))
    \/ Recheck(l) \/ ReadOldHandle(l) \/ Link(l) \/ TakeName(l)

PatchStep(p) ==
    \/ \E a, u \in Users : PatchRead(p, a, u)
    \/ \E role \in Roles, status \in Statuses : PatchGuard(p, role, status)
    \/ WriteRow(p, "done")

SelfStep(c) ==
    \/ \E u \in Users, h \in Handles \cup {None} : SelfRead(c, u, h)
    \/ WriteRow(c, "lookup") \/ SelfLookup(c) \/ SelfRename(c)

RulesStep(c) ==
    \/ \E a \in Users, new \in SUBSET Emails : RulesRead(c, a, new)
    \/ RulesReplace(c)

Next ==
    \/ \E l \in Logins : LoginStep(l)
    \/ \E p \in Patches : PatchStep(p)
    \/ \E c \in Selfs : SelfStep(c)
    \/ \E c \in Ruleses : RulesStep(c)
    \/ \E c \in Calls : Fail(c)
    \/ \E s \in Subjects, e \in Emails : ChangeMail(s, e)
    \/ Reconfigure

Spec == Init /\ [][Next]_vars

-----------------------------------------------------------------------------

Places == {"start", "away", "known", "refresh", "handle", "email", "offer", "list", "count", "orgs",
           "insert", "insertBoth", "rules", "create", "again", "derive", "claim", "seed",
           "session", "confirm", "recheck", "oldHandle", "link", "takeName", "guard", "write",
           "lookup", "rename", "replace", "in", "done", "denied", "failed"}

\* Rows and registers have their types, and two users share neither an
\* identity nor an address nor a public user id.
TypeOK ==
    /\ users \in [Logins -> Row \cup {None}]
    /\ org \in BOOLEAN
    /\ rules \subseteq ever /\ ever \subseteq Emails
    /\ handles \in [Handles -> Users \cup {None}]
    /\ mail \in [Subjects -> Emails] /\ mode \in {"google", "github"}
    /\ pc \in [Calls -> Places]
    /\ who \in [Logins -> Subjects \cup {None}]
    /\ seen \in [Calls -> Emails \cup (SUBSET Emails) \cup {None}]
    /\ uid \in [Calls -> Users \cup {None}]
    /\ copy \in [Calls -> Row \cup {None}]
    /\ hd \in [Calls -> Handles \cup {None}]
    /\ old \in [Calls -> Handles \cup Users \cup {None}]
    /\ booted \in [Logins -> BOOLEAN]
    /\ \A u \in Users : ~Clash(u, users[u])
    /\ \A g, h \in Handles : handles[g] = handles[h] /\ handles[g] # None => g = h

\* Whoever is signed in was admitted by some rule list or bootstrapped the
\* organization, whatever path the login took and however the rules, the
\* addresses and the accounts changed under it.
AdmittedOrFirst == \A l \in Logins : pc[l] = "in" => seen[l] \in ever \/ booted[l]

\* A login that created its account ends with a public user id for it,
\* although both the id derived from the address and the GitHub name may be
\* taken by others between the lookup and the insert.
NewcomersHaveAnId == \A l \in Logins : pc[l] = "in" /\ uid[l] = l => ByOwner(l) # {}

\* When a login settles on an account, other than to offer or to confirm a link,
\* the row carries the identity that signed in, also after a conflict on create.
SettlesOnItself ==
    [][\A l \in Logins : uid'[l] # uid[l] /\ pc'[l] \notin {"offer", "recheck"}
          => users'[uid'[l]].sub = who'[l]]_vars

\* At most one login bootstraps the organization and becomes its
\* administrator without having been admitted (the comment of
\* BootstrapFirstUser).
BootstrapOnce == Cardinality({l \in Logins : booted[l]}) <= 1
=============================================================================
