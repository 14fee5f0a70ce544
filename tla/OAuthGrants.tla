----------------------------- MODULE OAuthGrants -----------------------------
(***************************************************************************)
(* The OAuth authorization server: registered clients, single-use codes,   *)
(* and refresh-token grants that rotate their secret on every use          *)
(* (src/server/internal/oauth, the SQL repositories under it, and the      *)
(* hourly sweep of cmd/funcbox-server/cleanup.go).                         *)
(*                                                                         *)
(* A request to POST /oauth/token creates at most one grant and mints at   *)
(* most one refresh secret, so both are named by the request.  Each SQL    *)
(* statement is a step.  Times are in days; the row of a deleted client,   *)
(* code or grant is kept, not live, as ids and secrets are never reused.   *)
(***************************************************************************)
EXTENDS Naturals

CONSTANTS
    Clients,    \* client ids
    Codes,      \* authorization codes
    Requests,   \* token requests; also the grants and secrets they create
    CodeLife,   \* oauthAuthCodeLifetime
    Sliding,    \* oauthGrantSlidingWindow
    MaxLife,    \* oauthGrantMaxLifetime
    UnusedTTL,  \* oauthClientUnusedTTL
    MaxTime,    \* bound on the clock
    None        \* no row, NULL

ASSUME TimesAssumption ==
    CodeLife \in Nat /\ Sliding \in Nat /\ MaxLife \in Nat /\ UnusedTTL \in Nat /\ MaxTime \in Nat
ASSUME NamesAssumption == Codes \cap Requests = {}

Client == [at : Nat, live : BOOLEAN]
Code == [client : Clients, expires : Nat, live : BOOLEAN]
Grant == [client : Clients, cur : Requests, prev : Requests \cup {None},
          created : Nat, used : Nat \cup {None}, live : BOOLEAN]

ASSUME NoneAssumption == None \notin Codes \cup Requests \cup Client \cup Code \cup Grant \cup Nat

VARIABLES
    now,      \* the clock
    clients,  \* oauth_clients: client -> row, None before it registers
    codes,    \* oauth_auth_codes: code -> row, None before it is minted
    grants,   \* oauth_grants: grant -> row, None before it is created
    pc,       \* request -> where it is
    from,     \* request -> the code or secret it was given something for
    sec,      \* request -> the refresh secret it presented
    tgt,      \* request -> the grant of that secret when it was looked up
    at,       \* request -> its time.Now()
    sweeper   \* the time of the sweep under way, None between sweeps

vars == <<now, clients, codes, grants, pc, from, sec, tgt, at, sweeper>>
reqVars == <<pc, from, sec, tgt, at>>

Init ==
    /\ now = 0
    /\ clients = [c \in Clients |-> None]
    /\ codes = [k \in Codes |-> None]
    /\ grants = [g \in Requests |-> None]
    /\ pc = [r \in Requests |-> "start"]
    /\ from = [r \in Requests |-> None]
    /\ sec = [r \in Requests |-> None]
    /\ tgt = [r \in Requests |-> None]
    /\ at = [r \in Requests |-> 0]
    /\ sweeper = None

LiveClient(c) == clients[c] # None /\ clients[c].live
LiveCode(k) == codes[k] # None /\ codes[k].live
LiveGrant(g) == grants[g] # None /\ grants[g].live

Goto(r, to) == pc' = [pc EXCEPT ![r] = to]

Tick ==
    /\ now < MaxTime
    /\ now' = now + 1
    /\ UNCHANGED <<clients, codes, grants, reqVars, sweeper>>

(***************************************************************************)
(* Registration and consent.                                               *)
(***************************************************************************)

\* handleRegister, once past the rate limit and the checks of its body.
Register(c) ==
    /\ clients[c] = None
    /\ clients' = [clients EXCEPT ![c] = [at |-> now, live |-> TRUE]]
    /\ UNCHANGED <<now, codes, grants, reqVars, sweeper>>

\* The row of a code after DELETE ... WHERE expires_at <= t.
Unexpired(k, t) == [codes[k] EXCEPT !.live = @ /\ codes[k].expires > t]

\* handleAuthorizeDecision: the expired codes are deleted, and the new one
\* inserted.  The client was looked up before, but it is the foreign key that
\* sees it at the insert.
Approve(k, c) ==
    /\ codes[k] = None /\ LiveClient(c)
    /\ codes' = [j \in Codes |->
          IF j = k THEN [client |-> c, expires |-> now + CodeLife, live |-> TRUE]
          ELSE IF codes[j] = None THEN None ELSE Unexpired(j, now)]
    /\ UNCHANGED <<now, clients, grants, reqVars, sweeper>>

(***************************************************************************)
(* The authorization_code grant.                                           *)
(***************************************************************************)

\* DELETE ... RETURNING: the code is burned by any attempt, also one whose
\* client, redirect URI or verifier turns out not to match.
Consume(r, k) ==
    /\ pc[r] = "start" /\ LiveCode(k) /\ codes[k].expires > now
    /\ codes' = [codes EXCEPT ![k].live = FALSE]
    /\ from' = [from EXCEPT ![r] = k]
    /\ \E to \in {"issue", "failed"} : Goto(r, to)
    /\ UNCHANGED <<now, clients, grants, sec, tgt, at, sweeper>>

\* issueTokenPair: the grant is inserted, unless its client has been swept
\* meanwhile (the foreign key).  The response may be lost.
Issue(r) ==
    LET c == codes[from[r]].client IN
    /\ pc[r] = "issue"
    /\ IF LiveClient(c)
       THEN /\ grants' = [grants EXCEPT ![r] =
                  [client |-> c, cur |-> r, prev |-> None, created |-> now, used |-> None, live |-> TRUE]]
            /\ \E to \in {"ok", "failed"} : Goto(r, to)
       ELSE Goto(r, "failed") /\ UNCHANGED grants
    /\ UNCHANGED <<now, clients, codes, from, sec, tgt, at, sweeper>>

(***************************************************************************)
(* The refresh_token grant.                                                *)
(***************************************************************************)

\* The reference point of the sliding window.
LastUse(g) == IF g.used = None THEN g.created ELSE g.used

\* Mutant: the sliding window alone.
ActiveSlidingOnly(g, t) == t < LastUse(g) + Sliding

\* oauthGrantActive.
Active(g, t) == t < g.created + MaxLife /\ t < LastUse(g) + Sliding

\* A secret that a client was sent is presented, and ByHash finds the grant
\* whose current secret it is.
RefreshFound(r, s, g) ==
    /\ pc[r] = "start" /\ pc[s] = "ok"
    /\ LiveGrant(g) /\ grants[g].cur = s
    /\ IF Active(grants[g], now)
       THEN /\ sec' = [sec EXCEPT ![r] = s]
            /\ tgt' = [tgt EXCEPT ![r] = g]
            /\ at' = [at EXCEPT ![r] = now]
            /\ Goto(r, "rotate")
       ELSE Goto(r, "failed") /\ UNCHANGED <<sec, tgt, at>>
    /\ UNCHANGED <<now, clients, codes, grants, from, sweeper>>

\* ByHash finds nothing: the secret may be a retired one.
RefreshUnknown(r, s) ==
    /\ pc[r] = "start" /\ pc[s] = "ok"
    /\ \A g \in Requests : ~(LiveGrant(g) /\ grants[g].cur = s)
    /\ sec' = [sec EXCEPT ![r] = s]
    /\ \E g \in Requests \cup {None} :
          /\ IF g = None THEN \A h \in Requests : ~(LiveGrant(h) /\ grants[h].prev = s)
             ELSE LiveGrant(g) /\ grants[g].prev = s
          /\ tgt' = [tgt EXCEPT ![r] = g]
    /\ Goto(r, "reuse")
    /\ UNCHANGED <<now, clients, codes, grants, from, at, sweeper>>

\* Mutant: the previous secret only stops working.
RevokeNothing(r) ==
    /\ pc[r] = "reuse"
    /\ Goto(r, "reused")
    /\ UNCHANGED <<now, clients, codes, grants, from, sec, tgt, at, sweeper>>

\* RevokeIfPreviousSecret: whatever grant was rotated away from the secret.
Revoke(r) ==
    /\ pc[r] = "reuse"
    /\ grants' = [g \in Requests |->
          IF LiveGrant(g) /\ grants[g].prev = sec[r] THEN [grants[g] EXCEPT !.live = FALSE] ELSE grants[g]]
    /\ Goto(r, "reused")
    /\ UNCHANGED <<now, clients, codes, from, sec, tgt, at, sweeper>>

\* Mutant: the update is keyed on the grant's id alone.
RotateById(r) ==
    LET g == tgt[r] IN
    /\ pc[r] = "rotate"
    /\ IF LiveGrant(g)
       THEN /\ grants' = [grants EXCEPT ![g].cur = r, ![g].prev = sec[r], ![g].used = at[r]]
            /\ from' = [from EXCEPT ![r] = sec[r]]
            /\ Goto(r, "ok")
       ELSE Goto(r, "failed") /\ UNCHANGED <<grants, from>>
    /\ UNCHANGED <<now, clients, codes, sec, tgt, at, sweeper>>

\* Rotate: the compare-and-swap on the current secret.  The new secret may
\* still be lost on its way: minting the access token fails, or the response.
Rotate(r) ==
    LET g == tgt[r] IN
    /\ pc[r] = "rotate"
    /\ IF LiveGrant(g) /\ grants[g].cur = sec[r]
       THEN /\ grants' = [grants EXCEPT ![g].cur = r, ![g].prev = sec[r], ![g].used = at[r]]
            /\ from' = [from EXCEPT ![r] = sec[r]]
            /\ \E to \in {"ok", "failed"} : Goto(r, to)
       ELSE Goto(r, "failed") /\ UNCHANGED <<grants, from>>
    /\ UNCHANGED <<now, clients, codes, sec, tgt, at, sweeper>>

\* A request ends where it is: malformed, an unknown code or client, a user
\* who may no longer sign in, a failing store or a dead process.
Fail(r) ==
    /\ pc[r] \in {"start", "issue", "rotate", "reuse"}
    /\ Goto(r, "failed")
    /\ UNCHANGED <<now, clients, codes, grants, from, sec, tgt, at, sweeper>>

(***************************************************************************)
(* Revocation and the sweep.                                               *)
(***************************************************************************)

\* RevokeDevice of kind "oauth".
RevokeDevice(g) ==
    /\ LiveGrant(g)
    /\ grants' = [grants EXCEPT ![g].live = FALSE]
    /\ UNCHANGED <<now, clients, codes, reqVars, sweeper>>

\* No grant and no code refers to the client.
Unused(c) ==
    /\ \A g \in Requests : LiveGrant(g) => grants[g].client # c
    /\ \A k \in Codes : LiveCode(k) => codes[k].client # c

\* runOAuthCleanup: DeleteUnusedOlderThan, an error of which is only logged ...
SweepClients ==
    /\ sweeper = None
    /\ \/ clients' = [c \in Clients |->
             IF LiveClient(c) /\ clients[c].at + UnusedTTL <= now /\ Unused(c)
             THEN [clients[c] EXCEPT !.live = FALSE] ELSE clients[c]]
       \/ UNCHANGED clients
    /\ sweeper' = now
    /\ UNCHANGED <<now, codes, grants, reqVars>>

\* ... and then DeleteExpired, as of the same time.
SweepCodes ==
    /\ sweeper # None
    /\ \/ codes' = [k \in Codes |-> IF codes[k] = None THEN None ELSE Unexpired(k, sweeper)]
       \/ UNCHANGED codes
    /\ sweeper' = None
    /\ UNCHANGED <<now, clients, grants, reqVars>>

-----------------------------------------------------------------------------

RequestStep(r) ==
    \/ \E k \in Codes : Consume(r, k)
    \/ \E s, g \in Requests : RefreshFound(r, s, g)
    \/ \E s \in Requests : RefreshUnknown(r, s)
    \/ Issue(r) \/ Revoke(r) \/ Rotate(r) \/ Fail(r)

Next ==
    \/ Tick
    \/ \E c \in Clients : Register(c) \/ \E k \in Codes : Approve(k, c)
    \/ \E r \in Requests : RequestStep(r) \/ RevokeDevice(r)
    \/ SweepClients \/ SweepCodes

Spec == Init /\ [][Next]_vars

-----------------------------------------------------------------------------
(***************************************************************************)
(* Properties.                                                             *)
(***************************************************************************)

TypeOK ==
    /\ now \in Nat
    /\ clients \in [Clients -> Client \cup {None}]
    /\ codes \in [Codes -> Code \cup {None}]
    /\ grants \in [Requests -> Grant \cup {None}]
    /\ pc \in [Requests -> {"start", "issue", "rotate", "reuse", "ok", "failed", "reused"}]
    /\ from \in [Requests -> Codes \cup Requests \cup {None}]
    /\ sec \in [Requests -> Requests \cup {None}]
    /\ tgt \in [Requests -> Requests \cup {None}]
    /\ at \in [Requests -> Nat]
    /\ sweeper \in Nat \cup {None}

\* A code, and a refresh secret, is traded at most once, however many
\* requests present it at the same time.
RedeemedOnce ==
    \A r, q \in Requests : from[r] # None /\ from[r] = from[q] => r = q

\* Grants share no secret, and the previous secret of a grant is the one its
\* current secret was traded for: a reused secret points at one family.
FamiliesDisjoint ==
    /\ \A g, h \in Requests : grants[g] # None /\ grants[h] # None /\ g # h =>
          /\ grants[g].cur \notin {grants[h].cur, grants[h].prev}
          /\ grants[g].prev # None => grants[g].prev # grants[h].prev
    /\ \A g \in Requests : grants[g] # None =>
          IF grants[g].prev = None THEN grants[g].cur = g ELSE from[grants[g].cur] = grants[g].prev

\* A secret that was answered as unknown buys nothing any more, and the grant
\* rotated away from it, if still the same rotation, is gone.
ReusedSecretIsDead ==
    \A r, g \in Requests : pc[r] = "reused" /\ LiveGrant(g) =>
        sec[r] \notin {grants[g].cur, grants[g].prev}

\* Every live grant and code belongs to a registered client: the sweep never
\* takes a client that is in use or coming into use.
InUseClientsStay ==
    /\ \A g \in Requests : LiveGrant(g) => LiveClient(grants[g].client)
    /\ \A k \in Codes : LiveCode(k) => LiveClient(codes[k].client)

\* A deleted grant, and a consumed code, never come back to life, whatever
\* rotation was under way.
DeadStaysDead ==
    [][/\ \A g \in Requests : grants[g] # None /\ ~LiveGrant(g) => ~LiveGrant(g)'
       /\ \A k \in Codes : codes[k] # None /\ ~LiveCode(k) => ~LiveCode(k)']_vars

\* A rotation counts as a use at a moment when the grant was active, within
\* the sliding window of the use before it and under the absolute cap, and
\* uses never go back in time.
RenewedInTime ==
    [][\A g \in Requests : grants[g] # None /\ grants'[g].used # grants[g].used =>
          /\ LastUse(grants[g]) <= grants'[g].used
          /\ grants'[g].used < LastUse(grants[g]) + Sliding
          /\ grants'[g].used < grants[g].created + MaxLife]_vars

\* What token.go says of reuse, and a rotation between its two statements can
\* break: an already-retired secret that is presented again is treated as
\* theft, and the grant is revoked.
ReuseRevokesFamily ==
    \A r \in Requests : pc[r] = "reused" /\ tgt[r] # None => ~LiveGrant(tgt[r])

\* A code that was taken, or is being redeemed, has a row.
CodeInv ==
    \A r \in Requests :
        /\ from[r] \in Codes => codes[from[r]] # None /\ ~codes[from[r]].live
        /\ pc[r] = "issue" => from[r] \in Codes
        /\ pc[r] = "start" => from[r] = None
        /\ grants[r] # None => pc[r] \notin {"start", "issue"}

\* A secret is minted by a request that is over, and once traded it is no
\* grant's current one.
SecretInv ==
    /\ \A g \in Requests : grants[g] # None =>
          /\ pc[grants[g].cur] \in {"ok", "failed"}
          /\ grants[g].prev # None => pc[grants[g].prev] = "ok"
          /\ grants[g].created <= LastUse(grants[g]) /\ LastUse(grants[g]) <= now
    /\ \A r \in Requests : from[r] \in Requests =>
          /\ pc[from[r]] = "ok" /\ pc[r] \in {"ok", "failed"}
          /\ \A g \in Requests : grants[g] # None => grants[g].cur # from[r]

\* A request about to rotate has seen the row it will compare with.
RotateInv ==
    \A r \in Requests :
        /\ pc[r] = "rotate" =>
              /\ from[r] = None
              /\ sec[r] \in Requests /\ pc[sec[r]] = "ok"
              /\ tgt[r] \in Requests /\ grants[tgt[r]] # None
              /\ at[r] <= now
              /\ grants[tgt[r]].cur = sec[r] =>
                    Active(grants[tgt[r]], at[r]) /\ LastUse(grants[tgt[r]]) <= at[r]
        /\ pc[r] \in {"reuse", "reused"} =>
              /\ from[r] = None
              /\ sec[r] \in Requests /\ pc[sec[r]] = "ok"
              /\ \A g \in Requests : LiveGrant(g) => grants[g].cur # sec[r]

\* The inductive invariant.
IInv ==
    /\ TypeOK
    /\ CodeInv
    /\ SecretInv
    /\ RotateInv
    /\ RedeemedOnce
    /\ FamiliesDisjoint
    /\ ReusedSecretIsDead
    /\ InUseClientsStay
=============================================================================
